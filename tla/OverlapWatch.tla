---------------------------- MODULE OverlapWatch ----------------------------
(***************************************************************************)
(* The refusal to route a subnet the host is on: the check in connect and   *)
(* the mid-session watcher (tunnel/client.rs), over split_tunnel_conflict   *)
(* (net/local_networks.rs).                                                 *)
(*                                                                          *)
(* A prefix is [family, bits], bits the sequence of its leading bits; a     *)
(* local network is [interface, net].  Time is discrete: Tick passes a unit *)
(* and nothing that is due waits for it.                                    *)
(***************************************************************************)
EXTENDS Naturals, Sequences, SequencesExt

CONSTANTS
  Routes,          \* config.routes and routes6, families the server assigned
  LocalSets,       \* what the host may be attached to: sets of local networks
  AddressBits,     \* bits of an address
  EXEMPT_MAX_PREFIX_LEN,
  POLL,            \* LOCAL_NETWORK_POLL_INTERVAL
  tun_name,
  OwnTun,          \* how the TUN device is enumerated; {} where flags hide it
  SetupChanges,    \* may the network change during connect's setup?
  FailingSweeps,   \* which enumerations may fail: "check", "baseline", "poll"
  MaxFailures      \* bound: enumerations that fail

ASSUME PollAssumption == POLL \in Nat \ {0} /\ MaxFailures \in Nat

\* Prefixes are no longer than an address, and only the TUN device has its name.
ASSUME HostAssumption ==
  /\ AddressBits \in Nat
  /\ \A net \in Routes \cup {l.net : l \in UNION LocalSets} :
       net.bits \in Seq({0, 1}) /\ Len(net.bits) <= AddressBits
  /\ \A l \in OwnTun : l.interface = tun_name
  /\ \A l \in UNION LocalSets : l.interface # tun_name

VARIABLES
  locals,     \* the networks the host is on now
  pc,         \* connect: "check", "setup", "running", "ended"
  watch,      \* the watcher: "none", "spawned", "asleep", "found", "recorded", "done"
  timer,      \* its sleep
  last,       \* the set it saw last
  detected,   \* overlap_detected holds the refusal
  conn,       \* the QUIC connection: "open", "lost", or "closed" by the watcher
  result,     \* what connect returned
  age,        \* history: how long a conflict has lasted, unnoticed
  failed      \* enumerations failed so far

vars == <<locals, pc, watch, timer, last, detected, conn, result, age, failed>>

Init ==
  /\ locals \in LocalSets
  /\ pc = "check" /\ watch = "none" /\ timer = 0 /\ last = {}
  /\ detected = FALSE /\ conn = "open" /\ result = "none" /\ age = 0 /\ failed = 0

-----------------------------------------------------------------------------
(* net/local_networks.rs. *)

\* Two prefixes overlap iff one contains the other.
overlaps(a, b) ==
  /\ a.family = b.family
  /\ IsPrefix(a.bits, b.bits) \/ IsPrefix(b.bits, a.bits)

\* A slip: only a route inside a local network is a conflict.
ConflictInsideOnly(nets) ==
  \E r \in Routes, l \in nets :
    /\ Len(r.bits) > EXEMPT_MAX_PREFIX_LEN
    /\ r.family = l.net.family /\ IsPrefix(l.net.bits, r.bits)

split_tunnel_conflict(nets) ==
  \E r \in Routes, l \in nets :
    Len(r.bits) > EXEMPT_MAX_PREFIX_LEN /\ overlaps(r, l.net)

has_refusable_routes == \E r \in Routes : Len(r.bits) > EXEMPT_MAX_PREFIX_LEN

\* An enumeration that fails finds nothing.
local_networks(where, nets) ==
  \/ /\ nets = locals \cup (IF where = "check" THEN {} ELSE OwnTun)
     /\ UNCHANGED failed
  \/ /\ where \in FailingSweeps /\ failed < MaxFailures
     /\ nets = {} /\ failed' = failed + 1

Others(nets) == {l \in nets : l.interface # tun_name}

Sightings == LocalSets \cup {{}} \cup {nets \cup OwnTun : nets \in LocalSets}

-----------------------------------------------------------------------------
(* connect. *)

OverlapCheck ==
  /\ pc = "check"
  /\ \E nets \in Sightings :
       /\ local_networks("check", nets)
       /\ \/ /\ split_tunnel_conflict(nets)
             /\ pc' = "ended" /\ result' = "RouteOverlapsLocalNetwork"
          \/ ~split_tunnel_conflict(nets) /\ pc' = "setup" /\ UNCHANGED result
  /\ UNCHANGED <<locals, watch, timer, last, detected, conn, age>>

\* The TUN device, the routes; then the watcher is spawned and the tunnel runs.
SetUpDone ==
  /\ pc = "setup"
  /\ pc' = "running"
  /\ watch' = IF has_refusable_routes THEN "spawned" ELSE "none"
  /\ UNCHANGED <<locals, timer, last, detected, conn, result, age, failed>>

ConnectionLost ==
  /\ pc = "running" /\ conn = "open"
  /\ conn' = "lost"
  /\ UNCHANGED <<locals, pc, watch, timer, last, detected, result, age, failed>>

\* run_tunnel has unwound; the refusal, if there is one, takes the place of its
\* error, and the guard aborts a watcher that sleeps.
ConnectReturns ==
  /\ pc = "running" /\ conn # "open"
  /\ pc' = "ended"
  /\ result' = IF detected THEN "RouteOverlapsLocalNetwork" ELSE "ConnectionLost"
  /\ watch' = IF watch \in {"spawned", "asleep"} THEN "done" ELSE watch
  /\ UNCHANGED <<locals, timer, last, detected, conn, age, failed>>

-----------------------------------------------------------------------------
(* spawn_local_network_overlap_watch. *)

Baseline ==
  /\ watch = "spawned"
  /\ \E nets \in Sightings : local_networks("baseline", nets) /\ last' = Others(nets)
  /\ watch' = "asleep" /\ timer' = POLL
  /\ UNCHANGED <<locals, pc, detected, conn, result, age>>

\* One poll: a set that changed is checked.
Poll ==
  /\ watch = "asleep" /\ timer = 0
  /\ \E nets \in Sightings :
       /\ local_networks("poll", nets)
       /\ last' = Others(nets)
       /\ IF last' # last /\ split_tunnel_conflict(last')
          THEN watch' = "found" /\ UNCHANGED timer
          ELSE watch' = "asleep" /\ timer' = POLL
  /\ UNCHANGED <<locals, pc, detected, conn, result, age>>

\* A slip: the connection is closed and the refusal never recorded.
CloseOnly ==
  /\ watch = "found"
  /\ conn' = "closed" /\ watch' = "done"
  /\ UNCHANGED <<locals, pc, timer, last, detected, result, age, failed>>

Record ==
  /\ watch = "found"
  /\ detected' = TRUE /\ watch' = "recorded"
  /\ UNCHANGED <<locals, pc, timer, last, conn, result, age, failed>>

CloseConnection ==
  /\ watch = "recorded"
  /\ conn' = IF conn = "open" THEN "closed" ELSE conn
  /\ watch' = "done"
  /\ UNCHANGED <<locals, pc, timer, last, detected, result, age, failed>>

-----------------------------------------------------------------------------
(* The host. *)

\* What the check is for: some address is both routed specifically and on-link.
CutOff(nets) ==
  \E r \in Routes, l \in nets, a \in [1..AddressBits -> {0, 1}] :
    /\ Len(r.bits) > EXEMPT_MAX_PREFIX_LEN /\ r.family = l.net.family
    /\ \A i \in 1..Len(r.bits) : a[i] = r.bits[i]
    /\ \A i \in 1..Len(l.net.bits) : a[i] = l.net.bits[i]

NetworkChanges ==
  /\ SetupChanges \/ pc = "check" \/ (pc = "running" /\ watch # "spawned")
  /\ locals' \in LocalSets \ {locals}
  /\ age' = IF CutOff(locals') THEN age ELSE 0
  /\ UNCHANGED <<pc, watch, timer, last, detected, conn, result, failed>>

Tick ==
  /\ pc \in {"setup", "running"} /\ conn = "open"
  /\ watch \in {"none", "asleep"}
  /\ watch = "asleep" => timer > 0
  /\ age <= (MaxFailures + 1) * POLL
  /\ timer' = IF watch = "asleep" THEN timer - 1 ELSE timer
  /\ age' = IF pc = "running" /\ CutOff(locals)
            THEN age + 1 ELSE 0
  /\ UNCHANGED <<locals, pc, watch, last, detected, conn, result, failed>>

Connect == OverlapCheck \/ SetUpDone \/ ConnectReturns
Watch == Baseline \/ Poll \/ Record \/ CloseConnection

Done == pc = "ended" /\ watch \in {"none", "done"} /\ UNCHANGED vars

Next == Connect \/ Watch \/ ConnectionLost \/ NetworkChanges \/ Tick \/ Done

Spec == Init /\ [][Next]_vars

-----------------------------------------------------------------------------
(* Properties. *)

\* "it bounds how long a newly conflicting subnet goes unnoticed": while the
\* tunnel runs, no conflict lasts longer than one poll interval, and one more
\* for every enumeration that failed.
ConflictNoticed == pc = "running" => age <= (failed + 1) * POLL

\* When it was the watcher that closed the connection, its refusal is what
\* connect returns, not the ConnectionLost that closing produced: the reconnect
\* loop does not dial again into the conflict.  And it closes one only over a
\* network the host is attached to, never over the session's own TUN device.
RefusalSurfaces ==
  /\ (pc = "ended" /\ conn = "closed") => result = "RouteOverlapsLocalNetwork"
  /\ watch = "found" => CutOff(last \cap UNION LocalSets)
=============================================================================
