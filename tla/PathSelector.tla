---------------------------- MODULE PathSelector ----------------------------
(***************************************************************************)
(* ExcludingPathSelector (transport/path_selector.rs): which of the paths   *)
(* of a connection carries the tunnel when the direct paths to some server  *)
(* addresses are excluded.                                                  *)
(*                                                                          *)
(* A path is its remote [kind, net]: a relay, or an address by the way it   *)
(* is written (an IPv4 address may be mapped into IPv6) and the network it  *)
(* is in.  A candidate is a path with its round-trip time; the order of     *)
(* candidates decides between equals only, and is left open.                *)
(***************************************************************************)
EXTENDS Integers

CONSTANTS
  Paths,             \* the paths a connection may have
  excluded,          \* [family, net] of exclude_direct_paths
  RTTs,              \* round-trip times
  None,
  IPV6_RTT_ADVANTAGE,
  RTT_SWITCHING_MIN

ASSUME SelectorAssumption ==
  /\ IPV6_RTT_ADVANTAGE \in Nat /\ RTT_SWITCHING_MIN \in Nat \ {0}
  /\ RTTs \subseteq Nat /\ None \notin Paths

VARIABLES
  current,  \* the selected path, or None
  left,     \* history: the path of this tier left last, and by what margin
  swing,    \* history: how far the margin moved until the way back was taken
  seen      \* history: the allowed paths the last call was shown

pathVars == <<current, left, swing, seen>>

PathInit ==
  /\ current \in Paths \cup {None}
  /\ left = None /\ swing = None /\ seen = {}

is_relay(path) == path.kind = "relay"

is_excluded(path) ==
  LET canonical == IF path.kind = "mapped" THEN "ip4" ELSE path.kind
  IN  ~is_relay(path) /\ [family |-> canonical, net |-> path.net] \in excluded

biased(c) ==
  c.rtt - (IF c.path.kind \in {"ip6", "mapped"} THEN IPV6_RTT_ADVANTAGE ELSE 0)

\* sort_key: any direct path before any relay.
Better(a, b) ==
  \/ ~is_relay(a.path) /\ is_relay(b.path)
  \/ is_relay(a.path) = is_relay(b.path) /\ biased(a) < biased(b)

Allowed(candidates) == {c \in candidates : ~is_excluded(c.path)}

\* A slip: any improvement is worth a switch.
ChooseAnyGain(candidates) ==
  LET allowed == Allowed(candidates)
      Keeps(b) == \E c \in allowed : c.path = current /\ ~Better(b, c)
  IN  {b \in allowed : (\A c \in allowed : ~Better(c, b)) /\ ~Keeps(b)}

\* The candidates that may be switched to; none keeps the selection.
choose(candidates) ==
  LET allowed == Allowed(candidates)
      Keeps(b) == \E c \in allowed :
                    /\ c.path = current /\ is_relay(c.path) = is_relay(b.path)
                    /\ biased(b) + RTT_SWITCHING_MIN > biased(c)
  IN  {b \in allowed : (\A c \in allowed : ~Better(c, b)) /\ ~Keeps(b)}

Switch(candidates, b) ==
  LET was == {c \in Allowed(candidates) :
                c.path = current /\ is_relay(c.path) = is_relay(b.path)}
      margin == CHOOSE m \in {biased(c) - biased(b) : c \in was} : TRUE
      back == was # {} /\ left # None /\ left.path = b.path
  IN  /\ current' = b.path
      /\ left' = IF was = {} THEN None ELSE [path |-> current, margin |-> margin]
      /\ swing' = IF back THEN left.margin + margin ELSE None

\* iroh asks for a selection; a path whose statistics cannot be read is skipped.
Select(open) ==
  /\ \E paths \in SUBSET open : \E rtt \in [paths -> RTTs] :
       LET candidates == {[path |-> p, rtt |-> rtt[p]] : p \in paths}
       IN  /\ seen' = {c.path : c \in Allowed(candidates)}
           /\ \/ \E b \in choose(candidates) : Switch(candidates, b)
              \/ choose(candidates) = {} /\ UNCHANGED <<current, left, swing>>

\* The selected path is gone, and with it the selection.
PathLost ==
  /\ current # None
  /\ current' = None /\ left' = None /\ swing' = None /\ seen' = {}

PathNext == (\E open \in SUBSET Paths : Select(open)) \/ PathLost

PathSpec == PathInit /\ [][PathNext]_pathVars

-----------------------------------------------------------------------------
(* Properties. *)

\* "so jitter does not flap the path": between leaving a path and returning to
\* it the difference of their round-trip times moved by twice the threshold.
NoFlapping == swing # None => swing >= 2 * RTT_SWITCHING_MIN

\* "leaving an excluded current path for any allowed one (the relay included)":
\* the tunnel stays on an excluded path only while no allowed one is on offer,
\* and on the relay only while no allowed direct path is.  It does not flap.
PathPolicy ==
  /\ current # None /\ is_excluded(current) => seen = {}
  /\ current # None /\ is_relay(current) => \A p \in seen : is_relay(p)
  /\ NoFlapping
=============================================================================
