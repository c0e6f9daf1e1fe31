-------------------------- MODULE ClientReconnect ---------------------------
(***************************************************************************)
(* The desktop client's life: run_with_reconnect around connect             *)
(* (tunnel/client.rs), with the network parameters of the first handshake   *)
(* as baseline, the backoff between attempts, and the status other threads  *)
(* read through ClientStatusHandle (control.rs).                            *)
(*                                                                          *)
(* The environment is the server the client would meet now (offer): one of  *)
(* this build, with the parameters it assigns (None in the fields of a      *)
(* family it does not serve), or one of the other builds, each a record of  *)
(* the version it speaks and the message it answers.  Integers saturate at  *)
(* U32MAX and U64MAX as the code's do at their widths.                      *)
(***************************************************************************)
EXTENDS Signaling

CONSTANTS
  Params,          \* parameter sets a server may assign
  OtherBuilds,     \* servers of another build
  Down, Full, Exhausted, Other,   \* a server that is not there, is full, has no
                                  \* free address, is of some other build
  auto_reconnect,  \* run_with_reconnect, or a single connect
  Caps,            \* values max_attempts may be configured to
  BACKOFF_BASE, BACKOFF_MAX, BACKOFF_JITTER,
  U32MAX, U64MAX

ASSUME BackoffAssumption ==
  /\ {BACKOFF_BASE, BACKOFF_MAX, BACKOFF_JITTER, U32MAX, U64MAX} \subseteq Nat \ {0}
  /\ BACKOFF_BASE <= BACKOFF_MAX /\ BACKOFF_MAX <= U64MAX
  /\ Caps \subseteq 0..(U32MAX - 1)
  /\ {None, Down, Full, Exhausted, Other} \cap Params = {}
  /\ Params \cap OtherBuilds = {}

VARIABLES
  max_attempts, \* configuration: a NonZeroU32, 0 stands for no limit
  offer,        \* the server
  pc,           \* where the client is
  failures,     \* consecutive failures of the outage
  err,          \* what the last attempt failed with
  delay,        \* the backoff being slept
  established,  \* established_params: the baseline, or None
  info,         \* what the current attempt was assigned
  tun,          \* what the TUN device and the routes are built for, or None
  status,       \* ClientStateInner
  retried,      \* history: retries made in this outage
  first         \* history: the first parameters accepted

vars == <<max_attempts, offer, pc, failures, err, delay, established, info, tun,
          status, retried, first>>

Recoverable == {"ConnectionLost", "Network", "Signaling"}
Fatal == {"AuthenticationFailed", "ServerConfigChanged", "TunDevice",
          "RouteOverlapsLocalNetwork"}

ASSUME ErrorAssumption == None # "MaxReconnectAttemptsExceeded"

NoReconnect == [failed_attempts |-> 0, last_error |-> None]

Offers == {Down, Full, Exhausted, Other} \cup Params

\* The servers an offer stands for.
Servers == IF offer = Other THEN OtherBuilds ELSE {offer}

Init ==
  /\ max_attempts \in Caps
  /\ offer \in Offers
  /\ pc = "connect" /\ failures = 0 /\ err = None /\ delay = 0
  /\ established = None /\ info = None /\ tun = None
  /\ status = [connected |-> FALSE, info |-> None, reconnect |-> NoReconnect]
  /\ retried = 0 /\ first = None

-----------------------------------------------------------------------------
(* Backoff. *)

Least(a, b) == IF a < b THEN a ELSE b

\* A slip: the arithmetic wraps instead of saturating.
BackoffWraps(attempt, jitter) ==
  Least((BACKOFF_BASE * 2 ^ (attempt - 1) + jitter) % (U64MAX + 1), BACKOFF_MAX)

calculate_backoff(attempt, jitter) ==
  LET multiplier == Least(2 ^ (attempt - 1), U64MAX)
      base_delay == Least(BACKOFF_BASE * multiplier, U64MAX)
  IN  Least(Least(base_delay + jitter, U64MAX), BACKOFF_MAX)

-----------------------------------------------------------------------------
(* connect. *)

\* connect returns the error and drops what it holds.
Fail(e) ==
  /\ err' = e /\ pc' = "failed" /\ tun' = None /\ info' = None

connect_with_timeout ==
  /\ pc = "connect"
  /\ \/ offer # Down /\ pc' = "handshake" /\ UNCHANGED <<err, tun, info>>
     \/ offer = Down /\ Fail("Signaling")
  /\ UNCHANGED <<max_attempts, offer, failures, delay, established, status,
                 retried, first>>

\* A server closes without an answer when it has no free address or cannot
\* decode the request.
Answers(server) ==
  /\ server \notin {Down, Exhausted}
  /\ server \in OtherBuilds => RequestDecodes(VpnHandshake, server.version)

\* What a server answers; this build's chooses the response by what it assigned.
Answer(server) ==
  IF server \in OtherBuilds THEN server.message
  ELSE write_message(Encode(
         IF server = Full THEN rejected
         ELSE Accepted(server, (IF server.assigned_ip # None THEN Fields4 ELSE {})
                               \cup (IF server.assigned_ip6 # None THEN Fields6 ELSE {}))))

\* A slip: what decode has checked is taken for all there is to check.
UsableIfValid(r) == is_valid(r)

\* The three fields of a family come together or not at all, and one family does.
Usable(r) ==
  /\ \A fields \in {Fields4, Fields6} : Family(r, fields) \/ NoFamily(r, fields)
  /\ r.assigned_ip # None \/ r.assigned_ip6 # None

\* The client's reading of an answer: refused as garbled, as a rejection, or
\* taken.  A rejection, of a full server too, is an authentication failure.
AllServers == {Down, Full, Exhausted} \cup Params \cup OtherBuilds
Silent == {s \in AllServers : ~Answers(s)}
Response(s) == Parsed(Answer(s).object)
Understood ==
  {s \in AllServers \ Silent : Readable(Answer(s)) /\ Decodes(Answer(s).object)}
Rejecting == {s \in Understood : ~Response(s).accepted}
Accepting == {s \in Understood \ Rejecting : Usable(Response(s))}
Garbled == AllServers \ (Silent \cup Rejecting \cup Accepting)
ServerInfo == [s \in Accepting |-> [f \in Fields4 \cup Fields6 |-> Response(s)[f]]]

\* Some(info) is never None.
ASSUME InfoAssumption == \A s \in Accepting : ServerInfo[s] # None

perform_handshake ==
  /\ pc = "handshake"
  /\ \E server \in Servers :
       \/ server \in Silent /\ \E e \in {"Network", "Signaling"} : Fail(e)
       \/ server \in Garbled /\ Fail("Signaling")
       \/ server \in Rejecting /\ Fail("AuthenticationFailed")
       \/ /\ server \in Accepting
          /\ info' = ServerInfo[server] /\ pc' = "check"
          /\ UNCHANGED <<err, tun>>
  /\ UNCHANGED <<max_attempts, offer, failures, delay, established, status,
                 retried, first>>

non_ip_fields_eq(a, b) ==
  \A f \in (Fields4 \cup Fields6) \ {"assigned_ip", "assigned_ip6"} : a[f] = b[f]

\* A slip: a reassigned address is accepted but the old baseline stays.
CheckKeepsBaseline ==
  /\ pc = "check"
  /\ \/ /\ established # None => non_ip_fields_eq(established, info)
        /\ established' = IF established = None THEN info ELSE established
        /\ first' = IF first = None THEN info ELSE first
        /\ pc' = "setup" /\ UNCHANGED <<err, tun, info>>
     \/ /\ established # None /\ ~non_ip_fields_eq(established, info)
        /\ Fail("ServerConfigChanged") /\ UNCHANGED <<established, first>>
  /\ UNCHANGED <<max_attempts, offer, failures, delay, status, retried>>

\* The first handshake sets the baseline; later only the addresses may differ,
\* and the baseline follows them.
check_params_against ==
  /\ pc = "check"
  /\ \/ /\ established # None => non_ip_fields_eq(established, info)
        /\ established' = info
        /\ first' = IF first = None THEN info ELSE first
        /\ pc' = "setup" /\ UNCHANGED <<err, tun, info>>
     \/ /\ established # None /\ ~non_ip_fields_eq(established, info)
        /\ Fail("ServerConfigChanged") /\ UNCHANGED <<established, first>>
  /\ UNCHANGED <<max_attempts, offer, failures, delay, status, retried>>

\* A slip: the progress of the outage stays on show.
ConnectedKeepsProgress(i) ==
  status' = [status EXCEPT !.connected = TRUE, !.info = i]

set_connected(i) ==
  status' = [connected |-> TRUE, info |-> i, reconnect |-> NoReconnect]

\* One complete family or two; perform_handshake lets nothing else through, so
\* the arm that refuses the rest is never reached.
create_tun_device ==
  /\ Family(info, Fields4) \/ NoFamily(info, Fields4)
  /\ Family(info, Fields6) \/ NoFamily(info, Fields6)
  /\ tun' = info

\* An overlap with the local network, or no device: fatal, with nothing built.
BuildDevice ==
  /\ pc = "setup"
  /\ \/ \E e \in {"RouteOverlapsLocalNetwork", "TunDevice"} : Fail(e)
     \/ create_tun_device /\ pc' = "routes" /\ UNCHANGED <<err, info>>
  /\ UNCHANGED <<max_attempts, offer, failures, delay, established, status,
                 retried, first>>

\* The bypass routes and the routes through the tunnel; one that cannot be made
\* is fatal and takes the device along.  Otherwise the tunnel is up, and the
\* outage is over.
InstallRoutes ==
  /\ pc = "routes"
  /\ \/ Fail("TunDevice") /\ UNCHANGED <<status, retried>>
     \/ /\ set_connected(info) /\ pc' = "tunnel" /\ retried' = 0
        /\ UNCHANGED <<err, tun, info>>
  /\ UNCHANGED <<max_attempts, offer, failures, delay, established, first>>

\* run_tunnel returns: the tunnel was lost, or its device could not be split.
\* Its tasks and the device are gone.
RunTunnelEnds ==
  /\ pc = "tunnel"
  /\ \E e \in {"ConnectionLost", "TunDevice"} : err' = e
  /\ tun' = None /\ pc' = "ended"
  /\ UNCHANGED <<max_attempts, offer, failures, delay, established, info,
                 status, retried, first>>

set_disconnected == status' = [status EXCEPT !.connected = FALSE, !.info = None]

\* The rest of connect: the overlap watcher's refusal, if it left one, takes
\* the place of the error.
ConnectReturns ==
  /\ pc = "ended"
  /\ set_disconnected
  /\ \E e \in {err, "RouteOverlapsLocalNetwork"} : Fail(e)
  /\ UNCHANGED <<max_attempts, offer, failures, delay, established, retried,
                 first>>

-----------------------------------------------------------------------------
(* run_with_reconnect. *)

set_reconnecting(n, e) ==
  status' = [status EXCEPT !.reconnect = [failed_attempts |-> n, last_error |-> e]]

\* A slip: the failures of the outage before a tunnel still count.
FailuresNeverReset == Least(failures + 1, U32MAX)

\* A lost tunnel opens a new outage.
Failures ==
  LET counted == IF err = "ConnectionLost" THEN 0 ELSE failures
  IN  Least(counted + 1, U32MAX)

Exceeds(n) == max_attempts # 0 /\ n > max_attempts

\* A slip: only a tunnel that was up is brought back.
RetriesLostOnly == auto_reconnect /\ err = "ConnectionLost"

Retries == auto_reconnect /\ err \in Recoverable

\* The match on connect's result.
HandleError ==
  /\ pc = "failed"
  /\ \/ /\ Retries /\ ~Exceeds(Failures)
        /\ failures' = Failures
        /\ \E jitter \in 0..(BACKOFF_JITTER - 1) :
             delay' = calculate_backoff(Failures, jitter)
        /\ set_reconnecting(Failures, err)
        /\ pc' = "backoff" /\ UNCHANGED err
     \/ /\ Retries /\ Exceeds(Failures)
        /\ failures' = Failures
        /\ err' = "MaxReconnectAttemptsExceeded" /\ pc' = "exited"
        /\ UNCHANGED <<delay, status>>
     \/ /\ ~Retries
        /\ pc' = "exited" /\ UNCHANGED <<failures, delay, status, err>>
  /\ UNCHANGED <<max_attempts, offer, established, info, tun, retried, first>>

\* The sleep is over: the next attempt.
WakeUp ==
  /\ pc = "backoff"
  /\ pc' = "connect" /\ err' = None /\ delay' = 0
  /\ retried' = Least(retried + 1, U32MAX)
  /\ UNCHANGED <<max_attempts, offer, failures, established, info, tun, status,
                 first>>

\* A shutdown signal drops the client's future wherever it waits.
Shutdown ==
  /\ pc \notin {"exited", "ended", "failed"}
  /\ pc' = "exited" /\ err' = "shutdown" /\ tun' = None /\ info' = None
  /\ UNCHANGED <<max_attempts, offer, failures, delay, established, status,
                 retried, first>>

ServerChanges ==
  /\ pc # "exited"
  /\ offer' \in Offers \ {offer}
  /\ UNCHANGED <<max_attempts, pc, failures, err, delay, established, info, tun,
                 status, retried, first>>

Client ==
  \/ connect_with_timeout \/ perform_handshake \/ check_params_against
  \/ BuildDevice \/ InstallRoutes
  \/ RunTunnelEnds \/ ConnectReturns \/ HandleError \/ WakeUp

Done == pc = "exited" /\ UNCHANGED vars

Next == Client \/ Shutdown \/ ServerChanges \/ Done

\* The runtime polls a ready future and timers fire; a tunnel need never end.
Fairness == WF_vars(Client /\ pc # "tunnel")

Spec == Init /\ [][Next]_vars /\ Fairness

-----------------------------------------------------------------------------
(* Properties. *)

\* run_with_reconnect's promise on max_attempts: every outage is granted that
\* many retries, no more, and the client gives up only after the last of them,
\* however many outages came before ("the cap is per outage").
CapIsPerOutage ==
  max_attempts # 0 =>
    /\ retried <= max_attempts
    /\ err = "MaxReconnectAttemptsExceeded" => retried = max_attempts

\* The sleep before retry n is base * 2^(n-1) plus jitter, cut off at the
\* maximum, however long the outage: it never collapses at the integers' width.
BackoffSchedule ==
  pc = "backoff" =>
    LET exact == BACKOFF_BASE * 2 ^ (failures - 1)
    IN  /\ delay >= Least(exact, BACKOFF_MAX)
        /\ delay <= Least(exact + BACKOFF_JITTER - 1, BACKOFF_MAX)

\* A TUN device is only ever built for the parameters of the session it serves,
\* the baseline holds the addresses in use, and all sessions of one process
\* share the networks and gateways of its first handshake.  The baseline never
\* holds half a family, whatever another build answered: a later good answer
\* would differ from it and end the process.
TunIdentity ==
  /\ tun # None => /\ tun = info /\ tun = established
                   /\ non_ip_fields_eq(tun, first)
  /\ established # None =>
       /\ (established.assigned_ip = None) = (established.network = None)
       /\ (established.assigned_ip6 = None) = (established.network6 = None)
       /\ (established.network = None) = (established.server_ip = None)
       /\ (established.network6 = None) = (established.server_ip6 = None)

\* What other threads read: connected exactly while the session is, with its
\* parameters and no trace of an outage ("All fields are at their defaults while
\* connected"); while waiting, the failures and the error being waited out.
StatusHonest ==
  pc # "exited" =>
    /\ status.connected <=> pc \in {"tunnel", "ended"}
    /\ status.connected => status.info = info /\ status.reconnect = NoReconnect
    /\ pc = "backoff" => status.reconnect =
                           [failed_attempts |-> failures, last_error |-> err]

\* A server that is back for good brings the client back, whatever outage came
\* before, unless the client ended for a reason a retry cannot mend ("the client
\* waits it out and connects when the server appears").
ComesBack ==
  \A p \in Params :
    <>[](offer = p) => \/ []<>(pc = "tunnel")
                       \/ <>(pc = "exited" /\ err \notin Recoverable)
=============================================================================
