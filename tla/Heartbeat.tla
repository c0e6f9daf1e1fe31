----------------------------- MODULE Heartbeat ------------------------------
(***************************************************************************)
(* The application heartbeat on the control stream: run_heartbeat and the   *)
(* control task of run_tunnel (tunnel/client.rs), run_heartbeat_responder,  *)
(* the control writer and the address publisher (tunnel/server.rs).         *)
(*                                                                          *)
(* Time is discrete and Tick passes one unit.  A timer counts down and what *)
(* is due happens before time passes.  The stream is reliable and ordered;  *)
(* a frame takes at most MaxDelay units from being queued to arriving,      *)
(* until the path is cut, after which nothing arrives.  The server's side   *)
(* runs from its handshake response on, the client's from the end of its    *)
(* setup: devices, names and routes come in between.                        *)
(***************************************************************************)
EXTENDS Naturals, Sequences

CONSTANTS
  HEARTBEAT_INTERVAL, HEARTBEAT_TIMEOUT, SERVER_ADDR_PUBLISH_INTERVAL,
  MaxDelay,
  CONTROL_CHANNEL_SIZE,  \* frames the server's control queue holds
  PONG_CHANNEL,          \* pongs the client's channel holds
  STREAM_WINDOW,         \* pings the stream takes before the server reads one
  MaxChanges             \* bound: address changes published out of turn

\* Times are whole units; a channel and the queue hold at least one frame.
ASSUME UnitsAssumption ==
  /\ {HEARTBEAT_TIMEOUT, SERVER_ADDR_PUBLISH_INTERVAL, MaxDelay, MaxChanges} \subseteq Nat
  /\ {HEARTBEAT_INTERVAL, CONTROL_CHANNEL_SIZE, PONG_CHANNEL, STREAM_WINDOW}
       \subseteq Nat \ {0}

\* What "a single late reply never trips it" needs of the constants.
ASSUME TimeoutAssumption ==
  HEARTBEAT_TIMEOUT > 2 * HEARTBEAT_INTERVAL + 2 * MaxDelay

\* What the ping written inside the select! arm needs of flow control: the window
\* holds all pings from one re-arming of the deadline to the next.
ASSUME WindowAssumption ==
  STREAM_WINDOW * HEARTBEAT_INTERVAL >
    HEARTBEAT_TIMEOUT + 2 * MaxDelay + HEARTBEAT_INTERVAL

VARIABLES
  client,      \* "setup", "up", or why the tunnel ended
  server,      \* the session: "up", "hung" (silently gone), or why it closed
  cut,         \* the path delivers nothing any more
  ticker, c_deadline, s_deadline, publish,   \* timers
  pings, pongs,  \* frames under way, by age; pongs carries all server frames
  unread,      \* pings written that the server's session has not read
  control,     \* the server's control queue, by age
  pong_rx,     \* pongs waiting in the client's channel
  changes,     \* address changes so far
  setup,       \* history: units from the response to the client's first ping
  c_silent, s_silent  \* units since the other side last could be heard, for the
                      \* client's heartbeat and for the session

heartbeatVars == <<client, server, cut, ticker, c_deadline, s_deadline, publish,
                   pings, pongs, unread, control, pong_rx, changes,
                   setup, c_silent, s_silent>>

frames == <<pings, pongs, unread, control, pong_rx>>
timers == <<ticker, c_deadline, s_deadline, publish>>
silences == <<setup, c_silent, s_silent>>
sides == <<client, server, cut, changes, silences>>

\* A frame of the server is a pong or an address publication.
Pong(age) == [kind |-> "pong", age |-> age]
Addrs(age) == [kind |-> "addrs", age |-> age]

\* The client is there, though it may not have a heartbeat yet.
Present == client \in {"setup", "up"}

\* The response is written: the responder arms its deadline, the publisher starts.
HeartbeatInit ==
  /\ client = "setup" /\ server = "up" /\ cut = FALSE
  /\ publish = 0 /\ s_deadline = HEARTBEAT_TIMEOUT
  /\ ticker = 0 /\ c_deadline = 0
  /\ pings = <<>> /\ pongs = <<>> /\ control = <<>> /\ pong_rx = 0 /\ unread = 0
  /\ changes = 0 /\ setup = 0 /\ c_silent = 0 /\ s_silent = 0

-----------------------------------------------------------------------------
(* The client. *)

\* Setup is done, however long it took, and run_tunnel spawns the heartbeat.
StartHeartbeat ==
  /\ client = "setup"
  /\ client' = "up"
  /\ ticker' = 0 /\ c_deadline' = HEARTBEAT_TIMEOUT
  /\ UNCHANGED <<server, cut, changes, silences, s_deadline, publish, frames>>

\* The heartbeat waits in the ping's write: the window is full, and until the server
\* reads, neither the pongs nor the deadline of the same select! are polled.
Blocked == ticker = 0 /\ unread = STREAM_WINDOW

\* A slip: sending a ping counts as a sign of life.
SendPingResets ==
  /\ client = "up" /\ ticker = 0 /\ ~Blocked
  /\ ticker' = HEARTBEAT_INTERVAL /\ c_deadline' = HEARTBEAT_TIMEOUT
  /\ pings' = Append(pings, 0) /\ unread' = unread + 1
  /\ UNCHANGED <<sides, s_deadline, publish, pongs, control, pong_rx>>

\* The ticker is due (its first tick at once): one ping.
SendPing ==
  /\ client = "up" /\ ticker = 0 /\ ~Blocked
  /\ ticker' = HEARTBEAT_INTERVAL
  /\ pings' = Append(pings, 0) /\ unread' = unread + 1
  /\ UNCHANGED <<sides, c_deadline, s_deadline, publish, pongs, control, pong_rx>>

\* The control task reads a frame; a pong goes to the heartbeat unless its
\* channel is full, an address publication to the bypass-route manager.
ReadFrame ==
  /\ client = "up" /\ ~cut /\ pongs # <<>>
  /\ pongs' = Tail(pongs)
  /\ pong_rx' = IF Head(pongs).kind = "pong" /\ pong_rx < PONG_CHANNEL
                THEN pong_rx + 1 ELSE pong_rx
  /\ UNCHANGED <<sides, timers, pings, unread, control>>

\* A slip: the deadline is pushed one interval, not re-armed.
TakePongShort ==
  /\ client = "up" /\ pong_rx > 0 /\ ~Blocked
  /\ pong_rx' = pong_rx - 1
  /\ c_deadline' = HEARTBEAT_INTERVAL
  /\ UNCHANGED <<sides, ticker, s_deadline, publish, pings, pongs, unread, control>>

\* Any pong re-arms the deadline.
TakePong ==
  /\ client = "up" /\ pong_rx > 0 /\ ~Blocked
  /\ pong_rx' = pong_rx - 1
  /\ c_deadline' = HEARTBEAT_TIMEOUT
  /\ UNCHANGED <<sides, ticker, s_deadline, publish, pings, pongs, unread, control>>

\* select! may prefer the deadline to a pong that waits.
ClientTimesOut ==
  /\ client = "up" /\ c_deadline = 0 /\ ~Blocked
  /\ client' = "timed_out"
  /\ UNCHANGED <<server, cut, changes, silences, timers, frames>>

\* Connection::closed() resolves, or the control stream ends.
ClientSeesClose ==
  /\ client = "up" /\ server \notin {"up", "hung"} /\ ~cut
  /\ client' = "closed"
  /\ UNCHANGED <<server, cut, changes, silences, timers, frames>>

\* Setup fails, or another task of the tunnel ends and takes the rest with it.
ClientEnds ==
  /\ Present
  /\ client' = "ended"
  /\ UNCHANGED <<server, cut, changes, silences, timers, frames>>

-----------------------------------------------------------------------------
(* The server's session. *)

\* A ping re-arms the deadline; a full queue drops the pong.
GetPing ==
  /\ server = "up" /\ ~cut /\ pings # <<>>
  /\ pings' = Tail(pings) /\ unread' = unread - 1
  /\ s_deadline' = HEARTBEAT_TIMEOUT
  /\ control' = IF Len(control) < CONTROL_CHANNEL_SIZE
                THEN Append(control, Pong(0)) ELSE control
  /\ UNCHANGED <<sides, ticker, c_deadline, publish, pongs, pong_rx>>

\* A full queue skips this publication.
publish_server_addrs ==
  control' = IF Len(control) < CONTROL_CHANNEL_SIZE
             THEN Append(control, Addrs(0)) ELSE control

\* The publisher: on its interval, or when an address changed.
PublishAddrs ==
  /\ server = "up"
  /\ \/ publish = 0 /\ UNCHANGED changes
     \/ publish > 0 /\ changes < MaxChanges /\ changes' = changes + 1
  /\ publish' = IF publish = 0 THEN SERVER_ADDR_PUBLISH_INTERVAL ELSE publish
  /\ publish_server_addrs
  /\ UNCHANGED <<client, server, cut, silences, ticker, c_deadline, s_deadline,
                 pings, pongs, unread, pong_rx>>

\* The control writer drains its queue onto the stream.
WriteFrames ==
  /\ server = "up" /\ ~cut /\ control # <<>>
  /\ pongs' = pongs \o control
  /\ control' = <<>>
  /\ UNCHANGED <<sides, timers, pings, unread, pong_rx>>

\* timeout_at polls the stream first: a ping that must have arrived wins.
ServerTimesOut ==
  /\ server = "up" /\ s_deadline = 0
  /\ cut \/ (pings # <<>> => Head(pings) < MaxDelay)
  /\ server' = "timed_out"
  /\ UNCHANGED <<client, cut, changes, silences, timers, frames>>

\* The client ended and closed the connection.
ServerSeesClose ==
  /\ server = "up" /\ ~Present /\ ~cut
  /\ server' = "closed"
  /\ UNCHANGED <<client, cut, changes, silences, timers, frames>>

\* The inbound task or a writer ends, and the session with it.
ServerEnds ==
  /\ server = "up"
  /\ server' = "ended"
  /\ UNCHANGED <<client, cut, changes, silences, timers, frames>>

-----------------------------------------------------------------------------
(* Failures and time. *)

\* The session is gone while the transport still answers (a restarted server).
ServerHangs ==
  /\ server = "up" /\ Present /\ ~cut
  /\ server' = "hung"
  /\ UNCHANGED <<client, cut, changes, silences, timers, frames>>

\* Also after one side has closed: its close may not arrive.
PathCut ==
  /\ ~cut
  /\ Present \/ server = "up"
  /\ cut' = TRUE
  /\ UNCHANGED <<client, server, changes, silences, timers, frames>>

Older(s) == [i \in 1..Len(s) |-> s[i] + 1]
OlderFrames(s) == [i \in 1..Len(s) |-> [s[i] EXCEPT !.age = @ + 1]]

\* Nothing under way is late, nothing is due.
MayPass ==
  /\ client = "up" => Blocked \/ (ticker > 0 /\ c_deadline > 0 /\ pong_rx = 0)
  /\ server = "up" => s_deadline > 0 /\ publish > 0
  /\ cut \/ /\ server = "up" => \A i \in 1..Len(pings) : pings[i] < MaxDelay
            /\ server = "up" => \A i \in 1..Len(control) : control[i].age < MaxDelay
            /\ client = "up" => \A i \in 1..Len(pongs) : pongs[i].age < MaxDelay

Sooner(t) == IF t > 0 THEN t - 1 ELSE 0

Tick ==
  /\ client = "up" \/ server = "up"
  /\ MayPass
  /\ ticker' = Sooner(ticker) /\ publish' = Sooner(publish)
  /\ c_deadline' = Sooner(c_deadline) /\ s_deadline' = Sooner(s_deadline)
  \* Frames the other side can no longer read are forgotten; those to a client
  \* that is not yet reading wait for it.
  /\ pings' = IF server = "up" /\ ~cut THEN Older(pings) ELSE <<>>
  /\ pongs' = CASE client = "up" /\ ~cut -> OlderFrames(pongs)
                [] client = "setup" /\ ~cut -> pongs
                [] OTHER -> <<>>
  /\ control' = IF server = "up" /\ ~cut THEN OlderFrames(control) ELSE control
  /\ setup' = IF client = "setup" THEN setup + 1 ELSE setup
  /\ c_silent' = IF client = "up" /\ (server # "up" \/ cut) THEN c_silent + 1 ELSE 0
  /\ s_silent' = IF server = "up" /\ (~Present \/ cut) THEN s_silent + 1 ELSE 0
  /\ UNCHANGED <<client, server, cut, changes, unread, pong_rx>>

HeartbeatNext ==
  \/ StartHeartbeat \/ SendPing \/ ReadFrame \/ TakePong \/ ClientTimesOut \/ ClientSeesClose
  \/ ClientEnds \/ ServerEnds
  \/ GetPing \/ PublishAddrs \/ WriteFrames \/ ServerTimesOut \/ ServerSeesClose
  \/ ServerHangs \/ PathCut \/ Tick

HeartbeatSpec == HeartbeatInit /\ [][HeartbeatNext]_heartbeatVars

-----------------------------------------------------------------------------
(* Properties. *)

\* The response's way, the setup and the first ping's way take the whole of the
\* server's deadline.
SlowSetup == setup + MaxDelay >= HEARTBEAT_TIMEOUT

\* While both sides run and the path delivers, neither gives up, although pings
\* and pongs are late, publications share the queue, and a full queue drops a
\* pong ("a single late reply on a lossy path never trips it").  The exception is
\* a client whose setup takes as long as the deadline: the server hears nothing
\* of it before its first ping.
NoFalseAlarm ==
  /\ client = "timed_out" => cut \/ server # "up"
  /\ server = "timed_out" => cut \/ ~Present \/ SlowSetup

\* A client whose server session is gone or whose path is cut gives up within the
\* timeout of the last pong that could still arrive or of its heartbeat's start,
\* whatever the transport reports; and a session whose client is gone is closed
\* within the timeout of its last ping (or of its response), so its addresses and
\* its place among max_clients come back.
DeadPeerNoticed ==
  /\ client = "up" => c_silent <= HEARTBEAT_TIMEOUT + MaxDelay
  /\ server = "up" => s_silent <= HEARTBEAT_TIMEOUT + MaxDelay
=============================================================================
