---------------------------- MODULE MobileSession ----------------------------
(***************************************************************************)
(* The handle an Apple network extension drives (ffi.rs: connect_inner,     *)
(* EzvpnHandle::run and stop) and the session that runs behind it           *)
(* (tunnel/mobile.rs: MobileSession::run, establish), which reconnects in   *)
(* place on the one file descriptor the extension configured.               *)
(*                                                                          *)
(* Three threads meet: the app's, which calls run and stop; the runtime's,  *)
(* which runs the session and calls the app back under the lock of the      *)
(* `stopped` flag; and the short-lived one that closes the endpoint.        *)
(*                                                                          *)
(* A connection is its number.  A parameter set is all of                   *)
(* MobileNetworkConfig, the excluded routes included.  The callback is      *)
(* given; a failed run leaves the handle as it was and is left out.         *)
(***************************************************************************)
EXTENDS Naturals

CONSTANTS
  Config,       \* parameter sets a server may assign
  Null,
  Gone, Denied, \* a server that is not there, or rejects the client
  MaxConns      \* bound: connections of one behaviour

VARIABLES
  reply,    \* what the server would answer now
  app,      \* the app's thread: "new", "connected", "running", "stopping",
            \*   "stopped" (the flag is set), "returned"
  stopped,  \* the flag the callbacks check
  locked,   \* its mutex is held by a callback
  task,     \* the session's task
  event,    \* what it reports next
  heard,    \* the last event the app was told
  applied,  \* the parameters the interface was configured with
  link,     \* the session: its connection and parameters
  cell,     \* current_connection, or Null
  open,     \* connections the server still serves
  conns,    \* connections made so far
  teardown  \* the endpoint: "none", "closing", "closed", "dropped"

sessionVars == <<reply, app, stopped, locked, task, event, heard, applied, link, cell,
          open, conns, teardown>>

Final == {"ENDED", "RECONFIGURE"}

NoLink == [conn |-> Null, params |-> Null]

SessionInit ==
  /\ reply \in {Gone, Denied} \cup Config
  /\ app = "new" /\ stopped = FALSE /\ locked = FALSE
  /\ task = "none" /\ event = Null /\ heard = Null
  /\ applied = Null /\ link = NoLink /\ cell = Null /\ open = {} /\ conns = 0
  /\ teardown = "none"

-----------------------------------------------------------------------------
(* The app's thread. *)

\* The handshake's parameters are what the app configures its interface with.
connect_inner ==
  /\ app = "new" /\ reply \in Config
  /\ app' = "connected"
  /\ conns' = 1 /\ open' = {1} /\ cell' = 1
  /\ link' = [conn |-> 1, params |-> reply] /\ applied' = reply
  /\ UNCHANGED <<reply, stopped, locked, task, event, heard, teardown>>

\* The session moves into a task of the runtime.
run ==
  /\ app = "connected"
  /\ app' = "running" /\ task' = "device"
  /\ UNCHANGED <<reply, stopped, locked, event, heard, applied, link, cell, open,
                 conns, teardown>>

stop ==
  /\ app \in {"connected", "running"}
  /\ app' = "stopping"
  /\ UNCHANGED <<reply, stopped, locked, task, event, heard, applied, link, cell,
                 open, conns, teardown>>

\* A slip: stop waits for the task before it has told it to end.
SilenceAfterTask ==
  /\ app = "stopping" /\ ~locked /\ task \in {"none", "ended"}
  /\ stopped' = TRUE /\ app' = "stopped"
  /\ UNCHANGED <<reply, locked, task, event, heard, applied, link, cell, open,
                 conns, teardown>>

\* stop sets the flag as soon as no callback holds its lock.
Silence ==
  /\ app = "stopping" /\ ~locked
  /\ stopped' = TRUE /\ app' = "stopped"
  /\ UNCHANGED <<reply, locked, task, event, heard, applied, link, cell, open,
                 conns, teardown>>

\* It aborts the task, drops its references, spawns the closing thread (or,
\* without one, drops the runtime) and returns.
StopDone ==
  /\ app = "stopped"
  /\ app' = "returned"
  /\ cell' = IF task \in {"none", "ended"} THEN Null ELSE cell
  /\ teardown' \in {"closing", "dropped"}
  /\ UNCHANGED <<reply, stopped, locked, task, event, heard, applied, link, open,
                 conns>>

\* endpoint.close() within STOP_CLOSE_TIMEOUT; acknowledged or not, the runtime
\* is shut down then.
CloseEndpoint ==
  /\ teardown = "closing"
  /\ \/ teardown' = "closed" /\ open' = {}
     \/ teardown' = "dropped" /\ UNCHANGED open
  /\ UNCHANGED <<reply, app, stopped, locked, task, event, heard, applied, link,
                 cell, conns>>

-----------------------------------------------------------------------------
(* The session's task: MobileSession::run inside the task of EzvpnHandle::run. *)

\* The task goes on to report an event; a final one is the exit hook's.
Report(e) == event' = e /\ task' = "report"

\* A fresh dup of the descriptor for run_tunnel, or the end.
OpenDevice ==
  /\ task = "device"
  /\ \/ task' = "tunnel" /\ UNCHANGED event
     \/ Report("ENDED")
  /\ UNCHANGED <<reply, app, stopped, locked, heard, applied, link, cell, open,
                 conns, teardown>>

\* run_tunnel returns: the session is lost, or its device could not be split.
TunnelEnds ==
  /\ task = "tunnel"
  /\ \E e \in {"RECONNECTING", "ENDED"} : Report(e)
  /\ link' = NoLink
  /\ UNCHANGED <<reply, app, stopped, locked, heard, applied, cell, open, conns,
                 teardown>>

\* The backoff is over; calculate_backoff is ClientReconnect's.
BackoffEnds ==
  /\ task = "backoff"
  /\ task' = "establish"
  /\ UNCHANGED <<reply, app, stopped, locked, event, heard, applied, link, cell,
                 open, conns, teardown>>

\* establish: a link, a failure that is retried, or one that is not.
establish ==
  /\ task = "establish"
  /\ \/ /\ reply \in Config /\ teardown \in {"none", "closing"} /\ conns < MaxConns
        /\ conns' = conns + 1 /\ open' = open \cup {conns + 1}
        /\ link' = [conn |-> conns + 1, params |-> reply]
        /\ task' = "compare" /\ UNCHANGED event
     \/ /\ reply = Denied
        /\ Report("ENDED") /\ UNCHANGED <<conns, open, link>>
     \/ Report("RECONNECTING") /\ UNCHANGED <<conns, open, link>>
  /\ UNCHANGED <<reply, app, stopped, locked, heard, applied, cell, teardown>>

\* A slip: as on the desktop, a reassigned address is accepted.
CompareNetworks ==
  /\ task = "compare"
  /\ \/ /\ link.params.net # applied.net
        /\ open' = open \ {link.conn} /\ link' = NoLink
        /\ Report("RECONFIGURE") /\ UNCHANGED cell
     \/ /\ link.params.net = applied.net
        /\ open' = open \ {cell} /\ cell' = link.conn
        /\ Report("RECONNECTED") /\ UNCHANGED link
  /\ UNCHANGED <<reply, app, stopped, locked, heard, applied, conns, teardown>>

\* Parameters other than those applied: the new connection is closed and the
\* session ends.  Otherwise the cell takes the new connection, which drops the
\* last reference to the old one.
Compare ==
  /\ task = "compare"
  /\ \/ /\ link.params # applied
        /\ open' = open \ {link.conn} /\ link' = NoLink
        /\ Report("RECONFIGURE") /\ UNCHANGED cell
     \/ /\ link.params = applied
        /\ open' = open \ {cell} /\ cell' = link.conn
        /\ Report("RECONNECTED") /\ UNCHANGED link
  /\ UNCHANGED <<reply, app, stopped, locked, heard, applied, conns, teardown>>

\* Where the loop goes on after an event.
After(e) ==
  CASE e = "RECONNECTING" -> "backoff"
    [] e = "RECONNECTED" -> "device"
    [] e \in Final -> "ended"

\* A slip: the flag is read, but the lock is not kept for the callback.
CallUnlocked ==
  /\ task = "report" /\ ~stopped /\ ~locked
  /\ heard' = event /\ task' = "callback"
  /\ UNCHANGED <<reply, app, stopped, locked, event, applied, link, cell, open,
                 conns, teardown>>

\* The wrapper around events and hook: under the lock, unless stopped.
Call ==
  /\ task = "report" /\ ~stopped /\ ~locked
  /\ locked' = TRUE /\ heard' = event /\ task' = "callback"
  /\ UNCHANGED <<reply, app, stopped, event, applied, link, cell, open, conns,
                 teardown>>

CallSilenced ==
  /\ task = "report" /\ stopped
  /\ task' = After(event)
  /\ UNCHANGED <<reply, app, stopped, locked, event, heard, applied, link, cell,
                 open, conns, teardown>>

\* The app's callback returns.
CallReturns ==
  /\ task = "callback"
  /\ locked' = FALSE /\ task' = After(event)
  /\ UNCHANGED <<reply, app, stopped, event, heard, applied, link, cell, open,
                 conns, teardown>>

\* The abort lands where the task awaits.
Aborted ==
  /\ app = "returned" /\ task \in {"tunnel", "backoff", "establish"}
  /\ task' = "ended"
  /\ UNCHANGED <<reply, app, stopped, locked, event, heard, applied, link, cell,
                 open, conns, teardown>>

Task ==
  \/ OpenDevice \/ TunnelEnds \/ BackoffEnds \/ establish \/ Compare \/ Call
  \/ CallSilenced \/ CallReturns \/ Aborted

-----------------------------------------------------------------------------
(* The server, external. *)

ReplyChanges ==
  /\ app # "returned"
  /\ reply' \in ({Gone, Denied} \cup Config) \ {reply}
  /\ UNCHANGED <<app, stopped, locked, task, event, heard, applied, link, cell,
                 open, conns, teardown>>

\* The server ends a session, or notices that the client is gone.
ServerCloses ==
  /\ \E c \in open : open' = open \ {c}
  /\ UNCHANGED <<reply, app, stopped, locked, task, event, heard, applied, link,
                 cell, conns, teardown>>

SessionDone ==
  /\ app = "returned" /\ task \in {"none", "ended"} /\ open = {}
  /\ UNCHANGED sessionVars

SessionNext ==
  \/ connect_inner \/ run \/ stop \/ Silence \/ StopDone \/ CloseEndpoint
  \/ Task \/ ReplyChanges \/ ServerCloses \/ SessionDone

\* Threads run, callbacks return, timers fire; a tunnel need not end.  stop gets
\* the lock although callbacks come again and again: at least a second's backoff
\* lies between two of them.  A server whose client was dropped without a close
\* notices in the end.
SessionFairness ==
  /\ SF_sessionVars(Silence) /\ WF_sessionVars(StopDone) /\ WF_sessionVars(CloseEndpoint)
  /\ WF_sessionVars(Task /\ task # "tunnel") /\ WF_sessionVars(Aborted)
  /\ WF_sessionVars(teardown = "dropped" /\ ServerCloses)

SessionSpec == SessionInit /\ [][SessionNext]_sessionVars /\ SessionFairness

-----------------------------------------------------------------------------
(* Properties. *)

\* "No event is delivered once ezvpn_stop has returned: it waits for a callback
\* already in progress": the app may free its context then.
SilentAfterStop == app \in {"stopped", "returned"} => task # "callback"

\* Until it stops the handle, the app's picture of the session is right: traffic
\* flows under exactly the parameters the interface was configured with, the
\* connection conn_path shows is the one that carries it, the last event says
\* whether the session is up or being reconnected, and a task that has ended
\* has said so.
AppViewHonest ==
  ~stopped =>
    /\ task = "tunnel" => /\ link = [conn |-> cell, params |-> applied]
                          /\ heard \in {Null, "RECONNECTED"}
    /\ task \in {"backoff", "establish", "compare"} => heard = "RECONNECTING"
    /\ task = "ended" => heard \in Final

\* stop always returns, and no connection is left on the server for good, also
\* when a reconnect was under way: its address leases come back.
StopReleases == app = "stopping" ~> (app = "returned" /\ open = {})
=============================================================================
