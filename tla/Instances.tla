----------------------------- MODULE Instances ------------------------------
(***************************************************************************)
(* The processes that run one named client instance on one machine, and the *)
(* commands that look for it.  A client takes the instance's lock file      *)
(* (runtime.rs, VpnLock), then serves its status on a socket or named pipe  *)
(* (control.rs), then races its run loop against a shutdown signal          *)
(* (main.rs, run_vpn_client).  `client stop` and `client status` query that *)
(* socket; stop signals the PID it finds in the lock file.  On Windows a    *)
(* GUI runs the client on a thread of its own instead (ffi_windows.rs).     *)
(*                                                                          *)
(* A process has one life and its own PID; a PID is not given out again.    *)
(* The lock is the kernel's lock on an inode, released when its holder      *)
(* ends.  What the run loop does inside is ClientReconnect.                 *)
(***************************************************************************)
EXTENDS Integers, Sequences, FiniteSets

CONSTANTS
  Procs,      \* processes (on Windows also worker threads) started one day
  NoProc,
  MaxPolls    \* how often `client stop` polls, 50 in the code

ASSUME InstancesAssumption == NoProc \notin Procs /\ MaxPolls \in Nat \ {0}

VARIABLES
  platform,   \* "unix" or "windows"
  path,       \* inode of the lock file, an index into files; 0 if there is none
  files,      \* inodes: who holds the lock, which PID is written there
  sock,       \* who bound the socket file or owns the pipe; NoProc if there is none
  listening,  \* processes whose listener task is there
  deaf,       \* processes whose listener failed: bind, accept, or a pipe name in use
  pc, kind,   \* where a process is; "cli" or "ffi"
  fd,         \* inode of the lock file a process has open
  tun,        \* does it have the TUN device open?
  signalled,  \* SIGTERM was caught, or the Notify holds its permit
  handle,     \* the GUI's handle of a worker thread
  cmd         \* a command on the same machine

shared == <<path, files, sock, listening, deaf>>
proc == <<pc, kind, fd, tun, signalled, handle>>
vars == <<platform, shared, proc, cmd>>

\* The steps at which a process holds the lock, those before the handlers for
\* SIGTERM and SIGINT are installed, and all of them.
Holding == {"locked", "empty", "claimed", "cleared", "bound", "running",
            "unlisten", "unlock"}
Unhandled == {"opened", "locked", "empty", "claimed", "cleared", "bound"}
Steps == Holding \cup {"off", "opened", "runtime", "gone"}

Idle == [op |-> "none", at |-> "idle", conn |-> NoProc, pid |-> NoProc,
         polls |-> 0, held |-> {}, outcome |-> "none"]

Init ==
  /\ platform \in {"unix", "windows"}
  /\ path = 0 /\ files = <<>> /\ sock = NoProc /\ listening = {} /\ deaf = {}
  /\ pc = [p \in Procs |-> "off"] /\ kind = [p \in Procs |-> "cli"]
  /\ fd = [p \in Procs |-> 0] /\ tun = [p \in Procs |-> FALSE]
  /\ signalled = [p \in Procs |-> FALSE]
  /\ handle = [p \in Procs |-> "none"]
  /\ cmd = Idle

Go(p, from, to) == pc[p] = from /\ pc' = [pc EXCEPT ![p] = to]

\* Who holds the lock of some inode.  While stop confirms that an instance is
\* there and reads its PID, `held` collects who held a lock meanwhile (history).
Holders == {files[i].holder : i \in DOMAIN files} \ {NoProc}
Confirming == cmd.at \in {"reading", "pid"} /\ cmd.op = "stop" /\ cmd.pid = NoProc

\* The inodes without the lock of p.
Unlocked(p) == [i \in DOMAIN files |->
                  IF files[i].holder = p THEN [files[i] EXCEPT !.holder = NoProc]
                  ELSE files[i]]

-----------------------------------------------------------------------------
(* VpnLock::acquire. *)

Kinds == IF platform = "unix" THEN {"cli"} ELSE {"cli", "ffi"}

\* A slip: the PID is written when the file is opened, before the lock is tried.
OpenWritesPid(p) ==
  /\ Go(p, "off", "opened")
  /\ \E k \in Kinds : kind' = [kind EXCEPT ![p] = k]
  /\ files' = IF path = 0 THEN Append(files, [holder |-> NoProc, pid |-> p])
                          ELSE [files EXCEPT ![path].pid = p]
  /\ path' = IF path = 0 THEN Len(files) + 1 ELSE path
  /\ fd' = [fd EXCEPT ![p] = path']
  /\ UNCHANGED <<platform, sock, listening, deaf, tun, signalled, handle, cmd>>

\* A slip: a lock file left behind is removed and created anew.
OpenAnew(p) ==
  /\ Go(p, "off", "opened")
  /\ \E k \in Kinds : kind' = [kind EXCEPT ![p] = k]
  /\ files' = Append(files, [holder |-> NoProc, pid |-> NoProc])
  /\ path' = Len(files) + 1
  /\ fd' = [fd EXCEPT ![p] = path']
  /\ UNCHANGED <<platform, sock, listening, deaf, tun, signalled, handle, cmd>>

\* Open or create the lock file, without truncating it.
Open(p) ==
  /\ Go(p, "off", "opened")
  /\ \E k \in Kinds : kind' = [kind EXCEPT ![p] = k]
  /\ files' = IF path = 0 THEN Append(files, [holder |-> NoProc, pid |-> NoProc])
                          ELSE files
  /\ path' = IF path = 0 THEN Len(files) + 1 ELSE path
  /\ fd' = [fd EXCEPT ![p] = path']
  /\ UNCHANGED <<platform, sock, listening, deaf, tun, signalled, handle, cmd>>

\* try_lock on the open file.
TryLock(p) ==
  /\ Go(p, "opened", "locked") /\ files[fd[p]].holder = NoProc
  /\ files' = [files EXCEPT ![fd[p]] = [holder |-> p, pid |-> files[fd[p]].pid]]
  /\ cmd' = [cmd EXCEPT !.held = IF Confirming THEN @ \cup {p} ELSE @]
  /\ UNCHANGED <<platform, path, sock, listening, deaf, kind, fd, tun, signalled,
                 handle>>

\* WouldBlock: "Another ... is already running".
Refused(p) ==
  /\ Go(p, "opened", "gone") /\ files[fd[p]].holder # NoProc
  /\ fd' = [fd EXCEPT ![p] = 0]
  /\ UNCHANGED <<platform, shared, kind, tun, signalled, handle, cmd>>

Truncate(p) ==
  /\ Go(p, "locked", "empty")
  /\ files' = [files EXCEPT ![fd[p]] = [holder |-> p, pid |-> NoProc]]
  /\ UNCHANGED <<platform, path, sock, listening, deaf, kind, fd, tun, signalled,
                 handle, cmd>>

WritePid(p) ==
  /\ Go(p, "empty", "claimed")
  /\ files' = [files EXCEPT ![fd[p]] = [holder |-> p, pid |-> p]]
  /\ UNCHANGED <<platform, path, sock, listening, deaf, kind, fd, tun, signalled,
                 handle, cmd>>

\* try_lock, set_len, seek or write fails: the file is closed, and what it holds
\* stays.
AcquireFails(p) ==
  /\ \E from \in {"opened", "locked", "empty"} : Go(p, from, "gone")
  /\ files' = Unlocked(p) /\ fd' = [fd EXCEPT ![p] = 0]
  /\ UNCHANGED <<platform, path, sock, listening, deaf, kind, tun, signalled, handle,
                 cmd>>

-----------------------------------------------------------------------------
(* run_vpn_client from spawn_status_listener on; start_inner's worker. *)

\* Any existing socket is stale: remove it before binding.  Pipes need no file.
RemoveStale(p) ==
  /\ kind[p] = "cli" /\ Go(p, "claimed", "cleared")
  /\ sock' = IF platform = "unix" THEN NoProc ELSE sock
  /\ UNCHANGED <<platform, path, files, listening, deaf, kind, fd, tun, signalled,
                 handle, cmd>>

\* bind, or the first instance of the pipe; then the task is spawned.  A name
\* that is taken makes it fail, as may the system, in set_permissions also when
\* the socket is there; the client goes on without a listener.
Bind(p) ==
  /\ Go(p, "cleared", "bound")
  /\ \/ /\ sock = NoProc /\ sock' = p
        /\ listening' = listening \cup {p} /\ UNCHANGED deaf
     \/ /\ sock = NoProc /\ sock' \in IF platform = "unix" THEN {NoProc, p} ELSE {NoProc}
        /\ deaf' = deaf \cup {p} /\ UNCHANGED listening
     \/ /\ sock # NoProc /\ UNCHANGED <<sock, listening>>
        /\ deaf' = IF platform = "windows" THEN deaf \cup {p} ELSE deaf
  /\ UNCHANGED <<platform, path, files, kind, fd, tun, signalled, handle, cmd>>

\* The worker has no listener; it hands the status handle back, and ezvpn_start
\* returns while the worker goes on.
HandBack(p) ==
  /\ kind[p] = "ffi" /\ Go(p, "claimed", "bound")
  /\ handle' = [handle EXCEPT ![p] = "open"]
  /\ UNCHANGED <<platform, shared, kind, fd, tun, signalled, cmd>>

\* The select! over the run loop and the shutdown signal is polled for the first
\* time, which installs the signal handlers.
EnterSelect(p) ==
  /\ Go(p, "bound", "running")
  /\ UNCHANGED <<platform, shared, kind, fd, tun, signalled, handle, cmd>>

TunnelUp(p) ==
  /\ pc[p] = "running" /\ ~tun[p] /\ tun' = [tun EXCEPT ![p] = TRUE]
  /\ UNCHANGED <<platform, shared, pc, kind, fd, signalled, handle, cmd>>

\* A tunnel that ends by itself aborts its tasks, which closes the device; the
\* loop goes on to reconnect, or returns.
TunnelDown(p) ==
  /\ pc[p] = "running" /\ tun[p] /\ tun' = [tun EXCEPT ![p] = FALSE]
  /\ UNCHANGED <<platform, shared, pc, kind, fd, signalled, handle, cmd>>

RunReturns(p) ==
  /\ ~tun[p] /\ Go(p, "running", "unlisten")
  /\ UNCHANGED <<platform, shared, kind, fd, tun, signalled, handle, cmd>>

\* Ctrl-C, or a signal that is not `client stop`'s.
Interrupt(p) ==
  /\ kind[p] = "cli" /\ pc[p] = "running"
  /\ signalled' = [signalled EXCEPT ![p] = TRUE]
  /\ UNCHANGED <<platform, shared, pc, kind, fd, tun, handle, cmd>>

\* The signal wins: the run loop is dropped, but the tasks of its tunnel are only
\* detached, and they own the device.
Shutdown(p) ==
  /\ signalled[p] /\ Go(p, "running", "unlisten")
  /\ UNCHANGED <<platform, shared, kind, fd, tun, signalled, handle, cmd>>

\* The listener of a process stops accepting for good.
AcceptFails(p) ==
  /\ pc[p] \in {"bound", "running"} /\ p \in listening
  /\ listening' = listening \ {p} /\ deaf' = deaf \cup {p}
  /\ sock' = IF platform = "windows" THEN NoProc ELSE sock
  /\ UNCHANGED <<platform, path, files, proc, cmd>>

-----------------------------------------------------------------------------
(* The locals are dropped in the reverse order of their declaration. *)

\* The guard aborts the listener's task and removes the socket, by its path; the
\* worker has none and closes its endpoint here.
DropListener(p) ==
  /\ Go(p, "unlisten", "unlock")
  /\ sock' = IF platform = "unix" /\ kind[p] = "cli" THEN NoProc ELSE sock
  /\ UNCHANGED <<platform, path, files, listening, deaf, kind, fd, tun, signalled,
                 handle, cmd>>

\* VpnLock::drop: unlock and close; the file stays.
DropClient(p) ==
  /\ Go(p, "unlock", "runtime")
  /\ files' = Unlocked(p) /\ fd' = [fd EXCEPT ![p] = 0]
  /\ UNCHANGED <<platform, path, sock, listening, deaf, kind, tun, signalled, handle,
                 cmd>>

\* The aborted task is gone, and its connections and its pipe with it.
ListenerEnds(p) ==
  /\ pc[p] \in {"unlock", "runtime"} /\ p \in listening
  /\ listening' = listening \ {p}
  /\ sock' = IF platform = "windows" /\ sock = p THEN NoProc ELSE sock
  /\ UNCHANGED <<platform, path, files, deaf, proc, cmd>>

\* A slip: the socket file is removed as the process ends, after the lock.
DropRuntimeCleans(p) ==
  /\ p \notin listening /\ Go(p, "runtime", "gone")
  /\ tun' = [tun EXCEPT ![p] = FALSE]
  /\ sock' = IF platform = "unix" THEN NoProc ELSE sock
  /\ UNCHANGED <<platform, path, files, listening, deaf, kind, fd, signalled, handle,
                 cmd>>

\* The runtime ends with all of its tasks, then the process or the thread.
DropRuntime(p) ==
  /\ p \notin listening /\ Go(p, "runtime", "gone")
  /\ tun' = [tun EXCEPT ![p] = FALSE]
  /\ UNCHANGED <<platform, shared, kind, fd, signalled, handle, cmd>>

\* What the kernel cleans up when a process is killed: its lock, its sockets and
\* its device, not the socket file and not what the lock file says.
Killed(p) ==
  /\ pc' = [pc EXCEPT ![p] = "gone"]
  /\ files' = Unlocked(p) /\ fd' = [fd EXCEPT ![p] = 0]
  /\ listening' = listening \ {p}
  /\ sock' = IF platform = "windows" /\ sock = p THEN NoProc ELSE sock
  /\ tun' = [tun EXCEPT ![p] = FALSE]

Crash(p) ==
  /\ kind[p] = "cli" /\ pc[p] \notin {"off", "gone"}
  /\ Killed(p)
  /\ UNCHANGED <<platform, path, deaf, kind, signalled, handle, cmd>>

-----------------------------------------------------------------------------
(* ezvpn_stop. *)

\* A slip: only a worker that is already waiting is woken.
NotifyWaiting(p) ==
  /\ handle[p] = "open" /\ handle' = [handle EXCEPT ![p] = "stopping"]
  /\ signalled' = [signalled EXCEPT ![p] = (pc[p] = "running")]
  /\ UNCHANGED <<platform, shared, pc, kind, fd, tun, cmd>>

\* notify_one leaves a permit for a worker that is not waiting yet.
Notify(p) ==
  /\ handle[p] = "open" /\ handle' = [handle EXCEPT ![p] = "stopping"]
  /\ signalled' = [signalled EXCEPT ![p] = TRUE]
  /\ UNCHANGED <<platform, shared, pc, kind, fd, tun, cmd>>

\* A slip: stop returns when the lock is free, without joining the thread.
ReturnUnlocked(p) ==
  /\ handle[p] = "stopping" /\ pc[p] \notin Holding
  /\ handle' = [handle EXCEPT ![p] = "stopped"]
  /\ UNCHANGED <<platform, shared, pc, kind, fd, tun, signalled, cmd>>

Join(p) ==
  /\ handle[p] = "stopping" /\ pc[p] = "gone"
  /\ handle' = [handle EXCEPT ![p] = "stopped"]
  /\ UNCHANGED <<platform, shared, pc, kind, fd, tun, signalled, cmd>>

-----------------------------------------------------------------------------
(* The commands: stop_client, and the probe of show_status and list_instances. *)

\* A command ends; of a stop that succeeded, whom it stopped is remembered.
Finish(outcome) ==
  cmd' = [Idle EXCEPT !.outcome = outcome,
                      !.pid = IF outcome = "stopped" THEN cmd.pid ELSE NoProc]

StartCommand ==
  /\ cmd.at = "idle"
  /\ \E op \in IF platform = "unix" THEN {"stop", "probe"} ELSE {"probe"} :
       cmd' = [Idle EXCEPT !.op = op, !.at = "connect"]
  /\ UNCHANGED <<platform, shared, proc>>

\* connect: a missing or refusing socket is "not running", which is what the
\* first query of stop gives up on and its later ones wait for.
Connect ==
  /\ cmd.at = "connect"
  /\ IF sock # NoProc /\ sock \in listening
     THEN cmd' = [cmd EXCEPT !.at = "reading", !.conn = sock,
                    !.held = IF cmd.op = "stop" /\ cmd.pid = NoProc THEN Holders ELSE {}]
     ELSE Finish(IF cmd.pid = NoProc THEN "not_running" ELSE "stopped")
  /\ UNCHANGED <<platform, shared, proc>>

\* The snapshot arrives.
Answered ==
  /\ cmd.at = "reading" /\ cmd.conn \in listening
  /\ CASE cmd.op = "probe" -> Finish("running")
       [] cmd.op = "stop" /\ cmd.pid = NoProc -> cmd' = [cmd EXCEPT !.at = "pid"]
       [] OTHER -> IF cmd.polls + 1 < MaxPolls
                   THEN cmd' = [cmd EXCEPT !.at = "connect", !.polls = @ + 1]
                   ELSE Finish("signal_sent")
  /\ UNCHANGED <<platform, shared, proc>>

\* The connection ends without a snapshot, or QUERY_TIMEOUT passes: `?`.
QueryFails ==
  /\ cmd.at = "reading"
  /\ Finish("error")
  /\ UNCHANGED <<platform, shared, proc>>

\* read_instance_pid: no file or no number in it is an error to stop.
ReadPid ==
  /\ cmd.at = "pid"
  /\ IF path = 0 \/ files[path].pid = NoProc THEN Finish("error")
     ELSE cmd' = [cmd EXCEPT !.at = "kill", !.pid = files[path].pid]
  /\ UNCHANGED <<platform, shared, proc>>

\* kill(pid, SIGTERM): an error for a process that is gone; the end of one that
\* has not installed its handlers; ignored by one that is already shutting down.
Kill ==
  /\ cmd.at = "kill"
  /\ IF pc[cmd.pid] = "gone" THEN Finish("error")
     ELSE cmd' = [cmd EXCEPT !.at = "connect", !.held = {}]
  /\ IF pc[cmd.pid] \in Unhandled
     THEN Killed(cmd.pid) /\ UNCHANGED signalled
     ELSE /\ signalled' = [signalled EXCEPT ![cmd.pid] = @ \/ pc[cmd.pid] = "running"]
          /\ UNCHANGED <<pc, files, fd, listening, sock, tun>>
  /\ UNCHANGED <<platform, path, deaf, kind, handle>>

Command == Connect \/ Answered \/ QueryFails \/ ReadPid \/ Kill

-----------------------------------------------------------------------------

Startup(p) ==
  \/ TryLock(p) \/ Refused(p) \/ Truncate(p) \/ WritePid(p) \/ AcquireFails(p)
  \/ RemoveStale(p) \/ Bind(p) \/ HandBack(p) \/ EnterSelect(p)

Teardown(p) ==
  Shutdown(p) \/ DropListener(p) \/ DropClient(p) \/ ListenerEnds(p) \/ DropRuntime(p)

Next ==
  \/ StartCommand \/ Command
  \/ \E p \in Procs :
       \/ Open(p) \/ Startup(p) \/ Teardown(p) \/ Crash(p) \/ AcceptFails(p)
       \/ TunnelUp(p) \/ TunnelDown(p) \/ RunReturns(p) \/ Interrupt(p)
       \/ Notify(p) \/ Join(p)

\* Programs run; nobody has to start one, and no tunnel has to come or go.
Fairness ==
  /\ WF_vars(Command)
  /\ \A p \in Procs : WF_vars(Startup(p)) /\ WF_vars(Teardown(p)) /\ WF_vars(Join(p))

Spec == Init /\ [][Next]_vars /\ Fairness

-----------------------------------------------------------------------------
(* Properties. *)

\* At most one process is past VpnLock::acquire and has not dropped its lock,
\* however starts, exits and crashes interleave.
OneHolder == \A p, q \in Procs : pc[p] \in Holding /\ pc[q] \in Holding => p = q

\* A running client is found by `status`, `list` and `stop`: the socket leads to
\* it and its listener is there, whatever a predecessor left behind or still
\* cleans up.  Except for one that the system refused its listener or an accept
\* (the loop ends for good), or that on Windows met the pipe of a predecessor
\* that was not quite gone.
RunningReachable ==
  \A p \in Procs :
    kind[p] = "cli" /\ pc[p] \in {"bound", "running"} /\ p \notin deaf =>
      sock = p /\ p \in listening

\* `client stop` signals a client that held the instance's lock at some time since
\* the socket answered ("a PID we just confirmed is a live instance"), never one
\* that was refused the lock.
StopSpares == cmd.at = "kill" => cmd.pid \in cmd.held

\* "Client stopped." is only printed when the signalled client has taken down its
\* listener or died, or had lost its listener before; ezvpn_stop returns when the
\* lock is released and the device closed, so that the next start meets neither.
StoppedMeansDown ==
  /\ cmd.outcome = "stopped" =>
       pc[cmd.pid] \in {"unlock", "runtime", "gone"} \/ cmd.pid \in deaf
  /\ \A p \in Procs :
       handle[p] = "stopped" =>
         ~tun[p] /\ \A i \in DOMAIN files : files[i].holder # p

\* Every command returns, a client that caught the signal ends, and ezvpn_stop
\* returns even if it is called before its worker waits for the notification.
StopReturns ==
  /\ cmd.at # "idle" ~> cmd.at = "idle"
  /\ \A p \in Procs : /\ signalled[p] ~> pc[p] = "gone"
                      /\ handle[p] = "stopping" ~> handle[p] = "stopped"
=============================================================================
