---------------------------- MODULE ControlProofs ---------------------------
(***************************************************************************)
(* Proofs about what controls a client from the outside: the lock, socket   *)
(* and stop command of an instance, and the handle of a mobile app.         *)
(*                                                                          *)
(* Instances, for any set of processes: at most one holds the lock, a       *)
(* running client is reachable, and what a stop request signals and         *)
(* reports.  The argument about stopping (StopInv) is that a program only   *)
(* moves forward: one that held the lock while stop_client confirmed the    *)
(* instance never comes back to where it did not, so the PID read is one of *)
(* theirs.                                                                  *)
(*                                                                          *)
(* MobileSession, for any parameters and any number of connections.  That   *)
(* the app hears nothing after stop rests on the callback and its lock      *)
(* being held for the same time, and that its picture is right rests on     *)
(* what the task is about to report at every step between two callbacks     *)
(* (ViewInv).                                                               *)
(***************************************************************************)
EXTENDS Instances, MobileSession, TLAPS

(* The instance. *)

Outcomes == {"none", "not_running", "running", "stopped", "signal_sent", "error"}

File == [holder : Procs \cup {NoProc}, pid : Procs \cup {NoProc}]

\* There is at most one inode, the one at the path, and who holds its lock is
\* exactly the process whose program is past the lock.
LockInv ==
  /\ path \in {0, 1} /\ files \in Seq(File) /\ Len(files) = path
  /\ pc \in [Procs -> Steps] /\ fd \in [Procs -> {0, 1}]
  /\ \A p \in Procs : pc[p] \in Holding \cup {"opened"} => path = 1 /\ fd[p] = 1
  /\ \A p \in Procs : pc[p] \in Holding => files[1].holder = p
  /\ path = 1 => \A p \in Procs : files[1].holder = p => pc[p] \in Holding

\* A command that is about to signal has read a PID.
CmdInv ==
  /\ sock \in Procs \cup {NoProc}
  /\ cmd \in [op : {"none", "stop", "probe"},
              at : {"idle", "connect", "reading", "pid", "kill"},
              conn : Procs \cup {NoProc}, pid : Procs \cup {NoProc}, polls : Nat,
              held : SUBSET Procs, outcome : Outcomes]
  /\ cmd.at = "kill" => cmd.pid # NoProc

\* The lock's holder finds no socket file after removing the stale one, and once
\* it has bound its own, that stays.
ReachInv ==
  /\ platform \in {"unix", "windows"}
  /\ \A p \in Procs : platform = "unix" /\ pc[p] = "cleared" => sock = NoProc
  /\ RunningReachable

-----------------------------------------------------------------------------
(* The lock. *)

\* Closing the file releases the lock of p and nothing else.
LEMMA UnlockedFile ==
  ASSUME LockInv, NEW p \in Procs
  PROVE  /\ Unlocked(p) \in Seq(File) /\ Len(Unlocked(p)) = Len(files)
         /\ path = 1 => Unlocked(p)[1].holder = IF files[1].holder = p THEN NoProc
                                               ELSE files[1].holder
         /\ path = 1 => Unlocked(p)[1].pid = files[1].pid
<1>1. files \in Seq(File) /\ DOMAIN files = 1..Len(files) /\ path = Len(files)
  BY DEF LockInv
<1>2. \A i \in 1..Len(files) : files[i] \in File
  BY <1>1
<1>3. \A i \in 1..Len(files) :
        [files[i] EXCEPT !.holder = NoProc] = [holder |-> NoProc, pid |-> files[i].pid]
  BY <1>2 DEF File
<1>4. \A i \in 1..Len(files) : Unlocked(p)[i] \in File
  BY <1>1, <1>2, <1>3 DEF File, Unlocked
<1>5. Unlocked(p) = [i \in 1..Len(files) |-> Unlocked(p)[i]]
  BY <1>1, Zenon DEF Unlocked
<1>6. Len(files) \in Nat
  BY <1>1
<1>7. Unlocked(p) \in Seq(File) /\ Len(Unlocked(p)) = Len(files)
  BY <1>4, <1>5, <1>6
<1> QED
  BY <1>1, <1>3, <1>7 DEF Unlocked

\* Writing a record into the one lock file leaves one lock file, with that record.
LEMMA SetFile ==
  ASSUME files \in Seq(File), Len(files) = 1, NEW r \in File
  PROVE  /\ [files EXCEPT ![1] = r] \in Seq(File) /\ Len([files EXCEPT ![1] = r]) = 1
         /\ [files EXCEPT ![1] = r][1] = r
OBVIOUS

\* A process that ends at any point, its file closed by the kernel.
LEMMA EndsKeepsLock ==
  ASSUME LockInv, NEW p \in Procs, NEW to \in {"runtime", "gone"},
         pc' = [pc EXCEPT ![p] = to], files' = Unlocked(p), path' = path,
         fd' = [fd EXCEPT ![p] = 0]
  PROVE  LockInv'
<1>1. /\ Unlocked(p) \in Seq(File) /\ Len(Unlocked(p)) = Len(files)
      /\ path = 1 => Unlocked(p)[1].holder = IF files[1].holder = p THEN NoProc
                                            ELSE files[1].holder
  BY UnlockedFile, Zenon
<1>2. \A q \in Procs : pc'[q] \in Holding \cup {"opened"} =>
                         q # p /\ pc'[q] = pc[q] /\ fd'[q] = fd[q]
  BY Zenon DEF LockInv, Holding
<1>3. \A q \in Procs : pc'[q] \in Holding => files'[1].holder = q
  BY <1>1, <1>2, Zenon DEF LockInv
<1>4. path' = 1 => \A q \in Procs : files'[1].holder = q => pc'[q] \in Holding
  BY <1>1, InstancesAssumption DEF LockInv
<1> QED
  BY <1>1, <1>2, <1>3, <1>4 DEF LockInv, Steps

\* A step of a program that moves neither across the lock nor the file.
LEMMA MovesKeepLock ==
  ASSUME LockInv, NEW p \in Procs, NEW from, NEW to, Go(p, from, to),
         to \in Steps, from \in Holding <=> to \in Holding,
         to = "opened" => from = "opened", UNCHANGED <<path, files, fd>>
  PROVE  LockInv'
BY Zenon DEF LockInv, Go

\* Every step keeps the lock with the one process past VpnLock::acquire.
LEMMA LockStep ==
  ASSUME LockInv, CmdInv, [Next]_vars
  PROVE  LockInv'
<1> USE DEF Steps, Holding
<1>1. ASSUME NEW p \in Procs, Open(p)
      PROVE  LockInv'
  <2>1. CASE path = 0
    <3>1. files' = Append(files, [holder |-> NoProc, pid |-> NoProc]) /\ path' = 1
      BY <1>1, <2>1 DEF Open, LockInv
    <3>2. files' \in Seq(File) /\ Len(files') = 1 /\ files'[1].holder = NoProc
      BY <2>1, <3>1 DEF LockInv, File
    <3>3. \A q \in Procs : pc[q] \notin Holding \cup {"opened"}
      BY <2>1 DEF LockInv
    <3> QED
      BY <1>1, <3>1, <3>2, <3>3, InstancesAssumption, Zenon DEF LockInv, Open, Go
  <2>2. CASE path # 0
    BY <1>1, <2>2, Zenon DEF LockInv, Open, Go
  <2> QED
    BY <2>1, <2>2, Zenon
<1>2. ASSUME NEW p \in Procs, TryLock(p)
      PROVE  LockInv'
  <2>1. pc[p] = "opened" /\ path = 1 /\ fd[p] = 1 /\ files[1].holder = NoProc
    BY <1>2, Zenon DEF TryLock, Go, LockInv
  <2>2. \A q \in Procs : pc[q] \notin Holding
    BY <2>1, InstancesAssumption, Zenon DEF LockInv
  <2>3. /\ files' \in Seq(File) /\ Len(files') = 1 /\ files'[1].holder = p
        /\ path' = 1
    <3>1. files' = [files EXCEPT ![1] = [holder |-> p, pid |-> files[1].pid]]
      BY <1>2, <2>1, Zenon DEF TryLock
    <3>2. files[1] \in File
      BY <2>1 DEF LockInv
    <3>3. [holder |-> p, pid |-> files[1].pid] \in File
      BY <3>2, Zenon DEF File
    <3> QED
      BY <1>2, <2>1, <3>1, <3>3, SetFile DEF TryLock, LockInv
  <2> QED
    BY <1>2, <2>1, <2>2, <2>3 DEF LockInv, TryLock, Go
<1>3. ASSUME NEW p \in Procs, Truncate(p) \/ WritePid(p)
      PROVE  LockInv'
  <2>1. pc[p] \in Holding /\ path = 1 /\ fd[p] = 1 /\ files[1].holder = p
    BY <1>3, Zenon DEF Truncate, WritePid, Go, LockInv
  <2>2. /\ files' \in Seq(File) /\ Len(files') = 1 /\ files'[1].holder = p
        /\ path' = 1 /\ fd' = fd
    <3>1. PICK n \in Procs \cup {NoProc} :
            files' = [files EXCEPT ![1] = [holder |-> p, pid |-> n]]
      BY <1>3, <2>1, Zenon DEF Truncate, WritePid
    <3>2. [holder |-> p, pid |-> n] \in File
      BY Zenon DEF File
    <3> QED
      BY <1>3, <2>1, <3>1, <3>2, SetFile DEF Truncate, WritePid, LockInv
  <2>3. PICK to \in {"empty", "claimed"} : pc' = [pc EXCEPT ![p] = to]
    BY <1>3, Zenon DEF Truncate, WritePid, Go
  <2> QED
    BY <2>1, <2>2, <2>3, InstancesAssumption, Zenon DEF LockInv
<1>4. ASSUME NEW p \in Procs, AcquireFails(p) \/ DropClient(p) \/ Crash(p)
      PROVE  LockInv'
  <2>1. PICK to \in {"runtime", "gone"} : pc' = [pc EXCEPT ![p] = to]
    BY <1>4, Zenon DEF AcquireFails, DropClient, Crash, Killed, Go
  <2>2. files' = Unlocked(p) /\ path' = path /\ fd' = [fd EXCEPT ![p] = 0]
    BY <1>4, Zenon DEF AcquireFails, DropClient, Crash, Killed
  <2> QED
    BY <2>1, <2>2, EndsKeepsLock, Zenon
<1>5. ASSUME NEW p \in Procs, Refused(p)
      PROVE  LockInv'
  BY <1>5, Zenon DEF LockInv, Refused, Go, shared
<1>6. ASSUME NEW p \in Procs,
             \/ RemoveStale(p) \/ Bind(p) \/ HandBack(p) \/ EnterSelect(p)
             \/ RunReturns(p) \/ Shutdown(p) \/ DropListener(p) \/ DropRuntime(p)
      PROVE  LockInv'
  <2>1. PICK m \in {<<"claimed", "cleared">>, <<"cleared", "bound">>,
                    <<"claimed", "bound">>, <<"bound", "running">>,
                    <<"running", "unlisten">>, <<"unlisten", "unlock">>,
                    <<"runtime", "gone">>} : Go(p, m[1], m[2])
    BY <1>6, Zenon DEF RemoveStale, Bind, HandBack, EnterSelect, RunReturns, Shutdown,
                DropListener, DropRuntime
  <2>2. UNCHANGED <<path, files, fd>>
    BY <1>6, Zenon DEF RemoveStale, Bind, HandBack, EnterSelect, RunReturns, Shutdown,
                DropListener, DropRuntime, shared
  <2> QED
    BY <2>1, <2>2, MovesKeepLock
<1>7. ASSUME NEW p \in Procs,
             \/ TunnelUp(p) \/ TunnelDown(p) \/ Interrupt(p) \/ AcceptFails(p)
             \/ ListenerEnds(p) \/ Notify(p) \/ Join(p)
      PROVE  LockInv'
  <2>1. UNCHANGED <<path, files, fd, pc>>
    BY <1>7, Zenon DEF TunnelUp, TunnelDown, Interrupt, AcceptFails, ListenerEnds, Notify,
                Join, shared, proc
  <2> QED
    BY <2>1, Zenon DEF LockInv
<1>8. CASE StartCommand \/ Connect \/ Answered \/ QueryFails \/ ReadPid
  <2>1. UNCHANGED <<path, files, fd, pc>>
    BY <1>8, Zenon DEF StartCommand, Connect, Answered, QueryFails, ReadPid, shared, proc
  <2> QED
    BY <2>1, Zenon DEF LockInv
<1>9. CASE Kill
  <2>1. cmd.pid \in Procs
    BY <1>9, Zenon DEF Kill, CmdInv
  <2>2. CASE pc[cmd.pid] \in Unhandled
    BY <1>9, <2>1, <2>2, EndsKeepsLock, Zenon DEF Kill, Killed
  <2>3. CASE pc[cmd.pid] \notin Unhandled
    BY <1>9, <2>3, Zenon DEF Kill, LockInv
  <2> QED
    BY <2>2, <2>3, Zenon
<1>10. CASE UNCHANGED vars
  BY <1>10, Zenon DEF LockInv, vars, shared, proc
<1> QED
  BY <1>1, <1>2, <1>3, <1>4, <1>5, <1>6, <1>7, <1>8, <1>9, <1>10, Zenon
     DEF Next, Startup, Teardown, Command

-----------------------------------------------------------------------------
(* The command and the socket. *)

\* Every step keeps what a command knows well typed, and a PID with one that
\* is about to signal.
LEMMA CmdStep ==
  ASSUME LockInv, CmdInv, [Next]_vars
  PROVE  CmdInv'
<1>1. ASSUME NEW outcome \in Outcomes, Finish(outcome), sock' = sock
      PROVE  CmdInv'
  BY <1>1, Zenon DEF Finish, Idle, CmdInv
<1>2. CASE StartCommand
  <2>1. PICK op \in {"stop", "probe"} : cmd' = [Idle EXCEPT !.op = op, !.at = "connect"]
    BY <1>2, Zenon DEF StartCommand
  <2>2. cmd' = [op |-> op, at |-> "connect", conn |-> NoProc, pid |-> NoProc,
                polls |-> 0, held |-> {}, outcome |-> "none"]
    BY <2>1, Zenon DEF Idle
  <2> QED
    BY <1>2, <2>2, Zenon DEF StartCommand, shared, CmdInv, Outcomes
<1>3. Holders \in SUBSET Procs
  <2>1. \A i \in DOMAIN files : files[i] \in File
    BY DEF LockInv
  <2> QED
    BY <2>1, Zenon DEF Holders, File
<1>4. CASE Connect
  <2>1. CASE sock # NoProc /\ sock \in listening
    BY <1>3, <1>4, <2>1, Zenon DEF Connect, shared, CmdInv
  <2>2. CASE ~(sock # NoProc /\ sock \in listening)
    BY <1>1, <1>4, <2>2, Zenon DEF Connect, shared, Outcomes
  <2> QED
    BY <2>1, <2>2, Zenon
<1>5. CASE Answered
  <2>1. CASE cmd' = [cmd EXCEPT !.at = "pid"]
    BY <1>5, <2>1, Zenon DEF Answered, shared, CmdInv
  <2>2. CASE cmd' = [cmd EXCEPT !.at = "connect", !.polls = @ + 1]
    <3>1. cmd.polls + 1 \in Nat
      BY DEF CmdInv
    <3> QED
      BY <1>5, <2>2, <3>1, Zenon DEF Answered, shared, CmdInv
  <2> QED
    BY <1>1, <1>5, <2>1, <2>2, Zenon DEF Answered, shared, Outcomes
<1>6. CASE QueryFails
  BY <1>1, <1>6, Zenon DEF QueryFails, shared, Outcomes
<1>7. CASE ReadPid
  <2>1. CASE path = 0 \/ files[path].pid = NoProc
    BY <1>1, <1>7, <2>1, Zenon DEF ReadPid, shared, Outcomes
  <2>2. CASE ~(path = 0 \/ files[path].pid = NoProc)
    <3>1. path = 1 /\ files[1] \in File
      BY <2>2 DEF LockInv
    <3>2. files[path].pid \in Procs
      BY <2>2, <3>1, Zenon DEF File
    <3>3. cmd' = [cmd EXCEPT !.at = "kill", !.pid = files[path].pid] /\ sock' = sock
      BY <1>7, <2>2, Zenon DEF ReadPid, shared
    <3> QED
      BY <3>2, <3>3, InstancesAssumption, Zenon DEF CmdInv
  <2> QED
    BY <2>1, <2>2, Zenon
<1>8. CASE Kill
  <2>1. sock' \in Procs \cup {NoProc}
    BY <1>8, Zenon DEF Kill, Killed, CmdInv
  <2>2. CASE Finish("error")
    BY <2>1, <2>2, Zenon DEF Finish, Idle, CmdInv, Outcomes
  <2>3. CASE cmd' = [cmd EXCEPT !.at = "connect", !.held = {}]
    BY <2>1, <2>3, Zenon DEF CmdInv
  <2> QED
    BY <1>8, <2>2, <2>3, Zenon DEF Kill
<1>9. ASSUME NEW p \in Procs, TryLock(p)
      PROVE  CmdInv'
  BY <1>9, Zenon DEF TryLock, CmdInv
<1>10. ASSUME NEW p \in Procs,
              \/ Open(p) \/ Refused(p) \/ Truncate(p) \/ WritePid(p) \/ AcquireFails(p)
              \/ RemoveStale(p) \/ Bind(p) \/ HandBack(p) \/ EnterSelect(p)
              \/ Teardown(p) \/ Crash(p) \/ AcceptFails(p) \/ TunnelUp(p)
              \/ TunnelDown(p) \/ RunReturns(p) \/ Interrupt(p) \/ Notify(p)
              \/ Join(p)
       PROVE  CmdInv'
  <2>1. cmd' = cmd /\ sock' \in {sock, p, NoProc}
    BY <1>10, Zenon DEF Open, Refused, Truncate, WritePid, AcquireFails, RemoveStale, Bind,
         HandBack, EnterSelect, Teardown, Shutdown, DropListener, DropClient,
         ListenerEnds, DropRuntime, Crash, Killed, AcceptFails, TunnelUp, TunnelDown,
         RunReturns, Interrupt, Notify, Join, shared
  <2> QED
    BY <2>1, Zenon DEF CmdInv
<1>11. CASE UNCHANGED vars
  BY <1>11, Zenon DEF vars, shared, CmdInv
<1> QED
  BY <1>2, <1>4, <1>5, <1>6, <1>7, <1>8, <1>9, <1>10, <1>11, Zenon
     DEF Next, Startup, Command

\* While p holds the lock no other process is between taking it and dropping it.
LEMMA HolderAlone ==
  ASSUME LockInv
  PROVE  OneHolder
BY Zenon DEF LockInv, OneHolder

\* p stays the only client that can be bound or running.
LEMMA OnlyHolderReaches ==
  ASSUME LockInv', platform' = platform, ReachInv, NEW p \in Procs, pc'[p] \in Holding,
         platform = "unix" /\ pc'[p] = "cleared" => sock' = NoProc,
         kind'[p] = "cli" /\ pc'[p] \in {"bound", "running"} /\ p \notin deaf' =>
           sock' = p /\ p \in listening'
  PROVE  ReachInv'
<1>1. \A q \in Procs : q # p => pc'[q] \notin Holding
  BY Zenon DEF LockInv
<1> QED
  BY <1>1, Zenon DEF ReachInv, RunningReachable, Holding

\* p leaves, and takes at most its own listener and pipe with it.
LEMMA LeavesOthers ==
  ASSUME LockInv, CmdInv, ReachInv, NEW p \in Procs, NEW to \in Steps,
         to \notin {"cleared", "bound", "running"}, pc' = [pc EXCEPT ![p] = to],
         UNCHANGED <<platform, deaf, kind>>, listening \ {p} \subseteq listening',
         sock' = sock \/ (sock = p /\ sock' = NoProc)
  PROVE  ReachInv'
BY InstancesAssumption DEF ReachInv, RunningReachable, LockInv, CmdInv

\* Every step keeps the socket with the running client.
LEMMA ReachStep ==
  ASSUME LockInv, CmdInv, ReachInv, LockInv', [Next]_vars
  PROVE  ReachInv'
<1> USE DEF Holding
<1>1. ASSUME NEW p \in Procs, Open(p)
      PROVE  ReachInv'
  BY <1>1 DEF Open, Go, ReachInv, RunningReachable, LockInv
<1>2. ASSUME NEW p \in Procs,
             \/ Refused(p) \/ AcquireFails(p) \/ DropClient(p) \/ DropRuntime(p)
             \/ Crash(p)
      PROVE  ReachInv'
  <2>1. PICK to \in {"runtime", "gone"} : pc' = [pc EXCEPT ![p] = to]
    BY <1>2, Zenon DEF Refused, AcquireFails, DropClient, DropRuntime, Crash, Killed, Go
  <2>2. /\ UNCHANGED <<platform, deaf, kind>> /\ listening \ {p} \subseteq listening'
        /\ sock' = sock \/ (sock = p /\ sock' = NoProc)
    BY <1>2, Zenon DEF Refused, AcquireFails, DropClient, DropRuntime, Crash, Killed, shared
  <2> QED
    BY <2>1, <2>2, LeavesOthers, Zenon DEF Steps
<1>3. ASSUME NEW p \in Procs,
             TryLock(p) \/ Truncate(p) \/ WritePid(p) \/ DropListener(p)
             \/ RunReturns(p) \/ Shutdown(p)
      PROVE  ReachInv'
  <2>1. pc'[p] \in {"locked", "empty", "claimed", "unlock", "unlisten"}
    BY <1>3, Zenon DEF TryLock, Truncate, WritePid, DropListener, RunReturns, Shutdown, Go,
                LockInv
  <2>2. platform' = platform
    BY <1>3, Zenon DEF TryLock, Truncate, WritePid, DropListener, RunReturns, Shutdown
  <2> QED
    BY <2>1, <2>2, OnlyHolderReaches, Zenon
<1>4. ASSUME NEW p \in Procs, RemoveStale(p)
      PROVE  ReachInv'
  <2>1. /\ pc'[p] = "cleared" /\ platform' = platform
        /\ platform = "unix" => sock' = NoProc
    BY <1>4, Zenon DEF RemoveStale, Go, LockInv
  <2> QED
    BY <2>1, OnlyHolderReaches, Zenon
<1>5. ASSUME NEW p \in Procs, Bind(p)
      PROVE  ReachInv'
  <2>1. pc[p] = "cleared" /\ pc'[p] = "bound" /\ UNCHANGED <<platform, kind>>
    BY <1>5, Zenon DEF Bind, Go, LockInv
  <2>2. p \notin deaf' => sock' = p /\ p \in listening'
    BY <1>5, <2>1, Zenon DEF Bind, ReachInv
  <2> QED
    BY <2>1, <2>2, OnlyHolderReaches, Zenon
<1>6. ASSUME NEW p \in Procs, HandBack(p)
      PROVE  ReachInv'
  <2>1. pc'[p] = "bound" /\ UNCHANGED <<platform, kind>> /\ kind[p] = "ffi"
    BY <1>6, Zenon DEF HandBack, Go, LockInv
  <2> QED
    BY <2>1, OnlyHolderReaches, Zenon
<1>7. ASSUME NEW p \in Procs, EnterSelect(p)
      PROVE  ReachInv'
  BY <1>7 DEF EnterSelect, Go, ReachInv, RunningReachable, LockInv, shared
<1>8. ASSUME NEW p \in Procs, AcceptFails(p)
      PROVE  ReachInv'
  <2>1. /\ pc[p] \in {"bound", "running"} /\ pc'[p] = pc[p] /\ p \in deaf'
        /\ platform' = platform
    BY <1>8, Zenon DEF AcceptFails, proc
  <2> QED
    BY <2>1, OnlyHolderReaches, Zenon
<1>9. ASSUME NEW p \in Procs, ListenerEnds(p)
      PROVE  ReachInv'
  <2>1. pc[p] \in {"unlock", "runtime"} /\ UNCHANGED <<platform, pc, deaf, kind>>
    BY <1>9, Zenon DEF ListenerEnds, proc
  <2>2. /\ listening' = listening \ {p}
        /\ sock' = sock \/ (sock = p /\ sock' = NoProc)
    BY <1>9, Zenon DEF ListenerEnds
  <2> QED
    BY <2>1, <2>2, Zenon DEF ReachInv, RunningReachable
<1>10. ASSUME NEW p \in Procs,
              TunnelUp(p) \/ TunnelDown(p) \/ Interrupt(p) \/ Notify(p) \/ Join(p)
       PROVE  ReachInv'
  <2>1. UNCHANGED <<platform, shared, pc, kind>>
    BY <1>10, Zenon DEF TunnelUp, TunnelDown, Interrupt, Notify, Join
  <2> QED
    BY <2>1, Zenon DEF ReachInv, RunningReachable, shared
<1>11. CASE StartCommand \/ Connect \/ Answered \/ QueryFails \/ ReadPid
  <2>1. UNCHANGED <<platform, shared, pc, kind>>
    BY <1>11, Zenon DEF StartCommand, Connect, Answered, QueryFails, ReadPid, proc
  <2> QED
    BY <2>1, Zenon DEF ReachInv, RunningReachable, shared
<1>12. CASE Kill
  <2>1. cmd.pid \in Procs /\ UNCHANGED <<platform, deaf, kind>>
    BY <1>12, Zenon DEF Kill, CmdInv
  <2>2. CASE pc[cmd.pid] \in Unhandled
    <3>1. /\ pc' = [pc EXCEPT ![cmd.pid] = "gone"]
          /\ listening \ {cmd.pid} \subseteq listening'
          /\ sock' = sock \/ (sock = cmd.pid /\ sock' = NoProc)
      BY <1>12, <2>2, Zenon DEF Kill, Killed
    <3> QED
      BY <2>1, <3>1, LeavesOthers, Zenon DEF Steps
  <2>3. CASE pc[cmd.pid] \notin Unhandled
    BY <1>12, <2>1, <2>3, Zenon DEF Kill, ReachInv, RunningReachable
  <2> QED
    BY <2>2, <2>3, Zenon
<1>13. CASE UNCHANGED vars
  BY <1>13, Zenon DEF ReachInv, RunningReachable, vars, shared, proc
<1> QED
  BY <1>1, <1>2, <1>3, <1>4, <1>5, <1>6, <1>7, <1>8, <1>9, <1>10, <1>11, <1>12, <1>13, Zenon
     DEF Next, Startup, Teardown, Command

-----------------------------------------------------------------------------
(* The theorems. *)

Inv == LockInv /\ CmdInv /\ ReachInv

\* The lock, the command and the socket are always as the proofs expect them.
LEMMA InvHolds == Spec => []Inv
<1>1. Init => Inv
  <2> SUFFICES ASSUME Init PROVE Inv
    BY Zenon
  <2>1. LockInv
    BY DEF Init, LockInv, Steps, Holding
  <2>2. CmdInv
    BY Zenon DEF Init, CmdInv, Idle, Outcomes
  <2>3. ReachInv
    BY Zenon DEF Init, ReachInv, RunningReachable
  <2> QED
    BY <2>1, <2>2, <2>3, Zenon DEF Inv
<1>2. Inv /\ [Next]_vars => Inv'
  BY LockStep, CmdStep, ReachStep, Zenon DEF Inv
<1> QED
  BY <1>1, <1>2, PTL DEF Spec

\* For any number of processes, at most one is past VpnLock::acquire and has not
\* yet dropped its lock (runtime.rs).
THEOREM OneHolderAlways == Spec => []OneHolder
<1>1. Inv => OneHolder
  BY HolderAlone, Zenon DEF Inv
<1> QED
  BY <1>1, InvHolds, PTL

\* For any number of processes, starting, stopping and crashing in any order, a
\* running client whose listener has not failed is the one its socket leads to
\* (control.rs, spawn_status_listener).
THEOREM RunningAlwaysReachable == Spec => []RunningReachable
<1>1. Inv => RunningReachable
  BY Zenon DEF Inv, ReachInv
<1> QED
  BY <1>1, InvHolds, PTL

-----------------------------------------------------------------------------
(* What a process leaves behind as it goes on. *)

\* Where the PID file names the holder, where a status listener may be found, and
\* the steps of a process that has taken the lock, installed its handlers, or taken
\* its listener down.
Claimed == Holding \ {"locked", "empty"}
Serving == {"bound", "running", "unlisten"}
Down == {"unlock", "runtime", "gone"}
Later == {"running", "unlisten"} \cup Down
Past == Holding \cup Down

\* The lock file of a process that has written its PID names it, one that is gone has
\* no device, and ezvpn_stop has only returned for one that is gone.
ProcInv ==
  /\ kind \in [Procs -> {"cli", "ffi"}] /\ tun \in [Procs -> BOOLEAN]
  /\ handle \in [Procs -> {"none", "open", "stopping", "stopped"}]
  /\ platform = "unix" => \A p \in Procs : kind[p] = "cli"
  /\ \A p \in Procs : pc[p] \in Claimed => files[1].pid = p
  /\ \A p \in Procs : tun[p] => pc[p] \in Later \ {"gone"}
  /\ \A p \in Procs : handle[p] = "stopped" => pc[p] = "gone"

\* On Unix the socket leads to a listener only while its client still holds the lock,
\* and to that of a client that is about to take it down.
SockInv ==
  platform = "unix" =>
    /\ \A p \in Procs : sock = p /\ p \in listening => pc[p] \in Serving
    /\ \A p \in Procs : pc[p] = "unlisten" /\ p \notin deaf => sock = p /\ p \in listening

\* What stop_client knows: while it confirms the instance, who has held the lock and
\* whose PID it may read; once it has signalled, that the client is past the signal.
StopInv ==
  /\ cmd.op = "stop" => platform = "unix"
  /\ cmd.at \in {"pid", "kill"} => cmd.op = "stop"
  /\ cmd.at = "pid" => cmd.pid = NoProc
  /\ Confirming => /\ Holders \subseteq cmd.held /\ path = 1
                   /\ files[1].pid # NoProc => files[1].pid \in cmd.held
  /\ \A p \in cmd.held : pc[p] \in Past
  /\ StopSpares
  /\ cmd.at \in {"connect", "reading"} /\ cmd.pid # NoProc =>
       cmd.op = "stop" /\ pc[cmd.pid] \in Later
  /\ cmd.outcome = "stopped" =>
       /\ cmd.at = "idle"
       /\ cmd.pid \in Procs /\ (pc[cmd.pid] \in Down \/ cmd.pid \in deaf)

\* A step moves one process at most, and never back.
LEMMA Forward ==
  ASSUME LockInv, CmdInv, [Next]_vars
  PROVE  /\ deaf \subseteq deaf' /\ platform' = platform
         /\ \A q \in Procs : /\ pc[q] \in Past => pc'[q] \in Past
                             /\ pc[q] \in Later => pc'[q] \in Later
                             /\ pc[q] \in Down => pc'[q] \in Down
                             /\ pc[q] = "gone" => pc'[q] = "gone"
                             /\ pc'[q] \in Claimed => pc[q] \in Claimed \/ WritePid(q)
<1> DEFINE Ahead(q) == /\ pc[q] \in Past => pc'[q] \in Past
                       /\ pc[q] \in Later => pc'[q] \in Later
                       /\ pc[q] \in Down => pc'[q] \in Down
                       /\ pc[q] = "gone" => pc'[q] = "gone"
                       /\ pc'[q] \in Claimed => pc[q] \in Claimed \/ WritePid(q)
<1> USE DEF Past, Later, Down, Holding, Claimed
<1>1. ASSUME NEW p \in Procs, NEW to \in Steps, pc' = [pc EXCEPT ![p] = to],
             pc[p] \in Past => to \in Past, pc[p] \in Later => to \in Later,
             pc[p] \in Down => to \in Down, pc[p] = "gone" => to = "gone",
             to \in Claimed => pc[p] \in Claimed \/ WritePid(p)
      PROVE  \A q \in Procs : Ahead(q)
  BY <1>1, Zenon DEF LockInv
<1>2. ASSUME NEW p \in Procs,
             \/ Open(p) \/ TryLock(p) \/ Refused(p) \/ Truncate(p) \/ WritePid(p)
             \/ AcquireFails(p) \/ RemoveStale(p) \/ Bind(p) \/ HandBack(p)
             \/ EnterSelect(p) \/ RunReturns(p) \/ Shutdown(p) \/ DropListener(p)
             \/ DropClient(p) \/ DropRuntime(p) \/ Crash(p)
      PROVE  \A q \in Procs : Ahead(q)
  <2>1. PICK m \in {<<"off", "opened">>, <<"opened", "locked">>, <<"opened", "gone">>,
                    <<"locked", "empty">>, <<"empty", "claimed">>, <<"locked", "gone">>,
                    <<"empty", "gone">>, <<"claimed", "cleared">>,
                    <<"cleared", "bound">>, <<"claimed", "bound">>,
                    <<"bound", "running">>, <<"running", "unlisten">>,
                    <<"unlisten", "unlock">>, <<"unlock", "runtime">>,
                    <<"runtime", "gone">>, <<pc[p], "gone">>} :
          /\ pc[p] = m[1] /\ pc' = [pc EXCEPT ![p] = m[2]]
          /\ m[2] = "claimed" => WritePid(p)
    BY <1>2, Zenon
       DEF Open, TryLock, Refused, Truncate, WritePid, AcquireFails, RemoveStale,
         Bind, HandBack, EnterSelect, RunReturns, Shutdown, DropListener, DropClient,
         DropRuntime, Crash, Killed, Go
  <2> DEFINE to == m[2]
  <2>2. pc[p] = m[1] /\ pc' = [pc EXCEPT ![p] = to]
    BY <2>1, Zenon
  <2>3. /\ to \in Steps /\ (pc[p] \in Past => to \in Past)
        /\ (pc[p] \in Later => to \in Later) /\ (pc[p] \in Down => to \in Down)
        /\ (pc[p] = "gone" => to = "gone")
        /\ (to \in Claimed => pc[p] \in Claimed \/ WritePid(p))
    BY <2>1 DEF Steps
  <2> HIDE DEF to, Ahead
  <2> QED
    BY <1>1, <2>2, <2>3, Zenon
<1>3. ASSUME pc' = pc
      PROVE  \A q \in Procs : Ahead(q)
  BY <1>3, Zenon
<1>4. ASSUME Kill
      PROVE  \A q \in Procs : Ahead(q)
  <2>1. CASE pc[cmd.pid] \in Unhandled
    <3>1. /\ cmd.pid \in Procs /\ "gone" \in Steps
          /\ pc' = [pc EXCEPT ![cmd.pid] = "gone"]
      BY <1>4, <2>1, Zenon DEF Kill, Killed, CmdInv, Steps
    <3> QED
      BY <1>1, <3>1, Zenon
  <2>2. CASE pc[cmd.pid] \notin Unhandled
    BY <1>3, <1>4, <2>2, Zenon DEF Kill
  <2> QED
    BY <2>1, <2>2, Zenon
<1>5. ASSUME NEW p \in Procs,
             \/ TunnelUp(p) \/ TunnelDown(p) \/ Interrupt(p) \/ AcceptFails(p)
             \/ ListenerEnds(p) \/ Notify(p) \/ Join(p)
      PROVE  pc' = pc
  BY <1>5, Zenon
     DEF TunnelUp, TunnelDown, Interrupt, AcceptFails, ListenerEnds, Notify, Join,
       proc
<1>6. ASSUME \/ StartCommand \/ Connect \/ Answered \/ QueryFails \/ ReadPid
             \/ UNCHANGED vars
      PROVE  pc' = pc
  BY <1>6, Zenon DEF StartCommand, Connect, Answered, QueryFails, ReadPid, proc, vars
<1> HIDE DEF Ahead, Past, Later, Down, Holding, Claimed
<1>7. \A q \in Procs : Ahead(q)
  BY <1>2, <1>3, <1>4, <1>5, <1>6, Zenon DEF Next, Startup, Teardown, Command
<1>8. deaf \subseteq deaf' /\ platform' = platform
  BY Zenon DEF Next, Startup, Teardown, Command, Open, TryLock, Refused, Truncate, WritePid,
       AcquireFails, RemoveStale, Bind, HandBack, EnterSelect, RunReturns, Shutdown,
       DropListener, DropClient, DropRuntime, Crash, Kill, TunnelUp, TunnelDown,
       Interrupt, AcceptFails, ListenerEnds, Notify, Join, StartCommand, Connect,
       Answered, QueryFails, ReadPid, vars, shared
<1> QED
  BY <1>7, <1>8, Zenon DEF Ahead

\* What the lock file says changes only when the holder of its lock writes it, and
\* its lock is only taken by TryLock.
LEMMA FileSteps ==
  ASSUME LockInv, CmdInv, LockInv', [Next]_vars, path = 1
  PROVE  /\ path' = 1
         /\ \/ files'[1].pid = files[1].pid
            \/ \E p \in Procs : /\ pc[p] \in {"locked", "empty"}
                                /\ \/ files'[1].pid = NoProc /\ pc'[p] = "empty"
                                   \/ files'[1].pid = p /\ pc'[p] = "claimed"
         /\ \/ files'[1].holder \in {files[1].holder, NoProc}
            \/ \E p \in Procs : TryLock(p) /\ files'[1].holder = p
<1> USE DEF Holding
<1> DEFINE Same == files'[1].pid = files[1].pid
                   /\ files'[1].holder \in {files[1].holder, NoProc}
<1>0. files \in Seq(File) /\ Len(files) = 1
  BY Zenon DEF LockInv
<1>1. ASSUME NEW p \in Procs, Open(p)
      PROVE  Same /\ path' = 1
  BY <1>1 DEF Open
<1>2. ASSUME NEW p \in Procs, TryLock(p)
      PROVE  files'[1].pid = files[1].pid /\ files'[1].holder = p /\ path' = 1
  <2>1. files' = [files EXCEPT ![1] = [holder |-> p, pid |-> files[1].pid]] /\ path' = 1
    BY <1>2, Zenon DEF TryLock, Go, LockInv
  <2> QED
    BY <1>0, <2>1
<1>3. ASSUME NEW p \in Procs, Truncate(p) \/ WritePid(p)
      PROVE  /\ path' = 1 /\ files'[1].holder = files[1].holder
             /\ pc[p] \in {"locked", "empty"}
             /\ \/ files'[1].pid = NoProc /\ pc'[p] = "empty"
                \/ files'[1].pid = p /\ pc'[p] = "claimed"
  <2>1. files[1].holder = p /\ fd[p] = 1 /\ path' = 1
    BY <1>3, Zenon DEF Truncate, WritePid, Go, LockInv
  <2>2. \/ files' = [files EXCEPT ![1] = [holder |-> p, pid |-> NoProc]]
           /\ pc[p] = "locked" /\ pc'[p] = "empty"
        \/ files' = [files EXCEPT ![1] = [holder |-> p, pid |-> p]]
           /\ pc[p] = "empty" /\ pc'[p] = "claimed"
    BY <1>3, <2>1, Zenon DEF Truncate, WritePid, Go, LockInv
  <2> QED
    BY <1>0, <2>1, <2>2
<1>4. ASSUME NEW p \in Procs, files' = Unlocked(p)
      PROVE  Same
  BY <1>4, UnlockedFile, Zenon
<1>5. ASSUME NEW p \in Procs,
             \/ AcquireFails(p) \/ DropClient(p) \/ Crash(p)
             \/ Refused(p) \/ RemoveStale(p) \/ Bind(p) \/ HandBack(p)
             \/ EnterSelect(p) \/ RunReturns(p) \/ Shutdown(p) \/ DropListener(p)
             \/ DropRuntime(p) \/ TunnelUp(p) \/ TunnelDown(p) \/ Interrupt(p)
             \/ AcceptFails(p) \/ ListenerEnds(p) \/ Notify(p) \/ Join(p)
      PROVE  Same /\ path' = 1
  <2>1. (files' = Unlocked(p) \/ files' = files) /\ path' = path
    BY <1>5, Zenon DEF AcquireFails, DropClient, Crash, Killed, Refused, RemoveStale, Bind,
         HandBack, EnterSelect, RunReturns, Shutdown, DropListener, DropRuntime,
         TunnelUp, TunnelDown, Interrupt, AcceptFails, ListenerEnds, Notify, Join, shared
  <2> QED
    BY <1>4, <2>1, Zenon
<1>6. CASE Kill
  <2>1. cmd.pid \in Procs
    BY <1>6, Zenon DEF Kill, CmdInv
  <2>2. (files' = Unlocked(cmd.pid) \/ files' = files) /\ path' = path
    BY <1>6, Zenon DEF Kill, Killed
  <2>3. Same /\ path' = 1
    BY <1>4, <2>1, <2>2, Zenon
  <2> QED
    BY <2>3, Zenon
<1>7. CASE StartCommand \/ Connect \/ Answered \/ QueryFails \/ ReadPid \/ UNCHANGED vars
  BY <1>7, Zenon DEF StartCommand, Connect, Answered, QueryFails, ReadPid, vars, shared
<1> HIDE DEF Holding
<1> QED
  BY <1>1, <1>2, <1>3, <1>5, <1>6, <1>7, Zenon DEF Next, Startup, Teardown, Command

\* Every step leaves the holder's PID in its file, no device with a process that is
\* gone, and ezvpn_stop waiting for one that is not.
LEMMA ProcStep ==
  ASSUME LockInv, CmdInv, LockInv', ProcInv, [Next]_vars
  PROVE  ProcInv'
<1> USE DEF Holding, Claimed, Later, Down
<1> DEFINE Same == UNCHANGED <<kind, tun, handle>>
           Kept == /\ kind' \in [Procs -> {"cli", "ffi"}] /\ tun' \in [Procs -> BOOLEAN]
                   /\ handle' \in [Procs -> {"none", "open", "stopping", "stopped"}]
                   /\ platform' = "unix" => \A p \in Procs : kind'[p] = "cli"
                   /\ \A p \in Procs : tun'[p] => pc'[p] \in Later \ {"gone"}
                   /\ \A p \in Procs : handle'[p] = "stopped" => pc'[p] = "gone"
<1>1. ASSUME NEW p \in Procs, pc'[p] \in Claimed
      PROVE  files'[1].pid = p
  <2>1. path' = 1 /\ files'[1].holder = p
    BY <1>1, Zenon DEF LockInv
  <2>2. pc[p] \in Claimed \/ WritePid(p)
    BY <1>1, Forward, Zenon
  <2>0. pc[p] \in Holding
    BY <2>2, Zenon DEF WritePid, Go
  <2>3. path = 1
    BY <2>0, Zenon DEF LockInv
  <2>4. CASE files'[1].pid = files[1].pid
    <3>2. CASE pc[p] \in Claimed
      BY <2>4, <3>2, Zenon DEF ProcInv
    <3>3. CASE WritePid(p)
      <4>1. files' = [files EXCEPT ![1] = [holder |-> p, pid |-> p]]
        BY <3>3, Zenon DEF WritePid, Go, LockInv
      <4> QED
        BY <2>3, <4>1 DEF LockInv
    <3> QED
      BY <2>2, <3>2, <3>3, Zenon
  <2>5. ASSUME NEW q \in Procs, pc[q] \in {"locked", "empty"},
               \/ files'[1].pid = NoProc /\ pc'[q] = "empty"
               \/ files'[1].pid = q /\ pc'[q] = "claimed"
        PROVE  files'[1].pid = p
    BY <1>1, <2>0, <2>5, Zenon DEF LockInv
  <2> QED
    BY <2>3, <2>4, <2>5, FileSteps, Zenon
<1>2. CASE Same /\ UNCHANGED <<platform, pc>>
  BY <1>1, <1>2, Zenon DEF ProcInv
<1>3. ASSUME NEW p \in Procs, Open(p)
      PROVE  Kept
  BY <1>3 DEF Open, Go, Kinds, ProcInv, LockInv
<1>4. ASSUME NEW p \in Procs, NEW to, Same, platform' = platform, pc' = [pc EXCEPT ![p] = to],
             pc[p] # "gone", to \in Later \ {"gone"} \/ ~tun[p]
      PROVE  Kept
  BY <1>4 DEF ProcInv, LockInv
<1>5. ASSUME NEW p \in Procs,
             \/ TryLock(p) \/ Truncate(p) \/ WritePid(p) \/ Refused(p)
             \/ AcquireFails(p) \/ RemoveStale(p) \/ Bind(p) \/ EnterSelect(p)
             \/ RunReturns(p) \/ Shutdown(p) \/ DropListener(p) \/ DropClient(p)
      PROVE  Kept
  <2>1. PICK m \in {<<"opened", "locked">>, <<"opened", "gone">>,
                    <<"locked", "empty">>, <<"empty", "claimed">>, <<"locked", "gone">>,
                    <<"empty", "gone">>, <<"claimed", "cleared">>,
                    <<"cleared", "bound">>, <<"bound", "running">>,
                    <<"running", "unlisten">>, <<"unlisten", "unlock">>,
                    <<"unlock", "runtime">>} : Go(p, m[1], m[2])
    BY <1>5, Zenon DEF TryLock, Refused, Truncate, WritePid, AcquireFails, RemoveStale,
         Bind, EnterSelect, RunReturns, Shutdown, DropListener, DropClient
  <2>2. pc' = [pc EXCEPT ![p] = m[2]] /\ pc[p] # "gone"
        /\ (m[2] \in Later \ {"gone"} \/ ~tun[p])
    BY <2>1 DEF Go, ProcInv
  <2>3. Same /\ platform' = platform
    BY <1>5, Zenon DEF TryLock, Refused, Truncate, WritePid, AcquireFails, RemoveStale,
         Bind, EnterSelect, RunReturns, Shutdown, DropListener, DropClient
  <2> QED
    BY <1>4, <2>2, <2>3, Zenon
<1>6. ASSUME NEW p \in Procs, HandBack(p)
      PROVE  Kept
  BY <1>6 DEF HandBack, Go, ProcInv, LockInv
<1>7. ASSUME NEW p \in Procs, pc' = [pc EXCEPT ![p] = "gone"],
             tun' = [tun EXCEPT ![p] = FALSE], UNCHANGED <<platform, kind, handle>>
      PROVE  Kept
  BY <1>7 DEF ProcInv, LockInv
<1>8. ASSUME NEW p \in Procs, DropRuntime(p) \/ Crash(p)
      PROVE  Kept
  <2>1. /\ pc' = [pc EXCEPT ![p] = "gone"] /\ tun' = [tun EXCEPT ![p] = FALSE]
        /\ UNCHANGED <<platform, kind, handle>>
    BY <1>8, Zenon DEF DropRuntime, Crash, Killed, Go
  <2> QED
    BY <1>7, <2>1, Zenon
<1>9. ASSUME NEW p \in Procs, TunnelUp(p) \/ TunnelDown(p)
      PROVE  Kept
  <2>1. /\ pc[p] = "running" /\ UNCHANGED <<platform, pc, kind, handle>>
        /\ tun' = [tun EXCEPT ![p] = TRUE] \/ tun' = [tun EXCEPT ![p] = FALSE]
    BY <1>9, Zenon DEF TunnelUp, TunnelDown
  <2>2. tun' \in [Procs -> BOOLEAN]
    BY <2>1, Zenon DEF ProcInv
  <2>3. \A q \in Procs : q # p => tun'[q] = tun[q]
    BY <2>1, Zenon DEF ProcInv
  <2> QED
    BY <2>1, <2>2, <2>3, Zenon DEF ProcInv
<1>10. ASSUME NEW p \in Procs, Notify(p) \/ Join(p)
       PROVE  Kept
  BY <1>10 DEF Notify, Join, ProcInv, LockInv
<1>11. ASSUME NEW p \in Procs, Interrupt(p) \/ AcceptFails(p) \/ ListenerEnds(p)
       PROVE  Same /\ UNCHANGED <<platform, pc>>
  BY <1>11, Zenon DEF Interrupt, AcceptFails, ListenerEnds, proc
<1>12. CASE StartCommand \/ Connect \/ Answered \/ QueryFails \/ ReadPid \/ UNCHANGED vars
  BY <1>2, <1>12, Zenon DEF StartCommand, Connect, Answered, QueryFails, ReadPid, proc, vars
<1>13. ASSUME Kill
       PROVE  Kept
  <2>1. cmd.pid \in Procs
    BY <1>13, Zenon DEF Kill, CmdInv
  <2>2. CASE pc[cmd.pid] \in Unhandled
    BY <1>7, <1>13, <2>1, <2>2, Zenon DEF Kill, Killed
  <2>3. CASE pc[cmd.pid] \notin Unhandled
    BY <1>13, <2>3 DEF Kill, ProcInv
  <2> QED
    BY <2>2, <2>3, Zenon
<1> HIDE DEF Holding, Claimed, Later, Down, Same, Kept
<1>14. Kept => ProcInv'
  BY <1>1, Zenon DEF Kept, ProcInv
<1> QED
  BY <1>2, <1>3, <1>5, <1>6, <1>8, <1>9, <1>10, <1>11, <1>12, <1>13, <1>14, Zenon
     DEF Next, Startup, Teardown, Command

\* The socket of p, which holds the lock: nobody else's listener is found there.
LEMMA HolderServes ==
  ASSUME LockInv, LockInv', SockInv, NEW p \in Procs, pc[p] \in Holding, platform' = platform,
         \A q \in Procs : q # p => pc'[q] = pc[q],
         platform = "unix" /\ sock' = p /\ p \in listening' => pc'[p] \in Serving,
         platform = "unix" /\ pc'[p] = "unlisten" /\ p \notin deaf' =>
           sock' = p /\ p \in listening',
         sock' \in {sock, p, NoProc}, listening' \subseteq listening \cup {p}, NoProc \notin Procs
  PROVE  SockInv'
BY DEF SockInv, LockInv, Serving, Holding

\* Every step keeps the Unix socket with the holder's listener.
LEMMA SockStep ==
  ASSUME LockInv, CmdInv, ReachInv, ProcInv, SockInv, LockInv', [Next]_vars
  PROVE  SockInv'
<1> USE DEF Holding, Serving
<1>1. ASSUME NEW p \in Procs, NEW to, pc' = [pc EXCEPT ![p] = to],
             to \notin {"unlisten"}, platform' = platform,
             platform = "unix" => sock' = sock, listening' = listening \ {p} \/
               (listening' = listening /\ (pc[p] \notin Serving \/ to \in Serving)),
             deaf' = deaf
      PROVE  SockInv'
  BY <1>1 DEF SockInv, LockInv
<1>2. ASSUME NEW p \in Procs,
             \/ Open(p) \/ TryLock(p) \/ Refused(p) \/ Truncate(p) \/ WritePid(p)
             \/ AcquireFails(p) \/ HandBack(p) \/ EnterSelect(p)
             \/ DropClient(p) \/ DropRuntime(p) \/ Crash(p)
      PROVE  SockInv'
  <2>1. PICK m \in {<<"off", "opened">>, <<"opened", "locked">>, <<"opened", "gone">>,
                    <<"locked", "empty">>, <<"empty", "claimed">>, <<"locked", "gone">>,
                    <<"empty", "gone">>, <<"claimed", "bound">>, <<"bound", "running">>,
                    <<"unlock", "runtime">>, <<"runtime", "gone">>, <<pc[p], "gone">>} :
          /\ pc[p] = m[1] /\ pc' = [pc EXCEPT ![p] = m[2]]
          /\ m[1] \in Serving /\ m[2] \notin Serving => Crash(p)
    BY <1>2, Zenon DEF Open, TryLock, Refused, Truncate, WritePid, AcquireFails,
         HandBack, EnterSelect, DropClient, DropRuntime, Crash, Killed, Go
  <2>2. /\ platform' = platform /\ deaf' = deaf /\ (platform = "unix" => sock' = sock)
        /\ IF Crash(p) THEN listening' = listening \ {p} ELSE listening' = listening
    BY <1>2, Zenon DEF Open, TryLock, Refused, Truncate, WritePid, AcquireFails,
         HandBack, EnterSelect, DropClient, DropRuntime, Crash, Killed, shared
  <2> DEFINE to == m[2]
  <2>3. pc' = [pc EXCEPT ![p] = to] /\ to # "unlisten"
        /\ (~Crash(p) => pc[p] \notin Serving \/ to \in Serving)
    BY <2>1
  <2> HIDE DEF to
  <2> QED
    BY <1>1, <2>2, <2>3, Zenon
<1>3. ASSUME NEW p \in Procs, RemoveStale(p)
      PROVE  SockInv'
  BY <1>3, InstancesAssumption DEF RemoveStale, Go, SockInv, LockInv
<1>4. ASSUME NEW p \in Procs, Bind(p)
      PROVE  SockInv'
  <2>1. /\ pc[p] = "cleared" /\ pc'[p] = "bound" /\ platform' = platform
        /\ \A q \in Procs : q # p => pc'[q] = pc[q]
        /\ sock' \in {sock, p, NoProc} /\ listening' \subseteq listening \cup {p}
    BY <1>4, Zenon DEF Bind, Go, LockInv
  <2> QED
    BY <2>1, HolderServes, InstancesAssumption, Zenon
<1>5. ASSUME NEW p \in Procs, RunReturns(p) \/ Shutdown(p)
      PROVE  SockInv'
  <2>1. /\ pc[p] = "running" /\ pc'[p] = "unlisten" /\ UNCHANGED <<platform, shared, kind>>
        /\ \A q \in Procs : q # p => pc'[q] = pc[q]
    BY <1>5 DEF RunReturns, Shutdown, Go, LockInv
  <2>2. platform = "unix" /\ p \notin deaf' => sock' = p /\ p \in listening'
    BY <2>1, Zenon DEF shared, ReachInv, RunningReachable, ProcInv
  <2> QED
    BY <2>1, <2>2, HolderServes, InstancesAssumption, Zenon DEF shared
<1>6. ASSUME NEW p \in Procs, DropListener(p)
      PROVE  SockInv'
  <2>1. platform = "unix" => sock' = NoProc
    BY <1>6, Zenon DEF DropListener, ProcInv
  <2>2. /\ pc[p] = "unlisten" /\ pc'[p] = "unlock" /\ platform' = platform
        /\ \A q \in Procs : q # p => pc'[q] = pc[q]
        /\ sock' \in {sock, NoProc} /\ listening' = listening
    BY <1>6, Zenon DEF DropListener, Go, LockInv
  <2> QED
    BY <2>1, <2>2, HolderServes, InstancesAssumption, Zenon
<1>7. ASSUME NEW p \in Procs, AcceptFails(p)
      PROVE  SockInv'
  BY <1>7, Zenon DEF AcceptFails, proc, SockInv, LockInv
<1>8. ASSUME NEW p \in Procs, ListenerEnds(p)
      PROVE  SockInv'
  BY <1>8, Zenon DEF ListenerEnds, proc, SockInv, LockInv
<1>9. CASE UNCHANGED <<platform, shared, pc>>
  BY <1>9, Zenon DEF SockInv, shared
<1>10. ASSUME NEW p \in Procs,
              TunnelUp(p) \/ TunnelDown(p) \/ Interrupt(p) \/ Notify(p) \/ Join(p)
       PROVE  UNCHANGED <<platform, shared, pc>>
  BY <1>10, Zenon DEF TunnelUp, TunnelDown, Interrupt, Notify, Join
<1>11. CASE StartCommand \/ Connect \/ Answered \/ QueryFails \/ ReadPid \/ UNCHANGED vars
  BY <1>9, <1>11, Zenon DEF StartCommand, Connect, Answered, QueryFails, ReadPid, proc, vars
<1>12. CASE Kill
  <2>1. cmd.pid \in Procs
    BY <1>12, Zenon DEF Kill, CmdInv
  <2>2. CASE pc[cmd.pid] \in Unhandled
    BY <1>1, <1>12, <2>1, <2>2 DEF Kill, Killed
  <2>3. CASE pc[cmd.pid] \notin Unhandled
    BY <1>9, <1>12, <2>3, Zenon DEF Kill, shared
  <2> QED
    BY <2>2, <2>3, Zenon
<1> HIDE DEF Holding, Serving
<1> QED
  BY <1>2, <1>3, <1>4, <1>5, <1>6, <1>7, <1>8, <1>9, <1>10, <1>11, <1>12, Zenon
     DEF Next, Startup, Teardown, Command

\* Who holds the lock of the one lock file.
LEMMA HoldersAre ==
  ASSUME LockInv
  PROVE  /\ path = 0 => Holders = {}
         /\ path = 1 => Holders = {files[1].holder} \ {NoProc}
BY DEF LockInv, Holders

\* A step that leaves the command alone, or only lets it note who took the lock.
LEMMA StopKept ==
  ASSUME LockInv, CmdInv, LockInv', ProcInv, StopInv, [Next]_vars,
         \/ cmd' = cmd /\ \A p \in Procs : ~TryLock(p)
         \/ \E p \in Procs : TryLock(p)
  PROVE  StopInv'
<1>1. /\ deaf \subseteq deaf' /\ platform' = platform
      /\ \A q \in Procs : /\ pc[q] \in Past => pc'[q] \in Past
                          /\ pc[q] \in Later => pc'[q] \in Later
                          /\ pc[q] \in Down => pc'[q] \in Down
  BY Forward, Zenon
<1>2. /\ UNCHANGED <<cmd.op, cmd.at, cmd.pid, cmd.outcome>>
      /\ cmd.held \subseteq cmd'.held /\ cmd'.held \subseteq Procs
      /\ \A p \in Procs : TryLock(p) /\ Confirming => p \in cmd'.held
      /\ \A p \in cmd'.held : p \in cmd.held \/ TryLock(p)
      /\ Confirming' <=> Confirming
  <2>1. CASE cmd' = cmd /\ \A p \in Procs : ~TryLock(p)
    BY <2>1, Zenon DEF CmdInv, Confirming
  <2>2. ASSUME NEW p \in Procs, TryLock(p)
        PROVE  <1>2!:
    <3>1. cmd' = [cmd EXCEPT !.held = IF Confirming THEN @ \cup {p} ELSE @]
      BY <2>2, Zenon DEF TryLock
    <3>2. \A q \in Procs : TryLock(q) => q = p
      BY <2>2 DEF TryLock, Go, LockInv, Steps, Holding
    <3> QED
      BY <2>2, <3>1, <3>2, Zenon DEF CmdInv, Confirming
  <2> QED
    BY <2>1, <2>2, Zenon
<1>3. \A p \in cmd'.held : pc'[p] \in Past
  <2>1. \A p \in Procs : TryLock(p) => pc'[p] \in Past
    BY DEF TryLock, Go, LockInv, Past, Holding
  <2> QED
    BY <1>1, <1>2, <2>1, Zenon DEF StopInv, CmdInv
<1>4. ASSUME Confirming
      PROVE  /\ Holders' \subseteq cmd'.held /\ path' = 1
             /\ files'[1].pid # NoProc => files'[1].pid \in cmd'.held
  <2>1. /\ path = 1 /\ Holders = {files[1].holder} \ {NoProc} /\ Holders \subseteq cmd.held
        /\ files[1].pid # NoProc => files[1].pid \in cmd.held
    BY <1>4, HoldersAre, Zenon DEF StopInv
  <2>2. path' = 1 /\ Holders' = {files'[1].holder} \ {NoProc}
    <3>1. path' = 1
      BY <2>1, FileSteps, Zenon
    <3>2. LockInv' => (path' = 1 => Holders' = {files'[1].holder} \ {NoProc})
      BY DEF LockInv, Holders
    <3> QED
      BY <3>1, <3>2, Zenon
  <2>3. Holders' \subseteq cmd'.held
    BY <1>2, <1>4, <2>1, <2>2, FileSteps, Zenon
  <2>4. ASSUME NEW p \in Procs, pc[p] \in {"locked", "empty"}
        PROVE  p \in cmd.held
    <3>1. files[1].holder = p
      BY <2>4, Zenon DEF LockInv, Holding
    <3> QED
      BY <2>1, <3>1, InstancesAssumption, Zenon
  <2>5. files'[1].pid # NoProc => files'[1].pid \in cmd'.held
    BY <1>2, <2>1, <2>4, FileSteps, Zenon
  <2> QED
    BY <2>2, <2>3, <2>5, Zenon
<1>5. cmd'.at \in {"connect", "reading"} /\ cmd'.pid # NoProc =>
        cmd'.op = "stop" /\ pc'[cmd'.pid] \in Later
  BY <1>1, <1>2, Zenon DEF StopInv, CmdInv
<1>6. cmd'.outcome = "stopped" =>
        /\ cmd'.at = "idle"
        /\ cmd'.pid \in Procs /\ (pc'[cmd'.pid] \in Down \/ cmd'.pid \in deaf')
  BY <1>1, <1>2, Zenon DEF StopInv
<1> QED
  BY <1>1, <1>2, <1>3, <1>4, <1>5, <1>6, Zenon DEF StopInv, StopSpares

\* A command that ends remembers at most whom it stopped.
LEMMA StopFinishes ==
  ASSUME CmdInv, NEW outcome, Finish(outcome),
         outcome = "stopped" =>
           cmd.pid \in Procs /\ (pc'[cmd.pid] \in Down \/ cmd.pid \in deaf')
  PROVE  StopInv'
<1>1. /\ cmd'.op = "none" /\ cmd'.at = "idle" /\ cmd'.held = {} /\ cmd'.outcome = outcome
      /\ cmd'.pid = IF outcome = "stopped" THEN cmd.pid ELSE NoProc
  BY Zenon DEF Finish, Idle
<1> QED
  BY <1>1, Zenon DEF StopInv, StopSpares, Confirming

\* Every step of a command keeps what it knows: the socket that answered belongs to
\* the holder of the lock, whose PID the file holds; and once the client it
\* signalled no longer answers, that client has taken its listener down.
LEMMA StopStep ==
  ASSUME LockInv, CmdInv, ReachInv, ProcInv, SockInv, StopInv, LockInv', [Next]_vars
  PROVE  StopInv'
<1>1. CASE StartCommand
  <2>1. PICK op \in {"stop", "probe"} :
          /\ cmd' = [Idle EXCEPT !.op = op, !.at = "connect"]
          /\ op = "stop" => platform = "unix"
    BY <1>1, Zenon DEF StartCommand
  <2>2. cmd' = [op |-> op, at |-> "connect", conn |-> NoProc, pid |-> NoProc,
                polls |-> 0, held |-> {}, outcome |-> "none"]
    BY <2>1, Zenon DEF Idle
  <2>3. /\ cmd'.op = op /\ cmd'.at = "connect" /\ cmd'.pid = NoProc /\ cmd'.held = {}
        /\ cmd'.outcome = "none" /\ platform' = platform
    BY <1>1, <2>2, Zenon DEF StartCommand
  <2> QED
    BY <2>1, <2>3, Zenon DEF StopInv, StopSpares, Confirming
<1>2. CASE Connect /\ sock # NoProc /\ sock \in listening
  <2> DEFINE first == cmd.op = "stop" /\ cmd.pid = NoProc
  <2>1. /\ cmd' = [cmd EXCEPT !.at = "reading", !.conn = sock,
                     !.held = IF first THEN Holders ELSE {}]
        /\ cmd.at = "connect" /\ UNCHANGED <<platform, path, files, pc, deaf>>
    BY <1>2, Zenon DEF Connect, shared, proc
  <2>2. first => /\ path = 1 /\ Holders = {sock} /\ files[1].pid = sock
                 /\ pc[sock] \in Past
    <3> SUFFICES ASSUME first PROVE <2>2!2
      BY Zenon
    <3>1. sock \in Procs /\ platform = "unix"
      BY <1>2, Zenon DEF CmdInv, StopInv
    <3>2. pc[sock] \in Serving
      BY <1>2, <3>1, Zenon DEF SockInv
    <3>3. path = 1 /\ files[1].holder = sock /\ files[1].pid = sock
      BY <3>1, <3>2, Zenon DEF LockInv, ProcInv, Serving, Claimed, Holding
    <3> QED
      BY <3>1, <3>2, <3>3, HoldersAre, InstancesAssumption, Zenon DEF Serving, Past, Holding
  <2>3. /\ cmd'.op = cmd.op /\ cmd'.at = "reading" /\ cmd'.pid = cmd.pid
        /\ cmd'.outcome = cmd.outcome /\ cmd'.held = IF first THEN Holders ELSE {}
    BY <2>1, Zenon DEF CmdInv
  <2>4. Holders' = Holders
    BY <2>1, Zenon DEF Holders
  <2>5. Confirming' => first
    BY <2>3, Zenon DEF Confirming
  <2> HIDE DEF first
  <2> QED
    BY <2>1, <2>2, <2>3, <2>4, <2>5 DEF StopInv, StopSpares
<1>3. CASE Connect /\ ~(sock # NoProc /\ sock \in listening)
  <2>1. /\ Finish(IF cmd.pid = NoProc THEN "not_running" ELSE "stopped")
        /\ cmd.at = "connect" /\ UNCHANGED <<pc, deaf>>
    BY <1>3, Zenon DEF Connect, shared, proc
  <2>2. ASSUME cmd.pid # NoProc
        PROVE  cmd.pid \in Procs /\ (pc'[cmd.pid] \in Down \/ cmd.pid \in deaf')
    <3>1. cmd.pid \in Procs /\ platform = "unix" /\ pc[cmd.pid] \in Later
      BY <2>1, <2>2, Zenon DEF CmdInv, StopInv
    <3>2. kind[cmd.pid] = "cli"
      BY <3>1, Zenon DEF ProcInv
    <3>3. CASE pc[cmd.pid] \in {"running", "unlisten"} /\ cmd.pid \notin deaf
      BY <1>3, <3>1, <3>2, <3>3, InstancesAssumption, Zenon
         DEF ReachInv, RunningReachable, SockInv
    <3> QED
      BY <2>1, <3>1, <3>3, Zenon DEF Later
  <2> QED
    BY <2>1, <2>2, StopFinishes, Zenon
<1>4. CASE Answered
  <2>1. UNCHANGED <<platform, path, files, pc, deaf>> /\ cmd.at = "reading"
    BY <1>4, Zenon DEF Answered, shared, proc
  <2>2. Holders' = Holders
    BY <2>1, Zenon DEF Holders
  <2>3. CASE cmd.op = "stop" /\ cmd.pid = NoProc /\ cmd' = [cmd EXCEPT !.at = "pid"]
    <3>1. /\ cmd'.op = cmd.op /\ cmd'.at = "pid" /\ cmd'.pid = cmd.pid
          /\ cmd'.outcome = cmd.outcome /\ cmd'.held = cmd.held
      BY <2>3, Zenon DEF CmdInv
    <3> QED
      BY <2>1, <2>2, <2>3, <3>1, Zenon DEF StopInv, StopSpares, Confirming
  <2>4. CASE cmd' = [cmd EXCEPT !.at = "connect", !.polls = @ + 1]
    <3>1. /\ cmd'.op = cmd.op /\ cmd'.at = "connect" /\ cmd'.pid = cmd.pid
          /\ cmd'.outcome = cmd.outcome /\ cmd'.held = cmd.held
      BY <2>4, Zenon DEF CmdInv
    <3> QED
      BY <2>1, <2>2, <3>1, Zenon DEF StopInv, StopSpares, Confirming
  <2>5. CASE Finish("running") \/ Finish("signal_sent")
    BY <2>5, StopFinishes, Zenon
  <2> QED
    BY <1>4, <2>3, <2>4, <2>5, Zenon DEF Answered
<1>5. CASE QueryFails
  BY <1>5, StopFinishes, Zenon DEF QueryFails
<1>6. CASE ReadPid
  <2>1. UNCHANGED <<platform, pc, deaf>> /\ cmd.at = "pid"
    BY <1>6, Zenon DEF ReadPid, shared, proc
  <2>2. CASE cmd' = [cmd EXCEPT !.at = "kill", !.pid = files[path].pid]
             /\ files[path].pid # NoProc
    <3>1. Confirming
      BY <2>1, Zenon DEF StopInv, Confirming
    <3>2. path = 1 /\ files[1].pid \in cmd.held
      BY <2>2, <3>1, Zenon DEF StopInv
    <3>3. /\ cmd'.op = cmd.op /\ cmd'.at = "kill" /\ cmd'.pid = files[1].pid
          /\ cmd'.outcome = cmd.outcome /\ cmd'.held = cmd.held
      BY <2>2, <3>2, Zenon DEF CmdInv
    <3>4. cmd.outcome # "stopped"
      BY <2>1, Zenon DEF StopInv
    <3> QED
      BY <2>1, <3>1, <3>2, <3>3, <3>4, Zenon DEF StopInv, StopSpares, Confirming
  <2> QED
    BY <1>6, <2>2, StopFinishes, Zenon DEF ReadPid
<1>7. CASE Kill
  <2>1. /\ cmd.pid \in Procs /\ cmd.at = "kill" /\ pc[cmd.pid] \in Past
        /\ platform' = platform
    BY <1>7, Zenon DEF Kill, CmdInv, StopInv, StopSpares
  <2>2. CASE pc[cmd.pid] # "gone" /\ cmd' = [cmd EXCEPT !.at = "connect", !.held = {}]
    <3>1. /\ cmd'.op = cmd.op /\ cmd'.at = "connect" /\ cmd'.pid = cmd.pid
          /\ cmd'.outcome = cmd.outcome /\ cmd'.held = {}
      BY <2>2, Zenon DEF CmdInv
    <3>2. pc'[cmd.pid] \in Later
      BY <1>7, <2>1 DEF Kill, Killed, Unhandled, Past, Later, Down, Holding, LockInv
    <3>3. cmd.op = "stop"
      BY <2>1, Zenon DEF StopInv
    <3>4. cmd.outcome # "stopped"
      BY <2>1, Zenon DEF StopInv
    <3> QED
      BY <2>1, <3>1, <3>2, <3>3, <3>4, Zenon DEF StopInv, StopSpares, Confirming
  <2> QED
    BY <1>7, <2>2, StopFinishes, Zenon DEF Kill
<1>8. CASE \E p \in Procs : TryLock(p)
  BY <1>8, StopKept, Zenon
<1>9. CASE cmd' = cmd /\ ~\E p \in Procs : TryLock(p)
  BY <1>9, StopKept, Zenon
<1>10. ASSUME NEW p \in Procs,
              \/ Open(p) \/ Refused(p) \/ Truncate(p) \/ WritePid(p) \/ AcquireFails(p)
              \/ RemoveStale(p) \/ Bind(p) \/ HandBack(p) \/ EnterSelect(p)
              \/ Teardown(p) \/ Crash(p) \/ AcceptFails(p) \/ TunnelUp(p)
              \/ TunnelDown(p) \/ RunReturns(p) \/ Interrupt(p) \/ Notify(p)
              \/ Join(p)
       PROVE  cmd' = cmd
  BY <1>10, Zenon DEF Open, Refused, Truncate, WritePid, AcquireFails, RemoveStale, Bind,
       HandBack, EnterSelect, Teardown, Shutdown, DropListener, DropClient,
       ListenerEnds, DropRuntime, Crash, AcceptFails, TunnelUp, TunnelDown,
       RunReturns, Interrupt, Notify, Join
<1>11. CASE UNCHANGED vars
  BY <1>8, <1>9, <1>11, Zenon DEF vars
<1> QED
  BY <1>1, <1>2, <1>3, <1>4, <1>5, <1>6, <1>7, <1>8, <1>9, <1>10, <1>11, Zenon
     DEF Next, Startup, Command

-----------------------------------------------------------------------------
(* The theorems about stopping. *)

StoppingInv == Inv /\ ProcInv /\ SockInv /\ StopInv

\* Processes, socket and command are always as the proofs about stopping expect.
LEMMA StoppingHolds == Spec => []StoppingInv
<1>1. Init => StoppingInv
  <2> SUFFICES ASSUME Init PROVE StoppingInv
    OBVIOUS
  <2>1. LockInv /\ CmdInv /\ ReachInv
    <3>1. LockInv
      BY DEF Init, LockInv, Steps, Holding
    <3>2. CmdInv
      BY DEF Init, CmdInv, Idle, Outcomes
    <3>3. ReachInv
      BY DEF Init, ReachInv, RunningReachable
    <3> QED
      BY <3>1, <3>2, <3>3, Zenon
  <2>2. ProcInv
    <3>1. tun \in [Procs -> BOOLEAN] /\ \A p \in Procs : ~tun[p]
      BY Zenon DEF Init
    <3> QED
      BY <3>1, Zenon DEF Init, ProcInv, Claimed, Holding
  <2>3. SockInv
    BY Zenon DEF Init, SockInv
  <2>4. StopInv
    BY Zenon DEF Init, StopInv, StopSpares, Confirming, Idle
  <2> QED
    BY <2>1, <2>2, <2>3, <2>4, Zenon DEF StoppingInv, Inv
<1>2. StoppingInv /\ [Next]_vars => StoppingInv'
  <2> SUFFICES ASSUME StoppingInv, [Next]_vars PROVE StoppingInv'
    BY Zenon
  <2>1. LockInv' /\ CmdInv' /\ ReachInv'
    BY LockStep, CmdStep, ReachStep, Zenon DEF StoppingInv, Inv
  <2>2. ProcInv' /\ SockInv' /\ StopInv'
    BY <2>1, ProcStep, SockStep, StopStep, Zenon DEF StoppingInv, Inv
  <2> QED
    BY <2>1, <2>2, Zenon DEF StoppingInv, Inv
<1> QED
  BY <1>1, <1>2, PTL DEF Spec

\* For any number of processes, starting, stopping and crashing in any order,
\* stop_client (main.rs) signals only a client that held the lock at some time since
\* the socket answered.
THEOREM StopAlwaysSpares == Spec => []StopSpares
<1>1. StoppingInv => StopSpares
  BY Zenon DEF StoppingInv, StopInv
<1> QED
  BY <1>1, StoppingHolds, PTL

\* For any number of processes, "Client stopped." is only printed when the signalled
\* client no longer has its listener, and ezvpn_stop (ffi_windows.rs) returns only
\* when the worker has neither the lock nor the device.
THEOREM StoppedAlwaysDown == Spec => []StoppedMeansDown
<1>1. StoppingInv => StoppedMeansDown
  <2> SUFFICES ASSUME StoppingInv PROVE StoppedMeansDown
    BY Zenon
  <2>1. ASSUME NEW p \in Procs, handle[p] = "stopped"
        PROVE  ~tun[p] /\ \A i \in DOMAIN files : files[i].holder # p
    <3>1. pc[p] = "gone"
      BY <2>1, Zenon DEF StoppingInv, ProcInv
    <3>2. \A i \in DOMAIN files : i = 1 /\ path = 1
      BY DEF StoppingInv, Inv, LockInv
    <3> QED
      BY <3>1, <3>2, Zenon DEF StoppingInv, Inv, LockInv, ProcInv, Holding
  <2> QED
    BY <2>1, Zenon DEF StoppingInv, StopInv, StoppedMeansDown, Down
<1> QED
  BY <1>1, StoppingHolds, PTL

-----------------------------------------------------------------------------
(* The session behind a mobile handle. *)

Events == {"RECONNECTING", "RECONNECTED"} \cup Final

\* The session the app believes in: on the connection of the cell, under the
\* parameters the interface has.
Current == link = [conn |-> cell, params |-> applied]

\* The lock is held exactly during a callback, and the flag is only set under it.
QuietInv ==
  /\ stopped <=> app \in {"stopped", "returned"}
  /\ locked <=> task = "callback"
  /\ stopped => task # "callback"

\* What the task knows at each of its steps, and what the app was told before.
ViewInv ==
  /\ link \in [conn : Nat \cup {Null}, params : Config \cup {Null}] /\ conns \in Nat
  /\ app \in {"new", "connected"} => task = "none"
  /\ task = "none" => heard = Null
  /\ app = "connected" => Current
  /\ task \in {"none", "device", "tunnel", "report", "callback", "backoff", "establish",
               "compare", "ended"}
  /\ task \in {"report", "callback"} => event \in Events
  /\ ~stopped =>
       /\ task \in {"device", "tunnel"} => Current /\ heard \in {Null, "RECONNECTED"}
       /\ task \in {"report", "callback"} /\ event = "RECONNECTED" => Current
       /\ task = "callback" => heard = event
       /\ task \in {"backoff", "establish", "compare"} => heard = "RECONNECTING"
       /\ task = "ended" => heard \in Final

\* A callback begins and ends with the lock, and stop sets the flag without one.
LEMMA QuietStep ==
  ASSUME QuietInv, ViewInv, [SessionNext]_sessionVars
  PROVE  QuietInv'
<1>1. CASE connect_inner \/ run \/ stop
  <2>1. /\ UNCHANGED <<stopped, locked>> /\ app \notin {"stopped", "returned"}
        /\ app' \notin {"stopped", "returned"}
    BY <1>1, Zenon DEF connect_inner, run, stop
  <2>2. task' = "callback" <=> task = "callback"
    BY <1>1, Zenon DEF connect_inner, run, stop, ViewInv
  <2> QED
    BY <2>1, <2>2, Zenon DEF QuietInv
<1>2. CASE Silence
  BY <1>2, Zenon DEF Silence, QuietInv
<1>3. CASE StopDone
  BY <1>3, Zenon DEF StopDone, QuietInv
<1>4. ASSUME task # "callback", task' # "callback", UNCHANGED <<app, stopped, locked>>
      PROVE  QuietInv'
  BY <1>4, Zenon DEF QuietInv
<1>5. CASE OpenDevice \/ TunnelEnds \/ BackoffEnds \/ establish \/ Compare
  BY <1>4, <1>5, Zenon DEF OpenDevice, TunnelEnds, BackoffEnds, establish, Compare, Report
<1>6. CASE Call
  BY <1>6, Zenon DEF Call, QuietInv
<1>7. CASE CallSilenced
  <2>1. task' # "callback"
    BY <1>7, Zenon DEF CallSilenced, After, ViewInv, Events, Final
  <2> QED
    BY <1>4, <1>7, <2>1, Zenon DEF CallSilenced
<1>8. CASE CallReturns
  <2>1. task' # "callback"
    BY <1>8, Zenon DEF CallReturns, After, ViewInv, Events, Final
  <2> QED
    BY <1>8, <2>1, Zenon DEF CallReturns, QuietInv
<1>9. CASE Aborted
  BY <1>4, <1>9, Zenon DEF Aborted
<1>10. CASE CloseEndpoint \/ ReplyChanges \/ ServerCloses \/ SessionDone \/ UNCHANGED sessionVars
  BY <1>10 DEF CloseEndpoint, ReplyChanges, ServerCloses, SessionDone, sessionVars, QuietInv
<1> QED
  BY <1>1, <1>2, <1>3, <1>5, <1>6, <1>7, <1>8, <1>9, <1>10, Zenon DEF SessionNext, Task

\* Every step of the task leaves the app with the right picture, or with a report
\* on its way to it.
LEMMA ViewStep ==
  ASSUME QuietInv, ViewInv, [SessionNext]_sessionVars
  PROVE  ViewInv'
<1> USE DEF Events, Final
<1>1. CASE connect_inner
  BY <1>1, Zenon DEF connect_inner, ViewInv, Current
<1>2. CASE run \/ stop
  BY <1>2, Zenon DEF run, stop, ViewInv, Current, QuietInv
<1>3. CASE Silence \/ StopDone
  BY <1>3, Zenon DEF Silence, StopDone, ViewInv, Current, QuietInv
<1>4. CASE OpenDevice
  BY <1>4, Zenon DEF OpenDevice, Report, ViewInv, Current
<1>5. CASE TunnelEnds
  BY <1>5, Zenon DEF TunnelEnds, Report, NoLink, ViewInv, Current
<1>6. CASE BackoffEnds
  BY <1>6, Zenon DEF BackoffEnds, ViewInv, Current
<1>7. CASE establish
  BY <1>7 DEF establish, Report, ViewInv, Current
<1>8. CASE Compare
  BY <1>8 DEF Compare, Report, NoLink, ViewInv, Current
<1>9. CASE Call
  BY <1>9, Zenon DEF Call, ViewInv, Current
<1>10. CASE CallSilenced
  BY <1>10, Zenon DEF CallSilenced, After, ViewInv, Current
<1>11. CASE CallReturns
  BY <1>11, Zenon DEF CallReturns, After, ViewInv, Current
<1>12. CASE Aborted
  BY <1>12, Zenon DEF Aborted, ViewInv, Current, QuietInv
<1>13. CASE CloseEndpoint \/ ReplyChanges \/ ServerCloses \/ SessionDone \/ UNCHANGED sessionVars
  BY <1>13, Zenon
     DEF CloseEndpoint, ReplyChanges, ServerCloses, SessionDone, sessionVars, ViewInv, Current
<1> QED
  BY <1>1, <1>2, <1>3, <1>4, <1>5, <1>6, <1>7, <1>8, <1>9, <1>10, <1>11, <1>12, <1>13, Zenon
     DEF SessionNext, Task

SessionInv == QuietInv /\ ViewInv

\* Lock, flag, task and what the app heard are always as the proofs expect them.
LEMMA SessionHolds == SessionSpec => []SessionInv
<1>1. SessionInit => SessionInv
  BY DEF SessionInit, SessionInv, QuietInv, ViewInv, NoLink
<1>2. SessionInv /\ [SessionNext]_sessionVars => SessionInv'
  BY QuietStep, ViewStep, Zenon DEF SessionInv
<1> QED
  BY <1>1, <1>2, PTL DEF SessionSpec

\* For any parameters and any number of reconnects, no callback runs once
\* ezvpn_stop has set the flag (EzvpnHandle::stop in ffi.rs).
THEOREM AlwaysSilentAfterStop == SessionSpec => []SilentAfterStop
<1>1. SessionInv => SilentAfterStop
  BY Zenon DEF SessionInv, QuietInv, SilentAfterStop
<1> QED
  BY <1>1, SessionHolds, PTL

\* For any parameters and any number of reconnects, until the handle is stopped the
\* last event the app heard tells the state of the session, and traffic flows on the
\* connection and under the parameters it knows (MobileSession::run in mobile.rs).
THEOREM AppViewAlwaysHonest == SessionSpec => []AppViewHonest
<1>1. SessionInv => AppViewHonest
  BY Zenon DEF SessionInv, ViewInv, AppViewHonest, Current
<1> QED
  BY <1>1, SessionHolds, PTL
=============================================================================
