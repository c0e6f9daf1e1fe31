---------------------------- MODULE DatagramPath ----------------------------
(***************************************************************************)
(* Packets on their way from the server's TUN device to one client: a       *)
(* producer prepares datagrams and pushes them on the client's              *)
(* byte-budgeted queue (ClientDatagramQueue, tunnel/server.rs); the         *)
(* client's writer drains it in batches and hands each batch to QUIC        *)
(* (send_datagram_batch, tunnel/stream.rs), releasing the charge only then. *)
(* The connection (external) has a bounded send buffer, a path MTU that may *)
(* change between preparing a datagram and sending it, and may be lost.     *)
(*                                                                          *)
(* A datagram is its length and a serial number; a packet is the sequence   *)
(* of lengths it is segmented into.  Both ends enable datagrams, so there   *)
(* always is a max_datagram_size.                                           *)
(***************************************************************************)
EXTENDS Naturals, Sequences, FiniteSetsExt

CONSTANTS
  Producers,     \* holders of a ClientDatagramQueue (the code has one)
  Packets,       \* segment lengths of the packets the TUN may yield
  CLIENT_QUEUE_BYTES, QUEUED_DATAGRAM_OVERHEAD, WRITE_BATCH_SIZE,
  Mtus,          \* the values max_datagram_size may take
  SendBuffer,    \* datagrams the QUIC send buffer holds
  MaxPackets     \* bound: packets read from the TUN in one behaviour

ASSUME PathAssumption ==
  /\ IsFiniteSet(Producers) /\ Packets \subseteq Seq(Nat) /\ Mtus \subseteq Nat
  /\ CLIENT_QUEUE_BYTES \in Nat /\ QUEUED_DATAGRAM_OVERHEAD \in Nat
  /\ WRITE_BATCH_SIZE \in Nat \ {0} /\ SendBuffer \in Nat /\ MaxPackets \in Nat

VARIABLES
  queue,         \* the unbounded channel
  queued_bytes,  \* AtomicUsize shared by producers and writer
  prod,          \* each producer: step, pending datagrams, datagram in hand
  writer,        \* the writer's step
  batch, rest,   \* the batch in hand and its part not yet dealt with
  stats,         \* datagrams by fate
  sent,          \* serial numbers handed to QUIC, in order
  read,          \* packets read so far (bound)
  serial,        \* next serial number
  mtu, space, up \* the connection

vars == <<queue, queued_bytes, prod, writer, batch, rest, stats, sent, read,
          serial, mtu, space, up>>
conn == <<mtu, space, up>>

Cost(d) == d.len + QUEUED_DATAGRAM_OVERHEAD
Charge(s) ==
  LET upto[n \in 0..Len(s)] == IF n = 0 THEN 0 ELSE upto[n - 1] + Cost(s[n])
  IN  upto[Len(s)]

Fates == {"sent", "too_large", "other", "full", "closed"}

Init ==
  /\ queue = <<>> /\ queued_bytes = 0
  /\ prod = [p \in Producers |-> [at |-> "idle", pending |-> <<>>]]
  /\ writer = "recv" /\ batch = <<>> /\ rest = <<>>
  /\ stats = [f \in Fates |-> 0] /\ sent = <<>>
  /\ read = 0 /\ serial = 1
  /\ mtu \in Mtus /\ space = SendBuffer /\ up = TRUE

Count(fate, n) == stats' = [stats EXCEPT ![fate] = @ + n]

-----------------------------------------------------------------------------
(* The producer: prepare_ip_datagrams, then try_push for each datagram. *)

Numbered(lens) ==
  [i \in 1..Len(lens) |-> [len |-> lens[i], id |-> serial + i - 1]]

\* Those of s that are not above the current MTU.
Fitting(s) ==
  LET upto[n \in 0..Len(s)] ==
        IF n = 0 THEN <<>>
        ELSE IF s[n].len <= mtu THEN Append(upto[n - 1], s[n]) ELSE upto[n - 1]
  IN  upto[Len(s)]

\* One packet is read and segmented; datagrams above the current MTU are dropped.
Prepare(p) ==
  /\ prod[p].at = "idle" /\ read < MaxPackets
  /\ \E lens \in Packets :
       LET all == Numbered(lens)
           fitting == Fitting(all)
       IN /\ prod' = [prod EXCEPT ![p] =
                        [at |-> IF fitting = <<>> THEN "idle" ELSE "reserve",
                         pending |-> fitting]]
          /\ Count("too_large", Len(all) - Len(fitting))
          /\ serial' = serial + Len(lens)
  /\ read' = read + 1
  /\ UNCHANGED <<queue, queued_bytes, writer, batch, rest, sent, conn>>

\* A super-frame that cannot be segmented is dropped whole and counted once.
Malformed(p) ==
  /\ prod[p].at = "idle" /\ read < MaxPackets
  /\ Count("other", 1)
  /\ serial' = serial + 1 /\ read' = read + 1
  /\ UNCHANGED <<queue, queued_bytes, prod, writer, batch, rest, sent, conn>>

\* The push of the first pending datagram is over; `stop` drops the rest.
Pushed(p, stop) ==
  LET left == IF stop THEN <<>> ELSE Tail(prod[p].pending)
  IN prod' = [prod EXCEPT ![p] = [at |-> IF left = <<>> THEN "idle" ELSE "reserve",
                                  pending |-> left]]

\* fetch_add, then compare.
Reserve(p) ==
  LET d == Head(prod[p].pending)
  IN /\ prod[p].at = "reserve"
     /\ queued_bytes' = queued_bytes + Cost(d)
     /\ prod' = [prod EXCEPT ![p].at =
                   IF queued_bytes + Cost(d) > CLIENT_QUEUE_BYTES
                   THEN "full" ELSE "send"]
     /\ UNCHANGED <<queue, writer, batch, rest, stats, sent, read, serial, conn>>

\* Full: give the reservation back, drop this datagram, go on with the next.
GiveBackFull(p) ==
  /\ prod[p].at = "full"
  /\ queued_bytes' = queued_bytes - Cost(Head(prod[p].pending))
  /\ Pushed(p, FALSE)
  /\ Count("full", 1)
  /\ UNCHANGED <<queue, writer, batch, rest, sent, read, serial, conn>>

Send(p) ==
  /\ prod[p].at = "send"
  /\ IF writer # "stopped"
     THEN /\ queue' = Append(queue, Head(prod[p].pending))
          /\ Pushed(p, FALSE)
     ELSE /\ prod' = [prod EXCEPT ![p].at = "closed"]
          /\ UNCHANGED queue
  /\ UNCHANGED <<queued_bytes, writer, batch, rest, stats, sent, read, serial, conn>>

\* Closed: give back, and drop what is left of the packet (the code keeps no
\* count of these; the fate "closed" is history).
GiveBackClosed(p) ==
  /\ prod[p].at = "closed"
  /\ queued_bytes' = queued_bytes - Cost(Head(prod[p].pending))
  /\ Pushed(p, TRUE)
  /\ Count("closed", Len(prod[p].pending))
  /\ UNCHANGED <<queue, writer, batch, rest, sent, read, serial, conn>>

Producer(p) == Prepare(p) \/ Malformed(p) \/ Reserve(p) \/ GiveBackFull(p)
               \/ Send(p) \/ GiveBackClosed(p)

-----------------------------------------------------------------------------
(* The writer: recv_many, send_datagram_batch, release. *)

\* A slip: a full queue yields its newest datagrams first.
RecvManyNewest ==
  /\ writer = "recv" /\ queue # <<>>
  /\ LET n == Min({Len(queue), WRITE_BATCH_SIZE})
     IN /\ batch' = SubSeq(queue, Len(queue) - n + 1, Len(queue))
        /\ rest' = batch'
        /\ queue' = SubSeq(queue, 1, Len(queue) - n)
  /\ writer' = "try"
  /\ UNCHANGED <<queued_bytes, prod, stats, sent, read, serial, conn>>

RecvMany ==
  /\ writer = "recv" /\ queue # <<>>
  /\ LET n == Min({Len(queue), WRITE_BATCH_SIZE})
     IN /\ batch' = SubSeq(queue, 1, n)
        /\ rest' = batch'
        /\ queue' = SubSeq(queue, n + 1, Len(queue))
  /\ writer' = "try"
  /\ UNCHANGED <<queued_bytes, prod, stats, sent, read, serial, conn>>

Ids(s) == [i \in 1..Len(s) |-> s[i].id]

\* The first n of rest are handed to QUIC.
HandOver(n) ==
  /\ sent' = sent \o Ids(SubSeq(rest, 1, n))
  /\ rest' = SubSeq(rest, n + 1, Len(rest))
  /\ Count("sent", n)
  /\ space' = space - n

TooLong(s) == \E i \in 1..Len(s) : s[i].len > mtu

\* try_send_many_datagrams(rest): the longest prefix the send buffer holds; an
\* oversized datagram rejects them all; Ok(0) means wait for the first alone.
TrySendMany ==
  /\ writer = "try" /\ rest # <<>> /\ up
  /\ \/ /\ TooLong(rest)
        /\ writer' = "one_by_one"
        /\ UNCHANGED <<rest, stats, sent, space>>
     \/ /\ ~TooLong(rest) /\ space = 0
        /\ writer' = "wait_first"
        /\ UNCHANGED <<rest, stats, sent, space>>
     \/ /\ ~TooLong(rest) /\ space > 0
        /\ HandOver(Min({Len(rest), space}))
        /\ UNCHANGED writer
  /\ UNCHANGED <<queue, queued_bytes, prod, batch, read, serial, mtu, up>>

\* A slip: the one-by-one fallback gives up on the first oversized datagram.
SendWaitGivesUp ==
  /\ writer \in {"wait_first", "one_by_one"} /\ rest # <<>> /\ up
  /\ \/ Head(rest).len > mtu /\ rest' = <<>> /\ Count("too_large", 1)
        /\ UNCHANGED <<sent, space>>
     \/ Head(rest).len <= mtu /\ space > 0 /\ HandOver(1)
  /\ writer' = IF writer = "wait_first" THEN "try" ELSE writer
  /\ UNCHANGED <<queue, queued_bytes, prod, batch, read, serial, mtu, up>>

\* A slip: an oversized datagram is waited for like any other.
SendWaitForRoom ==
  /\ writer \in {"wait_first", "one_by_one"} /\ rest # <<>> /\ up
  /\ Head(rest).len <= mtu /\ space > 0 /\ HandOver(1)
  /\ writer' = IF writer = "wait_first" THEN "try" ELSE writer
  /\ UNCHANGED <<queue, queued_bytes, prod, batch, read, serial, mtu, up>>

\* send_datagram_wait on the first of rest: room, or TooLarge drops just it.
SendWait ==
  /\ writer \in {"wait_first", "one_by_one"} /\ rest # <<>> /\ up
  /\ \/ /\ Head(rest).len > mtu
        /\ rest' = Tail(rest)
        /\ Count("too_large", 1)
        /\ UNCHANGED <<sent, space>>
     \/ Head(rest).len <= mtu /\ space > 0 /\ HandOver(1)
  /\ writer' = IF writer = "wait_first" THEN "try" ELSE writer
  /\ UNCHANGED <<queue, queued_bytes, prod, batch, read, serial, mtu, up>>

\* Any other error: the remainder is counted and the batch ends early.
SendFails ==
  /\ writer \in {"try", "wait_first", "one_by_one"} /\ rest # <<>> /\ ~up
  /\ rest' = <<>>
  /\ Count("other", Len(rest))
  /\ writer' = "failed"
  /\ UNCHANGED <<queue, queued_bytes, prod, batch, sent, read, serial, conn>>

\* A slip: the charge is returned only when the batch was sent.
ReleaseOnlyOnSuccess ==
  /\ \/ writer \in {"try", "one_by_one"} /\ rest = <<>> /\ writer' = "recv"
        /\ queued_bytes' = queued_bytes - Charge(batch)
     \/ writer = "failed" /\ writer' = "stopped" /\ UNCHANGED queued_bytes
  /\ batch' = <<>>
  /\ UNCHANGED <<queue, prod, rest, stats, sent, read, serial, conn>>

\* The batch is dealt with: release its charge, then go on or, after an error, end.
Release ==
  /\ \/ writer \in {"try", "one_by_one"} /\ rest = <<>> /\ writer' = "recv"
     \/ writer = "failed" /\ writer' = "stopped"
  /\ queued_bytes' = queued_bytes - Charge(batch)
  /\ batch' = <<>>
  /\ UNCHANGED <<queue, prod, rest, stats, sent, read, serial, conn>>

\* The session ended: the task is aborted where it awaits, its batch dropped.
Abort ==
  /\ writer \in {"recv", "wait_first", "one_by_one"}
  /\ writer' = "stopped"
  /\ UNCHANGED <<queue, queued_bytes, prod, batch, rest, stats, sent, read,
                 serial, conn>>

Writer == RecvMany \/ TrySendMany \/ SendWait \/ SendFails \/ Release

-----------------------------------------------------------------------------
(* The connection, external. *)

Transmit ==
  /\ up /\ space < SendBuffer
  /\ space' = space + 1
  /\ UNCHANGED <<queue, queued_bytes, prod, writer, batch, rest, stats, sent,
                 read, serial, mtu, up>>

PathMtuChanges ==
  /\ up /\ \E m \in Mtus \ {mtu} : mtu' = m
  /\ UNCHANGED <<queue, queued_bytes, prod, writer, batch, rest, stats, sent,
                 read, serial, space, up>>

ConnectionLost ==
  /\ up /\ up' = FALSE
  /\ UNCHANGED <<queue, queued_bytes, prod, writer, batch, rest, stats, sent,
                 read, serial, mtu, space>>

Connection == Transmit \/ PathMtuChanges \/ ConnectionLost

Next == Writer \/ Abort \/ Connection \/ \E p \in Producers : Producer(p)

\* Tasks run when they can; a connection that has datagrams to send sends them
\* or is lost (its idle timeout is 30 s).
Fairness == /\ WF_vars(Writer)
            /\ WF_vars(space < SendBuffer /\ (Transmit \/ ConnectionLost))
            /\ \A p \in Producers : WF_vars(Reserve(p) \/ GiveBackFull(p)
                                            \/ Send(p) \/ GiveBackClosed(p))

Spec == Init /\ [][Next]_vars /\ Fairness

-----------------------------------------------------------------------------
(* Properties. *)

InHand(p) == IF prod[p].at \in {"full", "send", "closed"}
             THEN Cost(Head(prod[p].pending)) ELSE 0

\* queued_bytes is exactly the charge of what is queued, of the batch in hand
\* and of the reservations in flight: no path of try_push, of a failed or an
\* oversized send, or of release charges or returns anything twice or never.
\* And the datagrams actually held, the batch in hand included, never exceed the
\* budget, although the counter overshoots while a reservation is given back.
ChargeExact ==
  /\ queued_bytes = Charge(queue) + Charge(batch)
                    + SumFunction([p \in Producers |-> InHand(p)])
  /\ Charge(queue) + Charge(batch) <= CLIENT_QUEUE_BYTES

\* "Counts every datagram in outcome": each datagram is still pending, queued or
\* in the batch, or met exactly one fate, on every error path.
EveryDatagramCounted ==
  serial - 1 = Len(queue) + Len(rest)
               + SumFunction([p \in Producers |-> Len(prod[p].pending)])
               + SumFunction(stats)

\* Datagrams are handed to QUIC in the order the TUN yielded them, across
\* backpressure, MTU changes and the one-by-one fallback.
InOrder == \A i, j \in 1..Len(sent) : i < j => sent[i] < sent[j]

\* The writer never hangs on a batch: backpressure ends, or the connection does.
BatchEnds == batch # <<>> ~> batch = <<>> \/ writer = "stopped"
=============================================================================
