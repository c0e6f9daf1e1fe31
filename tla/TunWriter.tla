----------------------------- MODULE TunWriter ------------------------------
(***************************************************************************)
(* Packets on their way from one host to another: read from the TUN device  *)
(* of the one, split into datagrams, enqueued at the other for its TUN      *)
(* writer task, and written in coalesced batches (tunnel/server.rs: run,    *)
(* enqueue_tun_write; tunnel/client.rs: run_tunnel; net/device.rs:          *)
(* TunWriter::write_batch).                                                 *)
(*                                                                          *)
(* Datagrams are lost and overtake each other.  A byte is <<flow, offset>>, *)
(* its place in the stream it belongs to.                                   *)
(***************************************************************************)
EXTENDS TcpOffload

CONSTANTS
  Setups,           \* the instances: sets of values for setup
  TUN_CHANNEL_SIZE, \* requests the writer's channel holds
  WRITE_BATCH_SIZE,
  MAX_TUN_WRITE_FAILURES, \* the client's limit
  Byte              \* the bytes of the streams

\* A frame the device yields is an IP packet: its length fits the header's field.
ASSUME SetupAssumption ==
  /\ SEQ \in Nat \ {0} /\ {HEADER, LENMAX, TUN_CHANNEL_SIZE} \subseteq Nat
  /\ WRITE_BATCH_SIZE \in Nat \ {0}
  /\ \A s \in Setups : \A f \in s.frames :
       /\ f.seq \in 0..(SEQ - 1) /\ f.gso_size \in Nat /\ f.data \in Seq(Byte)
       /\ {f.tcp, f.psh, f.fin, f.bad} \subseteq BOOLEAN
       /\ HEADER + Len(f.data) <= LENMAX

VARIABLES
  setup,        \* constant: frames, what the sending host may hand to its device;
                \*   offload_enabled, the writing device takes super-frames;
                \*   client, the writer is the client's and gives up
  unsent,       \* frames not read yet
  net,          \* datagrams under way
  chan,         \* the writer's channel
  batch, groups,  \* what the writer drained, and the groups still to write
  host,         \* what the receiving host's stack has got, in order
  open,         \* some sender of the channel is left
  writer,       \* "running", "failed", "exited"
  consecutive,  \* consecutive_tun_failures
  stats,        \* [from_clients, tun_write_failed]
  dropped       \* history: packets a failed write took with it

vars == <<setup, unsent, net, chan, batch, groups, host, open, writer, consecutive,
          stats, dropped>>

Init ==
  /\ setup \in Setups /\ unsent = setup.frames /\ net = {} /\ chan = <<>> /\ batch = <<>> /\ groups = <<>>
  /\ host = <<>> /\ open = TRUE /\ writer = "running" /\ consecutive = 0
  /\ stats = [from_clients |-> 0, tun_write_failed |-> 0] /\ dropped = 0

\* The sender reads a frame and sends each packet of it as a datagram.
ReadFrame ==
  /\ \E f \in unsent :
       /\ unsent' = unsent \ {f}
       /\ net' = net \cup Range(materialize_offload_into(f))
  /\ UNCHANGED <<setup, chan, batch, groups, host, open, writer, consecutive,
                 stats, dropped>>

Lose ==
  /\ \E p \in net : net' = net \ {p}
  /\ UNCHANGED <<setup, unsent, chan, batch, groups, host, open, writer,
                 consecutive,
                 stats, dropped>>

\* enqueue_tun_write and enqueue_inbound_tun_write: wait while the channel is
\* full; when the writer is gone (the client's gave up) the inbound task ends.
Enqueue ==
  /\ open
  /\ \E p \in net :
       /\ net' = net \ {p}
       /\ \/ /\ writer = "running" /\ Len(chan) < TUN_CHANNEL_SIZE
             /\ chan' = Append(chan, p)
             /\ stats' = [stats EXCEPT !.from_clients = @ + 1] /\ UNCHANGED open
          \/ /\ writer # "running"
             /\ open' = FALSE /\ UNCHANGED <<chan, stats>>
  /\ UNCHANGED <<setup, unsent, batch, groups, host, writer, consecutive,
                 dropped>>

Singles(b) == [i \in 1..Len(b) |-> [start |-> i, end |-> i + 1, coalesce |-> FALSE]]

\* recv_many, and the plan of write_batch.
RecvMany ==
  /\ writer = "running" /\ groups = <<>> /\ chan # <<>>
  /\ LET n == Min({Len(chan), WRITE_BATCH_SIZE})
     IN  /\ batch' = SubSeq(chan, 1, n)
         /\ chan' = SubSeq(chan, n + 1, Len(chan))
  /\ groups' = IF setup.offload_enabled THEN plan_tun_write_groups(batch') ELSE Singles(batch')
  /\ UNCHANGED <<setup, unsent, net, host, open, writer, consecutive, stats,
                 dropped>>

\* One write.  The kernel segments a super-frame the way the code does.  The
\* write that ends a batch without a failure resets the client's count.
WriteGroup ==
  /\ writer = "running" /\ groups # <<>>
  /\ host' = host \o materialize_offload_into(FrameOf(batch, Head(groups)))
  /\ groups' = Tail(groups)
  /\ consecutive' = IF groups' = <<>> THEN 0 ELSE consecutive
  /\ UNCHANGED <<setup, unsent, net, chan, batch, open, writer, stats, dropped>>

\* A failed write takes the rest of its batch with it.  The server counts one
\* failure and goes on; the client gives up after too many batches in a row.
WriteFails ==
  /\ writer = "running" /\ groups # <<>>
  /\ groups' = <<>>
  /\ dropped' = dropped + Len(batch) + 1 - Head(groups).start
  /\ \/ /\ ~setup.client
        /\ stats' = [stats EXCEPT !.tun_write_failed = @ + 1]
        /\ UNCHANGED <<consecutive, writer>>
     \/ /\ setup.client
        /\ consecutive' = consecutive + 1
        /\ writer' = IF consecutive' >= MAX_TUN_WRITE_FAILURES THEN "failed" ELSE writer
        /\ UNCHANGED stats
  /\ UNCHANGED <<setup, unsent, net, chan, batch, host, open>>

\* The endpoint or the connection closed: the last sender is dropped.
SendersGone ==
  /\ open
  /\ open' = FALSE
  /\ UNCHANGED <<setup, unsent, net, chan, batch, groups, host, writer,
                 consecutive,
                 stats, dropped>>

\* A slip: the writer does not wait for the channel to be drained.
WriterExitsEarly ==
  /\ writer = "running" /\ groups = <<>> /\ ~open
  /\ writer' = "exited"
  /\ UNCHANGED <<setup, unsent, net, chan, batch, groups, host, open,
                 consecutive,
                 stats, dropped>>

\* A slip: the writer waits until everything counted has been written.
WriterExitsAllWritten ==
  /\ writer = "running" /\ groups = <<>> /\ ~open /\ chan = <<>>
  /\ stats.from_clients = Len(host)
  /\ writer' = "exited"
  /\ UNCHANGED <<setup, unsent, net, chan, batch, groups, host, open,
                 consecutive,
                 stats, dropped>>

\* recv_many returns 0: no sender, nothing left.
WriterExits ==
  /\ writer = "running" /\ groups = <<>> /\ ~open /\ chan = <<>>
  /\ writer' = "exited"
  /\ UNCHANGED <<setup, unsent, net, chan, batch, groups, host, open,
                 consecutive,
                 stats, dropped>>

Done == ~open /\ UNCHANGED vars

Next ==
  \/ ReadFrame \/ Lose \/ Enqueue \/ RecvMany \/ WriteGroup \/ WriteFails
  \/ SendersGone \/ WriterExits \/ Done

\* The writer's task is polled when it has work, and a write ends.
Fairness == WF_vars(RecvMany \/ WriteGroup \/ WriteFails \/ WriterExits)

Spec == Init /\ [][Next]_vars /\ Fairness

-----------------------------------------------------------------------------
(* Properties. *)

\* p is one of the pieces of frame f, counted from 0; a FIN is on the last.
PieceOf(p, f) ==
  LET g == IF f.gso_size = 0 THEN Len(f.data) ELSE f.gso_size IN
  \E k \in {n \in 0..Len(f.data) : n = 0 \/ n * g < Len(f.data)} :
    /\ p.flow = f.flow /\ p.seq = (f.seq + k * g) % SEQ
    /\ p.data = SubSeq(f.data, k * g + 1, Min({(k + 1) * g, Len(f.data)}))
    /\ p.fin => f.fin /\ (k + 1) * g >= Len(f.data)

\* What the receiving kernel cuts out of a merged frame are again the packets
\* that the sending side cut out of the frame it had read, none of them longer,
\* shorter or shifted; only PSH may have moved.  A FIN is on the last of them
\* only: it never overtakes data, in one packet or by being repeated.  And no
\* frame is longer than the length field of its IP header can say.
SegmentsSurvive ==
  /\ \A i \in 1..Len(host) : \E f \in setup.frames : PieceOf(host[i], f)
  /\ \A i \in 1..Len(groups) : HEADER + Len(FrameOf(batch, groups[i]).data) <= LENMAX

\* "Wait for TUN writer to drain any remaining packets and exit": when it has
\* exited, everything that was enqueued was written, or went with a write that
\* failed.
DrainedOnExit ==
  writer = "exited" => stats.from_clients = Len(host) + dropped

\* Once the last sender is gone the writer's task ends, so shutting down does
\* not hang.
WriterEnds == ~open ~> writer # "running"
=============================================================================
