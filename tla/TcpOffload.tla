----------------------------- MODULE TcpOffload -----------------------------
(***************************************************************************)
(* Segmentation and coalescing of TCP on the TUN device (tunnel/offload.rs).*)
(*                                                                          *)
(* A packet is [flow, seq, data, tcp, psh, fin]: flow stands for all header *)
(* fields can_chain compares, data is the sequence of its payload bytes,    *)
(* tcp says that it is a TCP segment without the flags and header forms     *)
(* that rule coalescing out (FIN apart, which has its field).  A frame read *)
(* from or written to the device is a packet with its gso_size, 0 when the  *)
(* virtio header asks for no segmentation, and bad when the header and the  *)
(* packet disagree.  Checksums and lengths follow from the rest and are     *)
(* left out, except the limit on a length.                                  *)
(***************************************************************************)
EXTENDS Naturals, Sequences, FiniteSetsExt

CONSTANTS
  SEQ,       \* sequence numbers are taken modulo SEQ (2^32)
  HEADER,    \* length of the IP and TCP headers
  LENMAX     \* the largest IP length (u16::MAX)

-----------------------------------------------------------------------------
(* Reading: a super-frame becomes plain packets. *)

AsPacket(f) ==
  [flow |-> f.flow, seq |-> f.seq, data |-> f.data, tcp |-> f.tcp,
   psh |-> f.psh, fin |-> f.fin]

\* Chunks of gso_size bytes, numbered on; FIN and PSH only on the last.
segment_tcp_gso_into(f) ==
  LET n == (Len(f.data) + f.gso_size - 1) \div f.gso_size
  IN  IF Len(f.data) <= f.gso_size THEN <<AsPacket(f)>>
      ELSE [i \in 1..n |->
              LET off == (i - 1) * f.gso_size
              IN  [AsPacket(f) EXCEPT
                     !.seq = (f.seq + off) % SEQ,
                     !.data = SubSeq(f.data, off + 1, Min({off + f.gso_size, Len(f.data)})),
                     !.psh = f.psh /\ i = n,
                     !.fin = f.fin /\ i = n]]

\* What one frame of the device becomes; a malformed one nothing.
materialize_offload_into(f) ==
  CASE f.bad -> <<>>
    [] ~f.bad /\ f.gso_size = 0 -> <<AsPacket(f)>>
    [] OTHER -> segment_tcp_gso_into(f)

-----------------------------------------------------------------------------
(* Writing: runs of segments become super-frames. *)

parse_coalescible_tcp(p) == p.tcp /\ ~p.fin /\ p.data # <<>>

\* Same flow, and b follows a without a gap.
can_chain(a, b) ==
  /\ a.flow = b.flow
  /\ b.seq = (a.seq + Len(a.data)) % SEQ

\* The payload of packets i to j.
Bytes(batch, i, j) ==
  LET upto[n \in 0..(j - i + 1)] ==
        IF n = 0 THEN 0 ELSE upto[n - 1] + Len(batch[i + n - 1].data)
  IN  upto[j - i + 1]

\* A slip: a shorter member does not close the run.
ExtendsPastShort(batch, i, j) ==
  /\ parse_coalescible_tcp(batch[j])
  /\ Len(batch[j].data) <= Len(batch[i].data)
  /\ HEADER + Bytes(batch, i, j) <= LENMAX
  /\ can_chain(batch[j - 1], batch[j])

\* Packet j joins the run that began at i and has reached j - 1: it is no longer
\* than the first, and all before it are as long as the first.
Extends(batch, i, j) ==
  /\ parse_coalescible_tcp(batch[j])
  /\ Len(batch[j].data) <= Len(batch[i].data)
  /\ HEADER + Bytes(batch, i, j) <= LENMAX
  /\ can_chain(batch[j - 1], batch[j])
  /\ Len(batch[j - 1].data) = Len(batch[i].data)

\* The index after the run that begins at i.
RunEnd(batch, i) ==
  IF ~parse_coalescible_tcp(batch[i]) THEN i + 1
  ELSE Max({e \in (i + 1)..(Len(batch) + 1) :
              \A j \in (i + 1)..(e - 1) : Extends(batch, i, j)})

\* The groups of a batch, in order: [start, end, coalesce], end exclusive.
plan_tun_write_groups(batch) ==
  LET from[i \in 1..(Len(batch) + 1)] ==
        IF i > Len(batch) THEN <<>>
        ELSE LET e == RunEnd(batch, i)
             IN  <<[start |-> i, end |-> e, coalesce |-> e - i >= 2]>> \o from[e]
  IN  from[1]

\* The sequences of ds, one after the other.
Joined(ds) ==
  LET upto[n \in 0..Len(ds)] == IF n = 0 THEN <<>> ELSE upto[n - 1] \o ds[n]
  IN  upto[Len(ds)]

\* The header of the first segment over the payloads of all.
assemble_tcp_gso_superframe(segments) ==
  [flow |-> segments[1].flow, seq |-> segments[1].seq,
   data |-> Joined([i \in 1..Len(segments) |-> segments[i].data]),
   tcp |-> TRUE, psh |-> segments[1].psh, fin |-> FALSE,
   gso_size |-> Len(segments[1].data), bad |-> FALSE]

Plain(p) ==
  [flow |-> p.flow, seq |-> p.seq, data |-> p.data, tcp |-> p.tcp,
   psh |-> p.psh, fin |-> p.fin, gso_size |-> 0, bad |-> FALSE]

\* The frame that is written for a group.
FrameOf(batch, g) ==
  IF g.coalesce THEN assemble_tcp_gso_superframe(SubSeq(batch, g.start, g.end - 1))
  ELSE Plain(batch[g.start])
=============================================================================
