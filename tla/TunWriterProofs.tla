--------------------------- MODULE TunWriterProofs --------------------------
(***************************************************************************)
(* Proofs about TunWriter: packets survive being coalesced and cut again    *)
(* (SegmentsAlwaysSurvive), and a writer that has exited has dealt with all *)
(* that was enqueued (AlwaysDrainedOnExit), for any frames, batch size,     *)
(* channel size and modulus of the sequence numbers that SetupAssumption    *)
(* allows.                                                                  *)
(*                                                                          *)
(* Both rest on one invariant, TunInv: every packet under way, queued,      *)
(* drained or written is a piece of a frame that was sent; the groups still *)
(* to write are good ones and cover the rest of the batch without a gap;    *)
(* and the count of enqueued packets is what was written, dropped, queued   *)
(* and left.  That a write keeps it is a fact about the algorithms of       *)
(* offload.rs: the super-frame of a good group is cut into as many packets  *)
(* as the group has, with the same flow, number and payload.                *)
(***************************************************************************)
EXTENDS TunWriter, ProofFacts

-----------------------------------------------------------------------------
(* The invariant. *)

\* The packets that can be cut out of the frames F.
Packet(F) ==
  [flow : {f.flow : f \in F}, seq : 0..(SEQ - 1), data : Seq(Byte),
   tcp : BOOLEAN, psh : BOOLEAN, fin : BOOLEAN]

Piece(F) ==
  {p \in Packet(F) : HEADER + Len(p.data) <= LENMAX /\ \E f \in F : PieceOf(p, f)}

Group == [start : Nat \ {0}, end : Nat \ {0}, coalesce : BOOLEAN]

\* A group is a packet of the batch, or a run of packets each of which extends it.
GoodGroup(b, g) ==
  /\ g.start < g.end /\ g.end <= Len(b) + 1
  /\ ~g.coalesce => g.end = g.start + 1
  /\ g.coalesce => /\ g.end >= g.start + 2
                   /\ parse_coalescible_tcp(b[g.start])
                   /\ \A j \in (g.start + 1)..(g.end - 1) : Extends(b, g.start, j)

\* The groups are good and follow each other to the end of the batch.
Plan(b, gs) ==
  \A i \in 1..Len(gs) :
    /\ GoodGroup(b, gs[i])
    /\ gs[i].end = IF i = Len(gs) THEN Len(b) + 1 ELSE gs[i + 1].start

TunType ==
  /\ setup \in Setups /\ unsent \subseteq setup.frames
  /\ net \subseteq Piece(setup.frames)
  /\ chan \in Seq(Piece(setup.frames)) /\ batch \in Seq(Piece(setup.frames))
  /\ host \in Seq(Piece(setup.frames))
  /\ groups \in Seq(Group) /\ Plan(batch, groups)
  /\ stats \in [from_clients : Nat, tun_write_failed : Nat] /\ dropped \in Nat

\* The packets of the batch that are not written yet.
Left == IF groups = <<>> THEN 0 ELSE Len(batch) + 1 - groups[1].start

Counted ==
  /\ stats.from_clients = Len(host) + dropped + Len(chan) + Left
  /\ writer = "exited" => groups = <<>> /\ chan = <<>> /\ ~open

TunInv == TunType /\ Counted

-----------------------------------------------------------------------------
(* Arithmetic. *)

\* A quotient, from below and above.
LEMMA Quotient ==
  ASSUME NEW S \in Nat \ {0}, NEW a \in Nat
  PROVE  a \div S \in Nat /\ (a \div S) * S <= a /\ a < (a \div S) * S + S
OBVIOUS

\* A number is its remainder and a multiple.
LEMMA RemainderIs ==
  ASSUME NEW S \in Nat \ {0}, NEW k \in Nat, NEW r \in 0..(S - 1)
  PROVE  (k * S + r) % S = r
OBVIOUS

\* Every number is.
LEMMA Remainder ==
  ASSUME NEW S \in Nat \ {0}, NEW a \in Nat
  PROVE  \E k \in Nat : a % S \in 0..(S - 1) /\ a = k * S + (a % S)
<1> DEFINE k == a \div S
           r == a - k * S
<1>1. k \in Nat /\ k * S <= a /\ a < k * S + S
  BY Quotient, Zenon
<1> HIDE DEF k
<1>2. k * S \in Nat
  BY <1>1
<1>3. r \in 0..(S - 1) /\ a = k * S + r
  BY <1>1, <1>2
<1> HIDE DEF r
<1>4. a % S = r
  BY <1>1, <1>3, RemainderIs, Zenon
<1> QED
  BY <1>1, <1>3, <1>4, Zenon

\* A remainder may be taken before or after adding.
LEMMA RemainderAdd ==
  ASSUME NEW S \in Nat \ {0}, NEW a \in Nat, NEW b \in Nat
  PROVE  ((a % S) + b) % S = (a + b) % S
<1> DEFINE r == a % S
           t == (r + b) % S
<1>1. PICK q \in Nat : r \in 0..(S - 1) /\ a = q * S + r
  BY Remainder, Zenon
<1> HIDE DEF r
<1>2. PICK p \in Nat : t \in 0..(S - 1) /\ r + b = p * S + t
  <2>1. r + b \in Nat
    BY <1>1
  <2> QED
    BY <2>1, Remainder, Zenon
<1> HIDE DEF t
<1>3. a + b = (q + p) * S + t /\ q + p \in Nat
  BY <1>1, <1>2
<1>4. (a + b) % S = t
  BY <1>2, <1>3, RemainderIs, Zenon
<1> QED
  BY <1>4, Zenon DEF t, r

\* The number of pieces of g that L is cut into.
LEMMA PiecesOf ==
  ASSUME NEW g \in Nat \ {0}, NEW L \in Nat, L > 0
  PROVE  LET n == (L + g - 1) \div g IN n \in Nat /\ n * g >= L /\ (n - 1) * g < L
OBVIOUS

\* c pieces, all but the last of length g.
LEMMA PiecesAre ==
  ASSUME NEW g \in Nat \ {0}, NEW c \in Nat \ {0}, NEW x \in 1..g
  PROVE  ((c - 1) * g + x + g - 1) \div g = c
OBVIOUS

\* A set of naturals below a bound that is not empty has a greatest element.
LEMMA MaxIs ==
  ASSUME NEW b \in Nat, NEW T, T \subseteq 0..b, T # {}
  PROVE  Max(T) \in T
<1> DEFINE U == {b - x : x \in T}
<1>1. U \subseteq Nat /\ U # {}
  <2>1. ASSUME NEW x \in T PROVE b - x \in Nat
    <3>1. x \in 0..b
      BY Zenon
    <3> QED
      BY <3>1
  <2>2. PICK x \in T : TRUE
    BY Zenon
  <2>3. b - x \in U
    BY Zenon
  <2> QED
    BY <2>1, <2>3, Zenon
<1>2. PICK y \in U : \A z \in U : y <= z
  BY <1>1, LeastExists, Zenon
<1>3. PICK x \in T : y = b - x
  BY <1>2, Zenon
<1>4. ASSUME NEW z \in T PROVE x >= z
  <2>1. b - z \in U
    BY Zenon
  <2>2. b - x <= b - z
    BY <1>2, <1>3, <2>1, Zenon
  <2>3. x \in 0..b /\ z \in 0..b
    BY Zenon
  <2> QED
    BY <2>2, <2>3
<1>5. \E m \in T : \A z \in T : m >= z
  BY <1>4, Zenon
<1> QED
  BY <1>5, Zenon DEF Max

-----------------------------------------------------------------------------
(* Cutting a frame that is read. *)

\* What SetupAssumption says of one frame.
GoodFrame(f) ==
  /\ f.seq \in 0..(SEQ - 1) /\ f.gso_size \in Nat /\ f.data \in Seq(Byte)
  /\ {f.tcp, f.psh, f.fin, f.bad} \subseteq BOOLEAN
  /\ HEADER + Len(f.data) <= LENMAX

\* The quotient g of PieceOf, and a packet that is piece k.
PieceSize(f) == IF f.gso_size = 0 THEN Len(f.data) ELSE f.gso_size

PieceNumber(p, f, g, k) ==
  /\ k \in 0..Len(f.data) /\ (k = 0 \/ k * g < Len(f.data))
  /\ p.flow = f.flow /\ p.seq = (f.seq + k * g) % SEQ
  /\ p.data = SubSeq(f.data, k * g + 1, Min({(k + 1) * g, Len(f.data)}))
  /\ p.fin => f.fin /\ (k + 1) * g >= Len(f.data)

\* Multiples of the size of a piece.
LEMMA Multiple ==
  ASSUME NEW k \in Nat, NEW g \in Nat
  PROVE  k * g \in Nat /\ (k + 1) * g \in Nat /\ (k + 1) * g = k * g + g
OBVIOUS

\* d is what follows the first a elements of s, up to the m-th.
Stretch(d, s, a, m) ==
  /\ d \in Seq(Byte) /\ Len(d) = IF a <= m THEN m - a ELSE 0
  /\ \A i \in 1..Len(d) : d[i] = s[a + i]

\* A part of a sequence.
LEMMA StretchIs ==
  ASSUME NEW s \in Seq(Byte), NEW a \in Nat, NEW m \in Nat, m <= Len(s)
  PROVE  Stretch(SubSeq(s, a + 1, m), s, a, m)
<1>1. CASE a + 1 <= m
  <2>1. a + 1 \in 1..Len(s) /\ m \in 1..Len(s)
    BY <1>1
  <2>2. SubSeq(s, a + 1, m) \in Seq(Byte) /\ Len(SubSeq(s, a + 1, m)) = m - a
    BY <1>1, <2>1
  <2> QED
    BY <1>1, <2>1, <2>2 DEF Stretch
<1>2. CASE ~(a + 1 <= m)
  <2>1. SubSeq(s, a + 1, m) = <<>>
    BY <1>2
  <2>2. a <= m => m - a = 0
    BY <1>2
  <2> QED
    BY <1>2, <2>1, <2>2 DEF Stretch
<1> QED
  BY <1>1, <1>2, Zenon

\* A packet with the contents of piece k of a frame is a piece of it.
LEMMA PieceAt ==
  ASSUME NEW F, NEW f \in F, GoodFrame(f), NEW k, NEW p,
         PieceNumber(p, f, PieceSize(f), k),
         p = [flow |-> p.flow, seq |-> p.seq, data |-> p.data, tcp |-> p.tcp,
              psh |-> p.psh, fin |-> p.fin],
         {p.tcp, p.psh, p.fin} \subseteq BOOLEAN
  PROVE  p \in Piece(F)
<1> DEFINE L == Len(f.data)
           g == PieceSize(f)
           a == k * g
           m == Min({(k + 1) * g, L})
<1>1. L \in Nat /\ g \in Nat /\ f.data \in Seq(Byte) /\ HEADER + L <= LENMAX /\ f.seq \in Nat
  BY DEF GoodFrame, PieceSize
<1>2. k \in Nat /\ p.data = SubSeq(f.data, a + 1, m) /\ p.flow = f.flow
      /\ p.seq = (f.seq + a) % SEQ
  BY DEF PieceNumber
<1> HIDE DEF g
<1>3. a \in Nat /\ (k + 1) * g \in Nat
  BY <1>1, <1>2, Multiple, Zenon
<1>4. m \in Nat /\ m <= L
  <2> DEFINE b == (k + 1) * g
  <2>1. b \in Nat
    BY <1>3, Zenon
  <2> HIDE DEF b, L
  <2>2. Min({b, L}) \in Nat /\ Min({b, L}) = IF b <= L THEN b ELSE L
    BY <1>1, <2>1, MinIs, Zenon
  <2> QED
    BY <1>1, <2>1, <2>2 DEF b
<1> HIDE DEF m, a
<1>5. p.data \in Seq(Byte) /\ Len(p.data) \in Nat /\ Len(p.data) <= L
  <2> DEFINE d == SubSeq(f.data, a + 1, m)
  <2>0. Stretch(d, f.data, a, m)
    BY <1>1, <1>3, <1>4, StretchIs, Zenon
  <2> HIDE DEF d
  <2>1. d \in Seq(Byte) /\ Len(d) \in Nat /\ Len(d) = IF a <= m THEN m - a ELSE 0
    BY <2>0 DEF Stretch
  <2>2. Len(d) <= L
    <3> HIDE DEF L
    <3> QED
      BY <1>1, <1>3, <1>4, <2>1
  <2> QED
    BY <1>2, <2>1, <2>2, Zenon DEF d
<1>6. HEADER + Len(p.data) <= LENMAX
  <2> HIDE DEF L
  <2> QED
    BY <1>1, <1>5, SetupAssumption
<1>7. p.seq \in 0..(SEQ - 1)
  <2>1. SEQ \in Nat \ {0} /\ f.seq + a \in Nat
    BY <1>1, <1>3, SetupAssumption
  <2>2. (f.seq + a) % SEQ \in 0..(SEQ - 1)
    BY <2>1, Remainder, Zenon
  <2> QED
    BY <1>2, <2>2, Zenon
<1>8. p \in Packet(F)
  <2>1. p.flow \in {h.flow : h \in F}
    BY <1>2, Zenon
  <2> QED
    BY <1>5, <1>7, <2>1, Zenon DEF Packet
<1>9. PieceOf(p, f)
  <2> DEFINE K == {n \in 0..Len(f.data) : n = 0 \/ n * g < Len(f.data)}
  <2>1. k \in K
    BY Zenon DEF PieceNumber, g
  <2>2. /\ p.flow = f.flow /\ p.seq = (f.seq + k * g) % SEQ
        /\ p.data = SubSeq(f.data, k * g + 1, Min({(k + 1) * g, Len(f.data)}))
        /\ p.fin => f.fin /\ (k + 1) * g >= Len(f.data)
    BY Zenon DEF PieceNumber, g
  <2> QED
    BY <2>1, <2>2, Zenon DEF PieceOf, PieceSize, g
<1> QED
  BY <1>6, <1>8, <1>9, Zenon DEF Piece

\* A frame that is no longer than a piece is one.
LEMMA WholeFrame ==
  ASSUME NEW F, NEW f \in F, GoodFrame(f), PieceSize(f) >= Len(f.data)
  PROVE  AsPacket(f) \in Piece(F)
<1> DEFINE p == AsPacket(f)
           g == PieceSize(f)
           L == Len(f.data)
<1>1. L \in Nat /\ g \in Nat /\ f.data \in Seq(Byte) /\ f.seq \in 0..(SEQ - 1)
      /\ {f.tcp, f.psh, f.fin} \subseteq BOOLEAN
  BY DEF GoodFrame, PieceSize
<1>2. /\ p.flow = f.flow /\ p.seq = f.seq /\ p.data = f.data /\ p.tcp = f.tcp
      /\ p.psh = f.psh /\ p.fin = f.fin
      /\ p = [flow |-> p.flow, seq |-> p.seq, data |-> p.data, tcp |-> p.tcp,
              psh |-> p.psh, fin |-> p.fin]
  BY Zenon DEF AsPacket
<1>3. PieceNumber(p, f, g, 0)
  <2>1. g >= L
    BY Zenon
  <2> HIDE DEF p, g
  <2>2. 0 * g = 0 /\ (0 + 1) * g = g
    BY <1>1
  <2>3. p.seq = (f.seq + 0 * g) % SEQ
    <3>1. (0 * SEQ + f.seq) % SEQ = f.seq
      BY <1>1, SetupAssumption, RemainderIs, Zenon
    <3>2. 0 * SEQ + f.seq = f.seq + 0 * g
      BY <1>1, <2>2, SetupAssumption
    <3> QED
      BY <1>2, <3>1, <3>2, Zenon
  <2>4. Min({(0 + 1) * g, L}) = L
    <3> HIDE DEF L
    <3> QED
      BY <1>1, <2>1, <2>2, MinIs
  <2>5. p.data = SubSeq(f.data, 0 * g + 1, L)
    BY <1>1, <1>2, <2>2
  <2>6. 0 \in 0..Len(f.data) /\ (0 + 1) * g >= L
    BY <1>1, <2>1, <2>2
  <2>7. p.data = SubSeq(f.data, 0 * g + 1, Min({(0 + 1) * g, L}))
    BY <2>4, <2>5, Zenon
  <2>8. p.fin => f.fin /\ (0 + 1) * g >= Len(f.data)
    BY <1>2, <2>6, Zenon
  <2> QED
    BY <1>2, <2>3, <2>6, <2>7, <2>8, Zenon DEF PieceNumber
<1> HIDE DEF p, g
<1>4. p \in Piece(F)
  BY <1>1, <1>2, <1>3, PieceAt, Zenon DEF g
<1> QED
  BY <1>4, Zenon DEF p

\* Where piece i of n lies.
LEMMA PieceIndex ==
  ASSUME NEW g \in Nat \ {0}, NEW L \in Nat, NEW n \in Nat, (n - 1) * g < L,
         NEW i \in 1..n
  PROVE  i - 1 \in 0..L /\ (i - 1) * g < L
<1>1. (i - 1) * g <= (n - 1) * g
  <2>1. n - 1 = (i - 1) + (n - i) /\ n - i \in Nat /\ i - 1 \in Nat
    OBVIOUS
  <2>2. (n - 1) * g = (i - 1) * g + (n - i) * g /\ (n - i) * g \in Nat /\ (i - 1) * g \in Nat
    BY <2>1
  <2> QED
    BY <2>2
<1>2. i - 1 \in Nat /\ (i - 1) * g \in Nat /\ (n - 1) * g \in Int /\ i - 1 <= (i - 1) * g
  <2>1. i - 1 \in Nat /\ g - 1 \in Nat
    OBVIOUS
  <2>2. (i - 1) * g = (i - 1) + (i - 1) * (g - 1) /\ (i - 1) * (g - 1) \in Nat
    BY <2>1
  <2> QED
    BY <2>1, <2>2
<1> QED
  BY <1>1, <1>2

\* The packet with these fields.
PacketWith(fl, s, d, t, h, e) ==
  [flow |-> fl, seq |-> s, data |-> d, tcp |-> t, psh |-> h, fin |-> e]

\* p is r with four fields replaced.
Replaced(p, r, sq, dt, ps, fn) ==
  p = [r EXCEPT !.seq = sq, !.data = dt, !.psh = ps, !.fin = fn]

\* It is a packet.
LEMMA PacketExcept ==
  ASSUME NEW fl, NEW s, NEW d, NEW t, NEW h, NEW e, NEW sq, NEW dt, NEW ps, NEW fn,
         NEW p, Replaced(p, PacketWith(fl, s, d, t, h, e), sq, dt, ps, fn)
  PROVE  p = PacketWith(fl, sq, dt, t, ps, fn)
<1>1. [PacketWith(fl, s, d, t, h, e) EXCEPT !.seq = sq] = PacketWith(fl, sq, d, t, h, e)
  BY DEF PacketWith
<1>2. [PacketWith(fl, sq, d, t, h, e) EXCEPT !.data = dt] = PacketWith(fl, sq, dt, t, h, e)
  BY DEF PacketWith
<1>3. [PacketWith(fl, sq, dt, t, h, e) EXCEPT !.psh = ps] = PacketWith(fl, sq, dt, t, ps, e)
  BY DEF PacketWith
<1>4. [PacketWith(fl, sq, dt, t, ps, e) EXCEPT !.fin = fn] = PacketWith(fl, sq, dt, t, ps, fn)
  BY DEF PacketWith
<1> QED
  BY <1>1, <1>2, <1>3, <1>4, Zenon DEF Replaced

\* Reading a frame yields pieces of it.
LEMMA FrameCut ==
  ASSUME NEW F, NEW f \in F, GoodFrame(f)
  PROVE  materialize_offload_into(f) \in Seq(Piece(F))
<1> DEFINE g == f.gso_size
           L == Len(f.data)
           n == (L + g - 1) \div g
           q == [i \in 1..n |->
              LET off == (i - 1) * f.gso_size
              IN  [AsPacket(f) EXCEPT
                     !.seq = (f.seq + off) % SEQ,
                     !.data = SubSeq(f.data, off + 1, Min({off + f.gso_size, Len(f.data)})),
                     !.psh = f.psh /\ i = n,
                     !.fin = f.fin /\ i = n]]
<1>1. L \in Nat /\ g \in Nat /\ f.data \in Seq(Byte) /\ f.seq \in 0..(SEQ - 1)
      /\ {f.tcp, f.psh, f.fin, f.bad} \subseteq BOOLEAN
  BY DEF GoodFrame
<1>2. CASE f.bad
  BY <1>2 DEF materialize_offload_into
<1>3. CASE ~f.bad /\ (g = 0 \/ L <= g)
  <2>1. PieceSize(f) >= Len(f.data)
    BY <1>1, <1>3 DEF PieceSize
  <2>2. AsPacket(f) \in Piece(F)
    BY <2>1, WholeFrame, Zenon
  <2>3. materialize_offload_into(f) = <<AsPacket(f)>>
    BY <1>3, Zenon DEF materialize_offload_into, segment_tcp_gso_into
  <2> QED
    BY <2>2, <2>3
<1>4. CASE ~f.bad /\ g # 0 /\ ~(L <= g)
  <2>1. materialize_offload_into(f) = q
    BY <1>4, Zenon DEF materialize_offload_into, segment_tcp_gso_into
  <2>2. g \in Nat \ {0} /\ L > 0 /\ PieceSize(f) = g
    BY <1>1, <1>4 DEF PieceSize
  <2>3. n \in Nat /\ n * g >= L /\ (n - 1) * g < L
    BY <1>1, <2>2, PiecesOf, Zenon
  <2>4. ASSUME NEW i \in 1..n PROVE q[i] \in Piece(F)
    <3> DEFINE off == (i - 1) * g
               p == [AsPacket(f) EXCEPT
                     !.seq = (f.seq + off) % SEQ,
                     !.data = SubSeq(f.data, off + 1, Min({off + g, L})),
                     !.psh = f.psh /\ i = n,
                     !.fin = f.fin /\ i = n]
    <3>1. q[i] = p
      BY Zenon
    <3> HIDE DEF n, q
    <3>2. i - 1 \in 0..L /\ (i - 1) * g < L
      BY <1>1, <2>2, <2>3, PieceIndex, Zenon
    <3>3. i - 1 + 1 = i /\ off \in Nat /\ (i - 1 + 1) * g = off + g
      BY <1>1, <3>2, Multiple
    <3> HIDE DEF off, g, L
    <3>4. /\ p.flow = f.flow /\ p.seq = (f.seq + off) % SEQ /\ p.tcp = f.tcp
          /\ p.data = SubSeq(f.data, off + 1, Min({off + g, L}))
          /\ p.psh = (f.psh /\ i = n) /\ p.fin = (f.fin /\ i = n)
          /\ p = [flow |-> p.flow, seq |-> p.seq, data |-> p.data, tcp |-> p.tcp,
                  psh |-> p.psh, fin |-> p.fin]
      <4> DEFINE sq == (f.seq + off) % SEQ
                 dt == SubSeq(f.data, off + 1, Min({off + g, L}))
                 ps == f.psh /\ i = n
                 fn == f.fin /\ i = n
      <4> HIDE DEF sq, dt, ps, fn
      <4>1. p = [AsPacket(f) EXCEPT !.seq = sq, !.data = dt, !.psh = ps, !.fin = fn]
        BY Zenon DEF sq, dt, ps, fn
      <4>a. AsPacket(f) = PacketWith(f.flow, f.seq, f.data, f.tcp, f.psh, f.fin)
        BY Zenon DEF AsPacket, PacketWith
      <4> HIDE DEF p
      <4>2. p = PacketWith(f.flow, sq, dt, f.tcp, ps, fn)
        <5>1. Replaced(p, AsPacket(f), sq, dt, ps, fn)
          BY <4>1, Zenon DEF Replaced
        <5> QED
          BY <4>a, <5>1, PacketExcept, Zenon
      <4>3. /\ p.flow = f.flow /\ p.seq = sq /\ p.tcp = f.tcp /\ p.data = dt
            /\ p.psh = ps /\ p.fin = fn
        BY <4>2, Zenon DEF PacketWith
      <4>4. p = [flow |-> p.flow, seq |-> p.seq, data |-> p.data, tcp |-> p.tcp,
                 psh |-> p.psh, fin |-> p.fin]
        BY <4>2, <4>3, Zenon DEF PacketWith
      <4> QED
        BY <4>3, <4>4, Zenon DEF sq, dt, ps, fn
    <3> HIDE DEF p
    <3>5. p.fin => f.fin /\ (i - 1 + 1) * g >= L
      BY <2>3, <3>3, <3>4, Zenon
    <3>6. PieceNumber(p, f, g, i - 1)
      BY <3>2, <3>3, <3>4, <3>5, Zenon DEF PieceNumber, off, L
    <3>7. {p.tcp, p.psh, p.fin} \subseteq BOOLEAN
      BY <1>1, <3>4, Zenon
    <3>8. p \in Piece(F)
      <4>1. PieceNumber(p, f, PieceSize(f), i - 1)
        BY <2>2, <3>6, Zenon
      <4> QED
        BY <3>4, <3>7, <4>1, PieceAt, Zenon
    <3> QED
      BY <3>1, <3>8, Zenon
  <2> HIDE DEF q
  <2>5. q = [i \in 1..n |-> q[i]]
    BY Zenon DEF q
  <2>6. q \in Seq(Piece(F))
    <3> HIDE DEF n
    <3> QED
      BY <2>3, <2>4, <2>5
  <2> QED
    BY <2>1, <2>6, Zenon
<1> QED
  BY <1>1, <1>2, <1>3, <1>4, Zenon

-----------------------------------------------------------------------------
(* Joining the payloads of a run. *)

\* D is the first n sequences of ds one after the other, all but the last of them
\* of length G.
Laid(D, ds, G, n) ==
  /\ D \in Seq(Byte) /\ Len(D) = (n - 1) * G + Len(ds[n])
  /\ \A i \in 1..n : \A j \in 1..Len(ds[i]) : D[(i - 1) * G + j] = ds[i][j]

\* i - 1 pieces of G and a part of another one fit n pieces.
LEMMA Within ==
  ASSUME NEW G \in Nat, NEW n \in Nat, NEW i \in 1..n, NEW j \in 1..G
  PROVE  (i - 1) * G + j \in 1..(n * G)
<1>1. n = (i - 1) + 1 + (n - i) /\ n - i \in Nat /\ i - 1 \in Nat
  OBVIOUS
<1>2. n * G = (i - 1) * G + G + (n - i) * G /\ (n - i) * G \in Nat /\ (i - 1) * G \in Nat
  BY <1>1
<1> QED
  BY <1>2

\* One more sequence.
LEMMA LaidNext ==
  ASSUME NEW ds \in Seq(Seq(Byte)), NEW G \in Nat, NEW n \in Nat \ {0}, n + 1 <= Len(ds),
         \A i \in 1..n : Len(ds[i]) = G,
         NEW D, Laid(D, ds, G, n)
  PROVE  Laid(D \o ds[n + 1], ds, G, n + 1)
<1> DEFINE d == ds[n + 1]
           E == D \o d
           a == n * G
<1>1. d \in Seq(Byte) /\ D \in Seq(Byte) /\ Len(d) \in Nat /\ a \in Nat
  <2>1. d \in Seq(Byte)
    OBVIOUS
  <2>2. D \in Seq(Byte)
    BY Zenon DEF Laid
  <2>3. a \in Nat
    OBVIOUS
  <2> QED
    BY <2>1, <2>2, <2>3
<1>2. Len(D) = a
  <2>1. Len(ds[n]) = G
    OBVIOUS
  <2>2. (n - 1) * G + G = a
    OBVIOUS
  <2> QED
    BY <2>1, <2>2, Zenon DEF Laid
<1> HIDE DEF d, a
<1>3. /\ E \in Seq(Byte) /\ Len(E) = a + Len(d)
      /\ \A x \in 1..a : E[x] = D[x]
      /\ \A j \in 1..Len(d) : E[a + j] = d[j]
  <2>1. E \in Seq(Byte) /\ Len(E) = Len(D) + Len(d)
    BY <1>1
  <2>2. \A x \in 1..Len(D) : E[x] = D[x]
    BY <1>1
  <2>3. ASSUME NEW j \in 1..Len(d) PROVE E[a + j] = d[j]
    <3>1. a + j \in 1..(Len(D) + Len(d)) /\ ~(a + j <= Len(D)) /\ (a + j) - Len(D) = j
      BY <1>1, <1>2
    <3>2. E[a + j] = IF a + j <= Len(D) THEN D[a + j] ELSE d[(a + j) - Len(D)]
      BY <1>1, <3>1, ConcatProperties
    <3> HIDE DEF E
    <3> QED
      BY <3>1, <3>2, Zenon
  <2> QED
    BY <1>2, <2>1, <2>2, <2>3, Zenon
<1> HIDE DEF E
<1>4. ASSUME NEW i \in 1..(n + 1), NEW j \in 1..Len(ds[i])
      PROVE  E[(i - 1) * G + j] = ds[i][j]
  <2>1. CASE i = n + 1
    <3>1. (i - 1) * G = a /\ ds[i] = d
      BY <2>1 DEF a, d
    <3> QED
      BY <1>3, <3>1, Zenon
  <2>2. CASE i # n + 1
    <3>1. i \in 1..n /\ Len(ds[i]) = G
      BY <2>2
    <3>2. (i - 1) * G + j \in 1..a
      BY <3>1, Within, Zenon DEF a
    <3>3. D[(i - 1) * G + j] = ds[i][j]
      BY <3>1, Zenon DEF Laid
    <3> QED
      BY <1>3, <3>2, <3>3, Zenon
  <2> QED
    BY <2>1, <2>2, Zenon
<1> DEFINE N == n + 1
<1>5. (N - 1) * G = a /\ ds[N] = d
  BY DEF a, d
<1>6. \A i \in 1..N : \A j \in 1..Len(ds[i]) : E[(i - 1) * G + j] = ds[i][j]
  BY <1>4, Zenon
<1> HIDE DEF N
<1>7. Len(E) = (N - 1) * G + Len(ds[N])
  BY <1>3, <1>5, Zenon
<1>8. Laid(E, ds, G, N)
  BY <1>3, <1>6, <1>7, Zenon DEF Laid
<1> QED
  BY <1>8, Zenon DEF E, d, N

\* All sequences but the last are of length G.
Uniform(ds, G) == \A i \in 1..(Len(ds) - 1) : Len(ds[i]) = G

\* All of them.
LEMMA LaidAll ==
  ASSUME NEW ds \in Seq(Seq(Byte)), Len(ds) > 0, NEW G \in Nat, Uniform(ds, G)
  PROVE  Laid(Joined(ds), ds, G, Len(ds))
<1> DEFINE Eq(g) == g = [n \in 0..Len(ds) |-> IF n = 0 THEN <<>> ELSE g[n - 1] \o ds[n]]
           S == [n \in 1..Len(ds) |-> [v \in Seq(Byte) |-> v \o ds[n]]]
           F == CHOOSE g : Eq(g)
           Good == {m \in Nat : m + 1 <= Len(ds) => Laid(F[m + 1], ds, G, m + 1)}
<1>a. Len(ds) \in Nat /\ \A n \in 1..Len(ds) : ds[n] \in Seq(Byte)
  OBVIOUS
<1>b. \E g : Eq(g)
  <2>1. S \in [1..Len(ds) -> [Seq(Byte) -> Seq(Byte)]]
    BY <1>a
  <2>2. PICK g \in [0..Len(ds) -> Seq(Byte)] : Recursive(g, Len(ds), <<>>, S)
    <3>1. <<>> \in Seq(Byte)
      OBVIOUS
    <3> HIDE DEF S
    <3> QED
      BY <1>a, <2>1, <3>1, RecursionExists, Zenon
  <2>3. ASSUME NEW n \in 0..Len(ds)
        PROVE  g[n] = IF n = 0 THEN <<>> ELSE g[n - 1] \o ds[n]
    <3>1. n # 0 => n \in 1..Len(ds) /\ n - 1 \in 0..Len(ds)
      BY <1>a
    <3>2. n # 0 => S[n][g[n - 1]] = g[n - 1] \o ds[n]
      BY <2>2, <3>1, Zenon
    <3> HIDE DEF S
    <3> QED
      BY <2>2, <3>2, Zenon DEF Recursive
  <2>4. g = [n \in 0..Len(ds) |-> g[n]]
    BY <2>2, Zenon
  <2>5. Eq(g)
    BY <2>3, <2>4, Zenon
  <2> HIDE DEF Eq
  <2> QED
    BY <2>5, Zenon
<1>1. Eq(F)
  <2> HIDE DEF Eq
  <2> QED
    BY <1>b, Zenon
<1>3. Joined(ds) = F[Len(ds)]
  BY Zenon DEF Joined
<1> HIDE DEF F
<1>2. \A i \in 1..Len(ds) : F[i] = IF i = 1 THEN ds[i] ELSE F[i-1] \o ds[i]
  <2>1. F[0] = <<>>
    BY <1>1, <1>a
  <2>2. ASSUME NEW i \in 1..Len(ds) PROVE F[i] = F[i - 1] \o ds[i]
    BY <1>1, <1>a
  <2>3. ASSUME NEW i \in 1..Len(ds), i = 1 PROVE F[i - 1] \o ds[i] = ds[i]
    <3>1. i - 1 = 0 /\ ds[i] \in Seq(Byte)
      BY <2>3
    <3>2. <<>> \o ds[i] = ds[i]
      BY <3>1
    <3> QED
      BY <2>1, <3>1, <3>2, Zenon
  <2> HIDE DEF Eq
  <2> QED
    BY <2>2, <2>3, Zenon
<1> HIDE DEF Eq, S
<1>4. 0 \in Good
  <2>1. F[1] = ds[1] /\ ds[1] \in Seq(Byte) /\ Len(ds[1]) \in Nat
    BY <1>2
  <2>2. 0 * G = 0 /\ 0 + 1 = 1 /\ 1 - 1 = 0
    OBVIOUS
  <2>3. Laid(F[1], ds, G, 1)
    <3>1. ASSUME NEW i \in 1..1, NEW j \in 1..Len(ds[i])
          PROVE  F[1][(i - 1) * G + j] = ds[i][j]
      <4>1. i = 1 /\ (i - 1) * G + j = j
        BY <2>1, <2>2
      <4> QED
        BY <2>1, <4>1, Zenon
    <3>2. Len(F[1]) = (1 - 1) * G + Len(ds[1]) /\ F[1] \in Seq(Byte)
      <4>1. (1 - 1) * G = 0
        OBVIOUS
      <4>2. Len(ds[1]) = 0 + Len(ds[1])
        BY <2>1
      <4> QED
        BY <2>1, <4>1, <4>2, Zenon
    <3> QED
      BY <3>1, <3>2, Zenon DEF Laid
  <2> QED
    BY <2>2, <2>3, Zenon
<1>5. ASSUME NEW m \in Nat, m \in Good PROVE m + 1 \in Good
  <2> SUFFICES ASSUME m + 2 <= Len(ds) PROVE Laid(F[m + 2], ds, G, m + 2)
    <3>1. m + 1 + 1 = m + 2
      OBVIOUS
    <3> QED
      BY <3>1
  <2> DEFINE n == m + 1
  <2>1. n \in Nat \ {0} /\ n + 1 <= Len(ds) /\ n + 1 = m + 2 /\ m + 2 # 1 /\ m + 2 - 1 = n
        /\ m + 2 \in 1..Len(ds)
    OBVIOUS
  <2>2. Laid(F[n], ds, G, n)
    BY <1>5
  <2>3. \A i \in 1..n : Len(ds[i]) = G
    <3>1. \A i \in 1..n : i \in 1..(Len(ds) - 1)
      OBVIOUS
    <3> QED
      BY <3>1, Zenon DEF Uniform
  <2> HIDE DEF n
  <2>4. Laid(F[n] \o ds[n + 1], ds, G, n + 1)
    BY <2>1, <2>2, <2>3, LaidNext, Zenon
  <2>5. F[n + 1] = F[n] \o ds[n + 1]
    <3> DEFINE N == n + 1
    <3>1. N \in 1..Len(ds) /\ N # 1 /\ N - 1 = n
      BY <2>1
    <3> HIDE DEF N
    <3>2. F[N] = F[N - 1] \o ds[N]
      BY <1>2, <3>1, Zenon
    <3>3. F[N] = F[n] \o ds[N]
      BY <3>1, <3>2, Zenon
    <3> QED
      BY <3>3, Zenon DEF N
  <2> QED
    BY <2>1, <2>4, <2>5, Zenon
<1>6. Nat \subseteq Good
  <2> HIDE DEF Good
  <2> QED
    BY <1>4, <1>5, Induct, Zenon
<1>7. Len(ds) - 1 \in Nat /\ Len(ds) - 1 + 1 = Len(ds)
  OBVIOUS
<1>8. Laid(F[Len(ds) - 1 + 1], ds, G, Len(ds) - 1 + 1)
  <2>1. Len(ds) - 1 \in Good /\ Len(ds) - 1 + 1 <= Len(ds)
    <3> HIDE DEF Good
    <3>1. Len(ds) \in Nat
      OBVIOUS
    <3> QED
      BY <1>6, <1>7, <3>1
  <2> QED
    BY <2>1, Zenon
<1> QED
  BY <1>3, <1>7, <1>8, Zenon

\* c packets of b from i on, all but the last of length G.
LengthsAt(b, i, c, G) ==
  /\ \A n \in 1..(c - 1) : Len(b[i + n - 1].data) = G
  /\ Len(b[i + c - 1].data) \in Nat

\* What Bytes computes for them.
LEMMA BytesAre ==
  ASSUME NEW b, NEW i \in Nat, NEW c \in Nat \ {0}, NEW G \in Nat,
         LengthsAt(b, i, c, G)
  PROVE  Bytes(b, i, i + c - 1) = (c - 1) * G + Len(b[i + c - 1].data)
<1> DEFINE w(n) == Len(b[i + n - 1].data)
           Eq(g) == g = [n \in 0..c |-> IF n = 0 THEN 0 ELSE g[n - 1] + w(n)]
           F == [n \in 1..c |-> [v \in Nat |-> v + w(n)]]
           u == CHOOSE g : Eq(g)
<1>1. /\ \A n \in 1..c : w(n) \in Nat
      /\ \A n \in 1..(c - 1) : w(n) = G
  <2>1. \A n \in 1..c : n \in 1..(c - 1) \/ n = c
    OBVIOUS
  <2> QED
    BY <2>1, Zenon DEF LengthsAt
<1>2. Bytes(b, i, i + c - 1) = u[c]
  <2>1. (i + c - 1) - i + 1 = c
    OBVIOUS
  <2> QED
    BY <2>1, Zenon DEF Bytes
<1>3. w(c) = Len(b[i + c - 1].data)
  BY Zenon
<1> HIDE DEF w
<1>4. \E g : Eq(g)
  <2>1. F \in [1..c -> [Nat -> Nat]]
    BY <1>1
  <2>2. PICK g \in [0..c -> Nat] : Recursive(g, c, 0, F)
    <3>1. 0 \in Nat /\ c \in Nat
      BY Zenon
    <3> HIDE DEF F
    <3> QED
      BY <2>1, <3>1, RecursionExists, Zenon
  <2>3. ASSUME NEW n \in 0..c
        PROVE  g[n] = IF n = 0 THEN 0 ELSE g[n - 1] + w(n)
    <3>1. n # 0 => n \in 1..c /\ n - 1 \in 0..c
      OBVIOUS
    <3>2. n # 0 => F[n][g[n - 1]] = g[n - 1] + w(n)
      BY <2>2, <3>1, Zenon
    <3> HIDE DEF F
    <3> QED
      BY <2>2, <3>2, Zenon DEF Recursive
  <2>4. g = [n \in 0..c |-> g[n]]
    BY <2>2, Zenon
  <2>5. Eq(g)
    BY <2>3, <2>4, Zenon
  <2> HIDE DEF Eq
  <2> QED
    BY <2>5, Zenon
<1>5. Eq(u)
  <2> HIDE DEF Eq
  <2> QED
    BY <1>4, Zenon
<1> HIDE DEF u
<1>6. u[0] = 0 /\ \A n \in 1..c : u[n] = u[n - 1] + w(n)
  <2>1. u[0] = 0
    BY <1>5
  <2>2. ASSUME NEW n \in 1..c PROVE u[n] = u[n - 1] + w(n)
    BY <1>5
  <2> QED
    BY <2>1, <2>2, Zenon
<1> DEFINE Good == {m \in Nat : m <= c - 1 => u[m] = m * G}
<1>7. 0 \in Good
  BY <1>6
<1>8. ASSUME NEW m \in Nat, m \in Good PROVE m + 1 \in Good
  <2> SUFFICES ASSUME m + 1 <= c - 1 PROVE u[m + 1] = (m + 1) * G
    OBVIOUS
  <2> DEFINE n == m + 1
  <2>1. n \in 1..c /\ n \in 1..(c - 1) /\ n - 1 = m /\ u[m] = m * G
    BY <1>8
  <2> HIDE DEF n
  <2>2. u[n] = m * G + G
    BY <1>1, <1>6, <2>1, Zenon
  <2>3. (m + 1) * G = m * G + G
    BY Multiple, Zenon
  <2> QED
    BY <2>2, <2>3, Zenon DEF n
<1>9. Nat \subseteq Good
  <2> HIDE DEF Good
  <2> QED
    BY <1>7, <1>8, Induct, Zenon
<1>10. u[c - 1] = (c - 1) * G
  <2>1. c - 1 \in Nat /\ c - 1 <= c - 1
    OBVIOUS
  <2> QED
    BY <1>9, <2>1, Zenon
<1>11. u[c] = u[c - 1] + w(c)
  BY <1>6
<1> QED
  BY <1>2, <1>3, <1>10, <1>11, Zenon

-----------------------------------------------------------------------------
(* A run of packets, and what its super-frame is cut into. *)

Run(s, G) ==
  /\ Len(s) >= 2 /\ G \in Nat \ {0}
  /\ \A i \in 1..Len(s) : Len(s[i].data) \in 1..G
  /\ \A i \in 1..(Len(s) - 1) :
       /\ Len(s[i].data) = G
       /\ s[i + 1].flow = s[i].flow /\ s[i + 1].seq = (s[i].seq + G) % SEQ

\* q has the contents of p that PieceOf tells apart, and no FIN.
SameButFlags(q, p) ==
  \E h \in BOOLEAN : q = PacketWith(p.flow, p.seq, p.data, TRUE, h, FALSE)

\* The sequence numbers of a run.
LEMMA RunChain ==
  ASSUME NEW F, NEW s \in Seq(Packet(F)), NEW G, Run(s, G), NEW n \in 1..Len(s)
  PROVE  s[n].flow = s[1].flow /\ s[n].seq = (s[1].seq + (n - 1) * G) % SEQ
<1> DEFINE c == Len(s)
           x == s[1].seq
           At(m) == s[m + 1].flow = s[1].flow /\ s[m + 1].seq = (x + m * G) % SEQ
           Good == {m \in Nat : m + 1 <= c => At(m)}
<1>1. /\ c \in Nat /\ c >= 2 /\ G \in Nat \ {0} /\ SEQ \in Nat \ {0}
      /\ \A i \in 1..(c - 1) : s[i + 1].flow = s[i].flow /\ s[i + 1].seq = (s[i].seq + G) % SEQ
  BY SetupAssumption DEF Run
<1>2. x \in 0..(SEQ - 1) /\ x \in Nat
  <2>1. s[1] \in Packet(F)
    BY <1>1
  <2> QED
    BY <1>1, <2>1 DEF Packet
<1> HIDE DEF c, x
<1>3. 0 \in Good
  <2>1. (0 * SEQ + x) % SEQ = x
    BY <1>1, <1>2, RemainderIs, Zenon
  <2>2. 0 * SEQ + x = x + 0 * G /\ 0 + 1 = 1
    BY <1>1, <1>2
  <2>3. At(0)
    BY <2>1, <2>2, Zenon DEF x
  <2> QED
    BY <2>3, Zenon
<1>4. ASSUME NEW m \in Nat, m \in Good PROVE m + 1 \in Good
  <2> SUFFICES ASSUME m + 1 + 1 <= c PROVE At(m + 1)
    OBVIOUS
  <2> DEFINE k == m + 1
  <2>1. k \in 1..(c - 1) /\ m + 1 <= c
    BY <1>1
  <2>2. s[k].flow = s[1].flow /\ s[k].seq = (x + m * G) % SEQ
    BY <1>4, <2>1, Zenon
  <2>3. s[k + 1].flow = s[k].flow /\ s[k + 1].seq = (s[k].seq + G) % SEQ
    BY <1>1, <2>1, Zenon
  <2>4. x + m * G \in Nat /\ x + m * G + G = x + k * G
    <3> DEFINE u == m * G
               v == k * G
    <3>1. u \in Nat /\ v = u + G
      BY <1>1, Multiple, Zenon
    <3> HIDE DEF k, u, v
    <3>2. x + u \in Nat /\ x + u + G = x + v
      BY <1>1, <1>2, <3>1
    <3> QED
      BY <3>2, Zenon DEF u, v
  <2>5. (((x + m * G) % SEQ) + G) % SEQ = (x + m * G + G) % SEQ
    <3> DEFINE y == x + m * G
    <3>1. y \in Nat
      BY <2>4, Zenon
    <3> HIDE DEF y
    <3>2. ((y % SEQ) + G) % SEQ = (y + G) % SEQ
      BY <1>1, <3>1, RemainderAdd, Zenon
    <3> QED
      BY <3>2, Zenon DEF y
  <2> HIDE DEF k
  <2>6. s[k + 1].flow = s[1].flow /\ s[k + 1].seq = (x + k * G) % SEQ
    BY <2>2, <2>3, <2>4, <2>5, Zenon
  <2> QED
    BY <2>6, Zenon DEF k
<1>5. Nat \subseteq Good
  <2> HIDE DEF Good
  <2> QED
    BY <1>3, <1>4, Induct, Zenon
<1>6. n - 1 \in Nat /\ n - 1 + 1 = n /\ n <= c
  BY <1>1 DEF c
<1>7. At(n - 1)
  <2> HIDE DEF At
  <2> QED
    BY <1>5, <1>6, Zenon
<1> QED
  BY <1>6, <1>7, Zenon DEF x

\* Sequences with the same elements are the same.
LEMMA SameSequence ==
  ASSUME NEW s \in Seq(Byte), NEW t \in Seq(Byte), Len(s) = Len(t),
         \A i \in 1..Len(s) : s[i] = t[i]
  PROVE  s = t
OBVIOUS

\* Piece i of D.
CutAt(D, G, i) == SubSeq(D, (i - 1) * G + 1, Min({(i - 1) * G + G, Len(D)}))

\* c payloads, all but the last of length G, of which D is laid.
Payloads(D, ds, G, c) ==
  /\ ds \in Seq(Seq(Byte)) /\ G \in Nat \ {0} /\ c \in Nat \ {0} /\ c = Len(ds)
  /\ Uniform(ds, G) /\ Len(ds[c]) \in 1..G /\ Laid(D, ds, G, c)

\* They are its pieces.
PiecesOfD(D, ds, G, c) == \A i \in 1..c : CutAt(D, G, i) = ds[i]

\* Piece i of the joined payloads is the payload of packet i.
LEMMA PieceOfJoin ==
  ASSUME NEW D, NEW ds, NEW G, NEW c, Payloads(D, ds, G, c)
  PROVE  PiecesOfD(D, ds, G, c)
<1> SUFFICES ASSUME NEW i \in 1..c PROVE CutAt(D, G, i) = ds[i]
  BY DEF PiecesOfD
<1>0. /\ ds \in Seq(Seq(Byte)) /\ G \in Nat \ {0} /\ c \in Nat \ {0} /\ c = Len(ds)
      /\ Uniform(ds, G) /\ Len(ds[c]) \in 1..G /\ Laid(D, ds, G, c)
  BY Zenon DEF Payloads
<1> USE <1>0
<1> DEFINE off == (i - 1) * G
           L == Len(D)
           x == Len(ds[i])
           m == Min({off + G, L})
<1>1. off \in Nat /\ (c - 1) * G \in Nat
  <2>1. i - 1 \in Nat /\ c - 1 \in Nat
    OBVIOUS
  <2> QED
    BY <2>1, Multiple, Zenon
<1>2. /\ D \in Seq(Byte) /\ L = (c - 1) * G + Len(ds[c])
      /\ \A j \in 1..x : D[off + j] = ds[i][j]
  BY Zenon DEF Laid
<1>a. L \in Nat /\ ds[i] \in Seq(Byte)
  <2>1. D \in Seq(Byte)
    BY <1>2, Zenon
  <2>2. L \in Nat
    BY <2>1
  <2>3. i \in 1..Len(ds)
    BY Zenon
  <2>4. ds[i] \in Seq(Byte)
    BY <2>3
  <2> QED
    BY <2>2, <2>4, Zenon
<1>b. m \in Nat /\ m = IF off + G <= L THEN off + G ELSE L
  <2>1. off + G \in Nat
    BY <1>1
  <2> HIDE DEF off, L
  <2> QED
    BY <1>a, <2>1, MinIs, Zenon
<1>c. i = c => off = (c - 1) * G
  BY Zenon
<1>d. i # c => off + G <= (c - 1) * G
  <2> SUFFICES ASSUME i # c PROVE off + G <= (c - 1) * G
    BY Zenon
  <2>1. i \in 1..(c - 1) /\ G \in 1..G /\ c - 1 \in Nat
    OBVIOUS
  <2>2. (i - 1) * G + G \in 1..((c - 1) * G)
    BY <2>1, Within, Zenon
  <2>3. off + G \in 1..((c - 1) * G)
    BY <2>2, Zenon
  <2> HIDE DEF off
  <2> QED
    BY <1>1, <2>3
<1>e. x \in 1..G /\ (i # c => x = G) /\ (i = c => x = Len(ds[c]))
  BY DEF Uniform
<1> HIDE DEF off, x, m, L
<1>3. off + x <= L /\ m = off + x
  <2> DEFINE e == (c - 1) * G
             y == Len(ds[c])
  <2>1. y \in 1..G
    BY Zenon
  <2> HIDE DEF e, y
  <2>2. /\ e \in Nat /\ L = e + y /\ (i = c => off = e /\ x = y)
        /\ (i # c => off + G <= e /\ x = G)
    BY <1>1, <1>2, <1>c, <1>d, <1>e, Zenon DEF e, y
  <2>3. CASE i = c
    <3>1. off \in Nat /\ x \in 1..G /\ L = off + x
      BY <1>1, <2>1, <2>2, <2>3, Zenon
    <3> QED
      BY <1>b, <3>1
  <2>4. CASE i # c
    <3>1. off \in Nat /\ x = G /\ off + G <= L
      BY <1>1, <2>1, <2>2, <2>4
    <3> QED
      BY <1>b, <3>1, Zenon
  <2> QED
    BY <2>3, <2>4, Zenon
<1> DEFINE t == SubSeq(D, off + 1, m)
<1>4. Stretch(t, D, off, m)
  <2>1. m <= Len(D)
    BY <1>3, Zenon DEF L
  <2> QED
    BY <1>1, <1>2, <1>b, <2>1, StretchIs, Zenon
<1> HIDE DEF t
<1>5. t \in Seq(Byte) /\ Len(t) = x /\ \A j \in 1..x : t[j] = D[off + j]
  <2>1. off <= m /\ m - off = x
    BY <1>1, <1>3, <1>e
  <2> QED
    BY <1>4, <2>1, Zenon DEF Stretch
<1>6. t = ds[i]
  BY <1>2, <1>5, <1>a, SameSequence, Zenon DEF x
<1> QED
  BY <1>6, Zenon DEF t, m, off, L, CutAt

\* The super-frame of a run is cut into the packets of the run.
LEMMA RunSplit ==
  ASSUME NEW F, NEW s \in Seq(Packet(F)), NEW G, Run(s, G)
  PROVE  LET f == assemble_tcp_gso_superframe(s)
             m == materialize_offload_into(f)
         IN  /\ Len(f.data) = (Len(s) - 1) * G + Len(s[Len(s)].data)
             /\ Len(m) = Len(s) /\ m = [i \in 1..Len(s) |-> m[i]]
             /\ \A i \in 1..Len(s) : SameButFlags(m[i], s[i])
<1> DEFINE f == assemble_tcp_gso_superframe(s)
           m == materialize_offload_into(f)
           c == Len(s)
           ds == [i \in 1..c |-> s[i].data]
           D == Joined(ds)
           x == Len(ds[c])
<1>1. /\ c \in Nat \ {0} /\ c >= 2 /\ G \in Nat \ {0}
      /\ \A i \in 1..c : s[i] \in Packet(F) /\ s[i].data \in Seq(Byte) /\ s[i].psh \in BOOLEAN
  <2>1. \A i \in 1..c : s[i] \in Packet(F)
    OBVIOUS
  <2>2. \A i \in 1..c : s[i].data \in Seq(Byte) /\ s[i].psh \in BOOLEAN
    BY <2>1, Zenon DEF Packet
  <2>3. c \in Nat
    OBVIOUS
  <2> QED
    BY <2>1, <2>2, <2>3 DEF Run
<1>2. /\ \A i \in 1..c : Len(s[i].data) \in 1..G
      /\ \A i \in 1..(c - 1) : Len(s[i].data) = G
  BY Zenon DEF Run
<1>3. \A n \in 1..c : s[n].flow = s[1].flow /\ s[n].seq = (s[1].seq + (n - 1) * G) % SEQ
  BY RunChain, Zenon
<1>4. /\ f.flow = s[1].flow /\ f.seq = s[1].seq /\ f.data = D /\ f.tcp = TRUE
      /\ f.psh = s[1].psh /\ f.fin = FALSE /\ f.gso_size = G /\ f.bad = FALSE
  <2>1. 1 \in 1..(c - 1)
    BY <1>1
  <2>2. Len(s[1].data) = G
    BY <1>2, <2>1, Zenon
  <2> QED
    BY <2>2, Zenon DEF assemble_tcp_gso_superframe
<1> HIDE DEF f
<1>a. 1 \in 1..c /\ c \in 1..c /\ s[1].psh \in BOOLEAN
  BY <1>1
<1> HIDE DEF c
<1>5. /\ ds \in Seq(Seq(Byte)) /\ Len(ds) = c
      /\ \A i \in 1..c : ds[i] = s[i].data
  BY <1>1
<1> HIDE DEF ds
<1>6. /\ \A i \in 1..(c - 1) : Len(ds[i]) = G
      /\ x \in 1..G
  <2>1. \A i \in 1..(c - 1) : i \in 1..c
    BY <1>1
  <2> QED
    BY <1>2, <1>5, <1>a, <2>1, Zenon
<1>7. Laid(D, ds, G, c)
  <2>1. Uniform(ds, G)
    BY <1>5, <1>6, Zenon DEF Uniform
  <2>2. Len(ds) > 0 /\ G \in Nat
    BY <1>1, <1>5
  <2> HIDE DEF x
  <2> QED
    BY <1>5, <2>1, <2>2, LaidAll, Zenon
<1> HIDE DEF D, x
<1>8. D \in Seq(Byte) /\ Len(D) = (c - 1) * G + x
  BY <1>7, Zenon DEF Laid, x
<1> DEFINE L == Len(D)
           n == (L + G - 1) \div G
<1>9. L \in Nat /\ ~(L <= G) /\ n = c
  <2>1. c - 1 \in Nat /\ (c - 1) * G \in Nat /\ (c - 1) * G >= G
    <3>1. c - 2 \in Nat /\ (c - 2) * G \in Nat /\ (c - 2) + 1 = c - 1
      BY <1>1
    <3>2. ((c - 2) + 1) * G = (c - 2) * G + G
      BY <1>1, <3>1, Multiple, Zenon
    <3> QED
      BY <1>1, <3>1, <3>2
  <2>2. ((c - 1) * G + x + G - 1) \div G = c
    BY <1>1, <1>6, PiecesAre, Zenon
  <2> DEFINE e == (c - 1) * G
  <2> HIDE DEF e
  <2>3. e \in Nat /\ e >= G /\ Len(D) = e + x /\ (e + x + G - 1) \div G = c
    BY <1>8, <2>1, <2>2, Zenon DEF e
  <2> QED
    BY <1>1, <1>6, <2>3
<1> DEFINE q == [i \in 1..c |->
                  [AsPacket(f) EXCEPT
                     !.seq = (f.seq + (i - 1) * G) % SEQ,
                     !.data = SubSeq(D, (i - 1) * G + 1, Min({(i - 1) * G + G, L})),
                     !.psh = f.psh /\ i = c,
                     !.fin = f.fin /\ i = c]]
<1>10. m = q
  <2>1. m = segment_tcp_gso_into(f)
    BY <1>1, <1>4, Zenon DEF materialize_offload_into
  <2> HIDE DEF m
  <2>2. segment_tcp_gso_into(f) = q
    BY <1>4, <1>9, Zenon DEF segment_tcp_gso_into
  <2> QED
    BY <2>1, <2>2, Zenon
<1> HIDE DEF n, m, L
<1>11. ASSUME NEW i \in 1..c PROVE SameButFlags(m[i], s[i])
  <2> DEFINE sq == (f.seq + (i - 1) * G) % SEQ
             dt == SubSeq(D, (i - 1) * G + 1, Min({(i - 1) * G + G, L}))
             ps == f.psh /\ i = c
             fn == f.fin /\ i = c
  <2>1. dt = s[i].data
    <3>1. dt = ds[i]
      <4>1. Len(ds[c]) \in 1..G
        BY <1>6, Zenon DEF x
      <4>2. Uniform(ds, G)
        BY <1>5, <1>6, Zenon DEF Uniform
      <4>3. CutAt(D, G, i) = ds[i]
        <5>1. G \in Nat \ {0} /\ c \in Nat \ {0}
          BY <1>1
        <5>2. Payloads(D, ds, G, c)
          BY <1>5, <1>7, <4>1, <4>2, <5>1, Zenon DEF Payloads
        <5>3. PiecesOfD(D, ds, G, c)
          BY <5>2, PieceOfJoin, Zenon
        <5> QED
          BY <5>3 DEF PiecesOfD
      <4> QED
        BY <4>3, Zenon DEF L, CutAt
    <3> QED
      BY <1>5, <3>1, Zenon
  <2>2. sq = s[i].seq /\ f.flow = s[i].flow
    BY <1>3, <1>4, Zenon
  <2>3. ps \in BOOLEAN /\ fn = FALSE
    BY <1>4, <1>a, Zenon
  <2>4. m[i] = [AsPacket(f) EXCEPT !.seq = sq, !.data = dt, !.psh = ps, !.fin = fn]
    BY <1>10, Zenon
  <2> HIDE DEF sq, dt, ps, fn
  <2>5. Replaced(m[i], AsPacket(f), sq, dt, ps, fn)
    BY <2>4, Zenon DEF Replaced
  <2>6. AsPacket(f) = PacketWith(f.flow, f.seq, f.data, f.tcp, f.psh, f.fin)
    BY Zenon DEF AsPacket, PacketWith
  <2>7. m[i] = PacketWith(f.flow, sq, dt, f.tcp, ps, fn)
    BY <2>5, <2>6, PacketExcept, Zenon
  <2>8. m[i] = PacketWith(s[i].flow, s[i].seq, s[i].data, TRUE, ps, FALSE)
    BY <1>4, <2>1, <2>2, <2>3, <2>7, Zenon
  <2> QED
    BY <2>3, <2>8, Zenon DEF SameButFlags
<1>12. Len(m) = c /\ m = [i \in 1..c |-> m[i]]
  <2>1. m = [i \in 1..c |-> m[i]] /\ c \in Nat
    BY <1>1, <1>10, Zenon
  <2> HIDE DEF q
  <2> QED
    BY <2>1
<1>13. Len(f.data) = (c - 1) * G + Len(s[c].data)
  BY <1>4, <1>5, <1>8, <1>a, Zenon DEF x
<1> QED
  BY <1>11, <1>12, <1>13, Zenon DEF m, f, c

\* s is the packets of group g, and they are a run.
RunOf(F, b, g, s) ==
  /\ s \in Seq(Piece(F)) /\ Len(s) = g.end - g.start
  /\ \A i \in 1..Len(s) : s[i] = b[g.start + i - 1]
  /\ Run(s, Len(b[g.start].data))

\* The packets of a group that is coalesced are a run.
LEMMA GroupRun ==
  ASSUME NEW F, NEW b \in Seq(Piece(F)), NEW g \in Group, GoodGroup(b, g), g.coalesce,
         NEW s, s = SubSeq(b, g.start, g.end - 1)
  PROVE  RunOf(F, b, g, s)
<1> DEFINE a == g.start
           e == g.end
           c == e - a
           G == Len(b[a].data)
<1>1. /\ a \in Nat \ {0} /\ e \in Nat \ {0} /\ a + 2 <= e /\ e <= Len(b) + 1
      /\ parse_coalescible_tcp(b[a])
      /\ \A j \in (a + 1)..(e - 1) : Extends(b, a, j)
  BY Zenon DEF GoodGroup, Group
<1> HIDE DEF a, e
<1>2. s = SubSeq(b, a, e - 1)
  BY Zenon DEF a, e
<1>3. /\ s \in Seq(Piece(F)) /\ Len(s) = c
      /\ \A i \in 1..c : s[i] = b[a + i - 1]
  <2>1. a \in 1..Len(b) /\ e - 1 \in 1..Len(b) /\ (e - 1) - a + 1 = c /\ a <= e - 1
    BY <1>1
  <2> DEFINE m == e - 1
  <2>2. a \in Int /\ m \in Int /\ a <= m /\ m - a + 1 = c /\ \A i \in a..m : i \in 1..Len(b)
    BY <1>1, <2>1
  <2>3. \A i \in a..m : b[i] \in Piece(F)
    BY <2>2
  <2> HIDE DEF m, c
  <2>4. /\ SubSeq(b, a, m) \in Seq(Piece(F)) /\ Len(SubSeq(b, a, m)) = m - a + 1
        /\ \A i \in 1..(m - a + 1) : SubSeq(b, a, m)[i] = b[a + i - 1]
    BY <2>2, <2>3, SubSeqProperties
  <2>5. s = SubSeq(b, a, m)
    BY <1>2, Zenon DEF m
  <2> QED
    BY <2>2, <2>4, <2>5, Zenon
<1>4. \A j \in 1..Len(b) : b[j].data \in Seq(Byte) /\ Len(b[j].data) \in Nat
  <2>1. \A j \in 1..Len(b) : b[j] \in Packet(F)
    BY DEF Piece
  <2>2. \A j \in 1..Len(b) : b[j].data \in Seq(Byte)
    BY <2>1, Zenon DEF Packet
  <2> QED
    BY <2>2
<1>5. G \in Nat \ {0}
  <2>1. a \in 1..Len(b)
    BY <1>1
  <2>2. b[a].data \in Seq(Byte) /\ b[a].data # <<>>
    BY <1>1, <1>4, <2>1, Zenon DEF parse_coalescible_tcp
  <2> QED
    BY <2>2
<1> HIDE DEF G
<1>6. ASSUME NEW j \in (a + 1)..(e - 1)
      PROVE  /\ Len(b[j].data) \in 1..G /\ Len(b[j - 1].data) = G
             /\ b[j].flow = b[j - 1].flow /\ b[j].seq = (b[j - 1].seq + G) % SEQ
  <2>1. j \in 1..Len(b) /\ Extends(b, a, j)
    BY <1>1
  <2>2. b[j].data # <<>> /\ Len(b[j].data) <= G /\ can_chain(b[j - 1], b[j])
        /\ Len(b[j - 1].data) = G
    BY <2>1, Zenon DEF Extends, parse_coalescible_tcp, G
  <2>3. b[j].data \in Seq(Byte)
    BY <1>4, <2>1, Zenon
  <2>4. Len(b[j].data) \in 1..G
    BY <1>5, <2>2, <2>3
  <2>5. b[j].flow = b[j - 1].flow /\ b[j].seq = (b[j - 1].seq + G) % SEQ
    BY <2>2, Zenon DEF can_chain
  <2> QED
    BY <2>2, <2>4, <2>5, Zenon
<1>7. ASSUME NEW i \in 1..c PROVE Len(s[i].data) \in 1..G
  <2>1. CASE i = 1
    <3>1. a + i - 1 = a
      BY <1>1, <2>1
    <3>2. s[i] = b[a]
      <4>1. s[i] = b[a + i - 1]
        BY <1>3, Zenon
      <4> QED
        BY <3>1, <4>1, Zenon
    <3>3. Len(s[i].data) = G
      BY <3>2, Zenon DEF G
    <3>4. G \in 1..G
      BY <1>5
    <3> QED
      BY <3>3, <3>4, Zenon
  <2>2. CASE i # 1
    <3>1. a + i - 1 \in (a + 1)..(e - 1)
      BY <1>1, <2>2
    <3> QED
      BY <1>3, <1>6, <3>1, Zenon
  <2> QED
    BY <2>1, <2>2, Zenon
<1>8. ASSUME NEW i \in 1..(c - 1)
      PROVE  /\ Len(s[i].data) = G
             /\ s[i + 1].flow = s[i].flow /\ s[i + 1].seq = (s[i].seq + G) % SEQ
  <2> DEFINE j == a + i
  <2>1. j \in (a + 1)..(e - 1) /\ i \in 1..c /\ i + 1 \in 1..c /\ a + i - 1 = j - 1
        /\ a + (i + 1) - 1 = j
    BY <1>1
  <2> HIDE DEF j
  <2>2. s[i] = b[j - 1] /\ s[i + 1] = b[j]
    BY <1>3, <2>1, Zenon
  <2> QED
    BY <1>6, <2>1, <2>2, Zenon
<1>9. c >= 2 /\ c \in Nat
  BY <1>1
<1> HIDE DEF c
<1>10. Run(s, G)
  BY <1>3, <1>5, <1>7, <1>8, <1>9, Zenon DEF Run
<1> QED
  BY <1>3, <1>10, Zenon DEF a, e, c, G, RunOf

\* What writing a group puts on the wire.
Writes(F, b, g) ==
  /\ materialize_offload_into(FrameOf(b, g)) \in Seq(Piece(F))
  /\ Len(materialize_offload_into(FrameOf(b, g))) = g.end - g.start
  /\ HEADER + Len(FrameOf(b, g).data) <= LENMAX

\* A packet that keeps its flow, number and payload and has no FIN is a piece still.
LEMMA SamePiece ==
  ASSUME NEW F, NEW p \in Piece(F), NEW q, SameButFlags(q, p)
  PROVE  q \in Piece(F)
<1>1. PICK h \in BOOLEAN : q = PacketWith(p.flow, p.seq, p.data, TRUE, h, FALSE)
  BY Zenon DEF SameButFlags
<1>2. q.flow = p.flow /\ q.seq = p.seq /\ q.data = p.data /\ q.fin = FALSE
  BY <1>1, Zenon DEF PacketWith
<1>3. q \in Packet(F)
  <2>1. p \in Packet(F)
    BY Zenon DEF Piece
  <2> QED
    BY <1>1, <2>1, Zenon DEF Packet, PacketWith
<1>4. PICK f \in F : PieceOf(p, f)
  BY Zenon DEF Piece
<1>5. PieceOf(q, f)
  BY <1>2, <1>4, Zenon DEF PieceOf
<1>6. HEADER + Len(q.data) <= LENMAX
  BY <1>2, Zenon DEF Piece
<1> QED
  BY <1>3, <1>5, <1>6, Zenon DEF Piece

\* A packet written alone.
LEMMA SingleWritten ==
  ASSUME NEW F, NEW b \in Seq(Piece(F)), NEW g \in Group, GoodGroup(b, g), ~g.coalesce
  PROVE  Writes(F, b, g)
<1> DEFINE p == b[g.start]
           f == Plain(p)
<1>1. g.start \in 1..Len(b) /\ g.end - g.start = 1
  BY DEF GoodGroup, Group
<1>2. p \in Piece(F)
  BY <1>1
<1>3. FrameOf(b, g) = f
  BY Zenon DEF FrameOf
<1> HIDE DEF p
<1>4. p \in Packet(F) /\ HEADER + Len(p.data) <= LENMAX
  BY <1>2, Zenon DEF Piece
<1>5. p = PacketWith(p.flow, p.seq, p.data, p.tcp, p.psh, p.fin)
  BY <1>4, Zenon DEF Packet, PacketWith
<1>6. AsPacket(f) = p /\ f.data = p.data /\ f.gso_size = 0 /\ f.bad = FALSE
  <2>1. AsPacket(f) = PacketWith(p.flow, p.seq, p.data, p.tcp, p.psh, p.fin)
    BY Zenon DEF AsPacket, Plain, PacketWith
  <2>2. f.data = p.data /\ f.gso_size = 0 /\ f.bad = FALSE
    BY Zenon DEF Plain
  <2> QED
    BY <1>5, <2>1, <2>2, Zenon
<1> HIDE DEF f
<1>7. materialize_offload_into(f) = <<p>>
  BY <1>6, Zenon DEF materialize_offload_into
<1>8. <<p>> \in Seq(Piece(F)) /\ Len(<<p>>) = 1
  BY <1>2
<1> QED
  BY <1>1, <1>3, <1>4, <1>6, <1>7, <1>8, Zenon DEF Writes

\* A run written as one super-frame.
LEMMA RunWritten ==
  ASSUME NEW F, NEW b \in Seq(Piece(F)), NEW g \in Group, GoodGroup(b, g), g.coalesce
  PROVE  Writes(F, b, g)
<1> DEFINE a == g.start
           e == g.end
           c == e - a
           G == Len(b[a].data)
           s == SubSeq(b, a, e - 1)
           f == assemble_tcp_gso_superframe(s)
           m == materialize_offload_into(f)
<1>1. FrameOf(b, g) = f
  BY Zenon DEF FrameOf
<1>2. s \in Seq(Piece(F)) /\ Len(s) = c /\ (\A i \in 1..Len(s) : s[i] = b[a + i - 1]) /\ Run(s, G)
  <2> HIDE DEF s
  <2>1. RunOf(F, b, g, s)
    BY GroupRun, Zenon DEF s
  <2> QED
    BY <2>1, Zenon DEF RunOf
<1>3. a \in Nat \ {0} /\ e \in Nat \ {0} /\ a + 2 <= e /\ Extends(b, a, e - 1)
  <2>1. /\ a \in Nat \ {0} /\ e \in Nat \ {0} /\ a + 2 <= e
        /\ \A j \in (a + 1)..(e - 1) : Extends(b, a, j)
    BY Zenon DEF GoodGroup, Group
  <2> QED
    BY <2>1
<1> HIDE DEF s, a, e, G
<1>4. s \in Seq(Packet(F)) /\ \A i \in 1..Len(s) : s[i] \in Piece(F)
  <2>1. Piece(F) \subseteq Packet(F)
    BY Zenon DEF Piece
  <2> QED
    BY <1>2, <2>1
<1>5. /\ Len(f.data) = (Len(s) - 1) * G + Len(s[Len(s)].data)
      /\ Len(m) = Len(s) /\ m = [i \in 1..Len(s) |-> m[i]]
      /\ \A i \in 1..Len(s) : SameButFlags(m[i], s[i])
  BY <1>2, <1>4, RunSplit, Zenon
<1> HIDE DEF f, m
<1>6. m \in Seq(Piece(F))
  <2>1. \A i \in 1..Len(s) : m[i] \in Piece(F)
    BY <1>4, <1>5, SamePiece, Zenon
  <2>2. Len(s) \in Nat
    BY <1>4
  <2> QED
    BY <1>5, <2>1, <2>2
<1>7. Bytes(b, a, e - 1) = Len(f.data)
  <2>1. c \in Nat \ {0} /\ c \in 1..c /\ a \in Nat /\ a + c - 1 = e - 1
    BY <1>3
  <2>2. /\ \A n \in 1..(c - 1) : Len(b[a + n - 1].data) = G
        /\ Len(b[a + c - 1].data) \in Nat /\ G \in Nat
    <3>1. \A n \in 1..(c - 1) : n \in 1..c
      BY <2>1
    <3>2. /\ \A n \in 1..(c - 1) : Len(s[n].data) = G
          /\ Len(s[c].data) \in 1..G /\ G \in Nat
      BY <1>2, <2>1, Zenon DEF Run
    <3> HIDE DEF c
    <3>3. \A n \in 1..c : s[n] = b[a + n - 1]
      BY <1>2, Zenon
    <3>4. Len(s[c].data) \in Nat
      BY <3>2
    <3> QED
      BY <2>1, <3>1, <3>2, <3>3, <3>4, Zenon
  <2> HIDE DEF c
  <2>3. Bytes(b, a, a + c - 1) = (c - 1) * G + Len(b[a + c - 1].data)
    <3>1. LengthsAt(b, a, c, G) /\ G \in Nat
      BY <2>2, Zenon DEF LengthsAt
    <3> QED
      BY <2>1, <3>1, BytesAre, Zenon
  <2>4. s[c] = b[a + c - 1]
    BY <1>2, <2>1, Zenon
  <2>5. Len(f.data) = (c - 1) * G + Len(s[c].data)
    BY <1>2, <1>5, Zenon
  <2> QED
    BY <2>1, <2>3, <2>4, <2>5, Zenon
<1>8. HEADER + Len(f.data) <= LENMAX
  BY <1>3, <1>7, Zenon DEF Extends
<1> QED
  BY <1>1, <1>2, <1>5, <1>6, <1>8, Zenon DEF Writes, m, a, e

-----------------------------------------------------------------------------
(* The plan of a batch. *)

\* The group that begins at i.
GroupAt(b, i) == [start |-> i, end |-> RunEnd(b, i), coalesce |-> RunEnd(b, i) - i >= 2]

\* It is a good one.
LEMMA GroupAtIs ==
  ASSUME NEW b, Len(b) \in Nat, NEW i \in 1..Len(b)
  PROVE  /\ RunEnd(b, i) \in 1..(Len(b) + 1) /\ RunEnd(b, i) > i
         /\ GroupAt(b, i) \in Group /\ GoodGroup(b, GroupAt(b, i))
<1> DEFINE e == RunEnd(b, i)
           N == Len(b)
           T == {x \in (i + 1)..(N + 1) : \A j \in (i + 1)..(x - 1) : Extends(b, i, j)}
<1>1. /\ e \in (i + 1)..(N + 1)
      /\ e # i + 1 => /\ parse_coalescible_tcp(b[i])
                      /\ \A j \in (i + 1)..(e - 1) : Extends(b, i, j)
  <2>1. CASE ~parse_coalescible_tcp(b[i])
    BY <2>1 DEF RunEnd
  <2>2. CASE parse_coalescible_tcp(b[i])
    <3>1. e = Max(T)
      BY <2>2, Zenon DEF RunEnd
    <3>2. i + 1 \in T
      <4>1. i + 1 \in (i + 1)..(N + 1) /\ (i + 1)..((i + 1) - 1) = {}
        OBVIOUS
      <4> QED
        BY <4>1, Zenon
    <3>3. T \subseteq 0..(N + 1) /\ N + 1 \in Nat /\ T # {}
      <4>1. (i + 1)..(N + 1) \subseteq 0..(N + 1)
        OBVIOUS
      <4>2. T \subseteq (i + 1)..(N + 1) /\ N + 1 \in Nat
        OBVIOUS
      <4> HIDE DEF T
      <4> QED
        BY <3>2, <4>1, <4>2, Zenon
    <3>4. \A x : x \in T => /\ x \in (i + 1)..(N + 1)
                            /\ \A j \in (i + 1)..(x - 1) : Extends(b, i, j)
      BY Zenon
    <3> HIDE DEF T, e
    <3>5. e \in T
      BY <3>1, <3>3, MaxIs, Zenon
    <3> QED
      BY <2>2, <3>4, <3>5, Zenon
  <2> QED
    BY <2>1, <2>2, Zenon
<1> DEFINE g == GroupAt(b, i)
<1>2. g.start = i /\ g.end = e /\ (g.coalesce <=> e - i >= 2)
      /\ g = [start |-> i, end |-> e, coalesce |-> e - i >= 2]
  BY Zenon DEF GroupAt
<1> HIDE DEF e, g, N
<1>3. N \in Nat /\ i \in 1..N
  BY Zenon DEF N
<1>4. e \in Nat \ {0} /\ i \in Nat \ {0} /\ e > i /\ e <= N + 1 /\ e \in 1..(N + 1)
      /\ (e - i >= 2) \in BOOLEAN
  BY <1>1, <1>3
<1>5. g \in Group
  BY <1>2, <1>4 DEF Group
<1>6. GoodGroup(b, g)
  <2>1. g.coalesce => e # i + 1 /\ e >= i + 2
    BY <1>2, <1>4
  <2>2. ~g.coalesce => e = i + 1
    BY <1>2, <1>4
  <2> QED
    BY <1>1, <1>2, <1>4, <2>1, <2>2, Zenon DEF GoodGroup, N
<1> QED
  BY <1>4, <1>5, <1>6, Zenon DEF e, g, N

\* gs are the groups of b from i on.
PlannedFrom(b, gs, i) ==
  /\ gs \in Seq(Group) /\ Plan(b, gs)
  /\ i = Len(b) + 1 => gs = <<>>
  /\ i # Len(b) + 1 => Len(gs) > 0 /\ gs[1].start = i

\* A group before the ones that follow it.
LEMMA PlanBefore ==
  ASSUME NEW b, Len(b) \in Nat, NEW g \in Group, GoodGroup(b, g), g.start # Len(b) + 1,
         NEW gs, PlannedFrom(b, gs, g.end)
  PROVE  PlannedFrom(b, <<g>> \o gs, g.start)
<1> DEFINE n == Len(gs)
           t == <<g>> \o gs
<1>1. gs \in Seq(Group) /\ Plan(b, gs) /\ n \in Nat
  BY DEF PlannedFrom
<1>2. t \in Seq(Group) /\ Len(t) = n + 1 /\ t[1] = g /\ \A i \in 1..n : t[i + 1] = gs[i]
  <2>1. <<g>> \in Seq(Group) /\ Len(<<g>>) = 1 /\ <<g>>[1] = g
    OBVIOUS
  <2>2. /\ t \in Seq(Group) /\ Len(t) = 1 + n
        /\ \A i \in 1..(1 + n) : t[i] = IF i <= 1 THEN <<g>>[i] ELSE gs[i - 1]
    BY <1>1, <2>1, ConcatProperties
  <2> HIDE DEF t
  <2>3. t[1] = g
    BY <1>1, <2>1, <2>2
  <2>4. ASSUME NEW i \in 1..n PROVE t[i + 1] = gs[i]
    <3>1. i + 1 \in 1..(1 + n) /\ ~(i + 1 <= 1) /\ i + 1 - 1 = i
      BY <1>1
    <3> QED
      BY <2>2, <3>1
  <2> QED
    BY <1>1, <2>2, <2>3, <2>4
<1> HIDE DEF t, n
<1>3. (n = 0 => g.end = Len(b) + 1) /\ (n # 0 => gs[1].start = g.end)
  <2>1. g.end = Len(b) + 1 \/ g.end # Len(b) + 1
    BY Zenon
  <2> QED
    BY <1>1 DEF PlannedFrom, n
<1>4. ASSUME NEW i \in 1..(n + 1)
      PROVE  /\ GoodGroup(b, t[i])
             /\ t[i].end = IF i = n + 1 THEN Len(b) + 1 ELSE t[i + 1].start
  <2>1. CASE i = 1
    <3>1. t[i] = g /\ (n # 0 => t[i + 1] = gs[1]) /\ (i = n + 1 <=> n = 0)
      BY <1>1, <1>2, <2>1
    <3> QED
      BY <1>3, <3>1, Zenon
  <2>2. CASE i # 1
    <3> DEFINE j == i - 1
    <3>1. j \in 1..n /\ i = j + 1 /\ (i = n + 1 <=> j = n) /\ (j # n => j + 1 \in 1..n)
      BY <1>1, <2>2
    <3> HIDE DEF j
    <3>2. t[i] = gs[j] /\ (j # n => t[i + 1] = gs[j + 1])
      BY <1>2, <3>1, Zenon
    <3>3. GoodGroup(b, gs[j]) /\ gs[j].end = IF j = n THEN Len(b) + 1 ELSE gs[j + 1].start
      BY <1>1, <3>1, Zenon DEF Plan, n
    <3> QED
      BY <3>1, <3>2, <3>3, Zenon
  <2> QED
    BY <2>1, <2>2, Zenon
<1>5. Plan(b, t)
  BY <1>2, <1>4, Zenon DEF Plan
<1>6. Len(t) > 0 /\ t[1].start = g.start
  BY <1>1, <1>2
<1> QED
  BY <1>2, <1>5, <1>6, Zenon DEF PlannedFrom, t

\* plan_tun_write_groups covers the batch, in order and without a gap.
LEMMA PlanIs ==
  ASSUME NEW b, Len(b) \in Nat
  PROVE  PlannedFrom(b, plan_tun_write_groups(b), 1)
<1> DEFINE N == Len(b)
           D == Seq(Group)
           Eq(u) == u = [i \in 1..(N + 1) |->
                           IF i > N THEN <<>> ELSE <<GroupAt(b, i)>> \o u[RunEnd(b, i)]]
           F == [i \in 1..N |-> [v \in D |-> <<GroupAt(b, i)>> \o v]]
           E == [i \in 1..N |-> RunEnd(b, i)]
           w == CHOOSE u : Eq(u)
<1>1. N \in Nat
  BY Zenon
<1>2. \A i \in 1..N : /\ RunEnd(b, i) \in 1..(N + 1) /\ RunEnd(b, i) > i
                      /\ GroupAt(b, i) \in Group /\ GoodGroup(b, GroupAt(b, i))
  BY GroupAtIs, Zenon
<1>3. plan_tun_write_groups(b) = w[1]
  BY Zenon DEF plan_tun_write_groups, GroupAt
<1> HIDE DEF N
<1>4. \E u : Eq(u)
  <2>1. F \in [1..N -> [D -> D]]
    <3>1. ASSUME NEW i \in 1..N, NEW v \in D PROVE <<GroupAt(b, i)>> \o v \in D
      BY <1>2
    <3> HIDE DEF D
    <3> QED
      BY <3>1, Zenon
  <2>2. E \in [1..N -> 1..(N + 1)] /\ \A i \in 1..N : E[i] > i
    BY <1>2, Zenon
  <2>3. <<>> \in D
    OBVIOUS
  <2>4. PICK u \in [1..(N + 1) -> D] : Descends(u, N, <<>>, F, E, 1)
    <3> HIDE DEF F, E, D
    <3> QED
      BY <1>1, <2>1, <2>2, <2>3, DescentExists, Zenon
  <2>5. ASSUME NEW i \in 1..(N + 1)
        PROVE  u[i] = IF i > N THEN <<>> ELSE <<GroupAt(b, i)>> \o u[RunEnd(b, i)]
    <3>1. i >= 1 /\ (i > N <=> i = N + 1) /\ (~(i > N) => i \in 1..N)
      BY <1>1
    <3>2. u[i] = IF i = N + 1 THEN <<>> ELSE F[i][u[E[i]]]
      <4> HIDE DEF F, E, D
      <4> QED
        BY <2>4, <3>1, Zenon DEF Descends
    <3>3. ~(i > N) => F[i][u[E[i]]] = <<GroupAt(b, i)>> \o u[RunEnd(b, i)]
      <4> HIDE DEF D
      <4> QED
        BY <1>2, <2>4, <3>1, Zenon
    <3> HIDE DEF F, E, D
    <3> QED
      BY <3>1, <3>2, <3>3, Zenon
  <2>6. u = [i \in 1..(N + 1) |-> u[i]]
    BY <2>4, Zenon
  <2>7. Eq(u)
    BY <2>5, <2>6, Zenon
  <2> HIDE DEF Eq
  <2> QED
    BY <2>7, Zenon
<1>5. Eq(w)
  <2> HIDE DEF Eq
  <2> QED
    BY <1>4, Zenon
<1> HIDE DEF w
<1>6. \A i \in 1..(N + 1) :
        w[i] = IF i > N THEN <<>> ELSE <<GroupAt(b, i)>> \o w[RunEnd(b, i)]
  BY <1>5, Zenon
<1> DEFINE At(i) == PlannedFrom(b, w[i], i)
           Good == {m \in Nat : \A i \in 1..(N + 1) : i >= N + 1 - m => At(i)}
<1>7. 0 \in Good
  <2>1. ASSUME NEW i \in 1..(N + 1), i >= N + 1 - 0 PROVE At(i)
    <3>1. i = N + 1 /\ i > N
      BY <1>1, <2>1
    <3>2. w[i] = <<>>
      BY <1>6, <3>1, Zenon
    <3> QED
      BY <3>1, <3>2 DEF PlannedFrom, Plan, N
  <2> HIDE DEF At
  <2> QED
    BY <2>1, Zenon
<1>8. ASSUME NEW m \in Nat, m \in Good PROVE m + 1 \in Good
  <2>1. ASSUME NEW i \in 1..(N + 1), i >= N + 1 - (m + 1) PROVE At(i)
    <3>1. CASE i >= N + 1 - m
      BY <1>8, <3>1, Zenon
    <3>2. CASE ~(i >= N + 1 - m)
      <4>1. i \in 1..N /\ i # N + 1 /\ ~(i > N) /\ \A x \in 1..(N + 1) : x > i => x >= N + 1 - m
        BY <1>1, <2>1, <3>2
      <4> DEFINE e == RunEnd(b, i)
                 g == GroupAt(b, i)
      <4>2. e \in 1..(N + 1) /\ e > i /\ g \in Group /\ GoodGroup(b, g)
        BY <1>2, <4>1, Zenon
      <4>3. g.start = i /\ g.end = e
        BY Zenon DEF GroupAt
      <4> HIDE DEF e, g
      <4>4. PlannedFrom(b, w[e], e)
        BY <1>8, <4>1, <4>2, Zenon
      <4>5. w[i] = <<g>> \o w[e]
        BY <1>6, <4>1, Zenon DEF e, g
      <4>6. PlannedFrom(b, <<g>> \o w[e], g.start)
        BY <4>1, <4>2, <4>3, <4>4, PlanBefore, Zenon DEF N
      <4> QED
        BY <4>3, <4>5, <4>6, Zenon
    <3> QED
      BY <3>1, <3>2, Zenon
  <2> HIDE DEF At
  <2> QED
    BY <2>1
<1>9. Nat \subseteq Good
  <2> HIDE DEF Good
  <2> QED
    BY <1>7, <1>8, Induct, Zenon
<1>10. N \in Good /\ 1 \in 1..(N + 1) /\ 1 >= N + 1 - N
  <2>1. 1 \in 1..(N + 1) /\ 1 >= N + 1 - N
    BY <1>1
  <2> HIDE DEF Good
  <2> QED
    BY <1>1, <1>9, <2>1, Zenon
<1>11. At(1)
  <2> HIDE DEF At
  <2> QED
    BY <1>10, Zenon
<1> QED
  BY <1>3, <1>11, Zenon

\* Without offload every packet is a group.
LEMMA SinglesIs ==
  ASSUME NEW b, Len(b) \in Nat
  PROVE  PlannedFrom(b, Singles(b), 1)
<1> DEFINE N == Len(b)
           gs == Singles(b)
<1>1. /\ gs \in Seq(Group) /\ Len(gs) = N
      /\ \A i \in 1..N : gs[i].start = i /\ gs[i].end = i + 1 /\ gs[i].coalesce = FALSE
  <2>1. \A i \in 1..N : [start |-> i, end |-> i + 1, coalesce |-> FALSE] \in Group
    BY DEF Group
  <2> QED
    BY <2>1 DEF Singles
<1> HIDE DEF gs, N
<1>2. N \in Nat
  BY Zenon DEF N
<1>3. ASSUME NEW i \in 1..N
      PROVE  GoodGroup(b, gs[i]) /\ gs[i].end = IF i = N THEN N + 1 ELSE gs[i + 1].start
  <2>1. GoodGroup(b, gs[i])
    BY <1>1, <1>2 DEF GoodGroup, N
  <2>2. i # N => i + 1 \in 1..N
    BY <1>2
  <2> QED
    BY <1>1, <2>1, <2>2, Zenon
<1>4. Plan(b, gs)
  BY <1>1, <1>3, Zenon DEF Plan, N
<1>5. (1 = N + 1 => gs = <<>>) /\ (1 # N + 1 => Len(gs) > 0 /\ gs[1].start = 1)
  <2>1. 1 = N + 1 => Len(gs) = 0
    BY <1>1, <1>2
  <2>2. Len(gs) = 0 => gs = <<>>
    BY <1>1
  <2>3. 1 # N + 1 => Len(gs) > 0 /\ 1 \in 1..N
    BY <1>1, <1>2
  <2>4. 1 # N + 1 => gs[1].start = 1
    BY <1>1, <2>3, Zenon
  <2> QED
    BY <2>1, <2>2, <2>3, <2>4, Zenon
<1> QED
  BY <1>1, <1>4, <1>5, Zenon DEF PlannedFrom, gs, N

-----------------------------------------------------------------------------
(* The invariant is inductive. *)

\* The next group to write.
LEMMA HeadGroup ==
  ASSUME TunType, groups # <<>>
  PROVE  /\ Len(groups) \in Nat \ {0} /\ 1 \in 1..Len(groups) /\ Head(groups) = groups[1]
         /\ groups[1] \in Group /\ GoodGroup(batch, groups[1]) /\ Len(batch) \in Nat
         /\ groups[1].start \in Nat \ {0} /\ groups[1].end \in Nat \ {0}
         /\ groups[1].start < groups[1].end /\ groups[1].end <= Len(batch) + 1
<1>1. groups \in Seq(Group) /\ batch \in Seq(Piece(setup.frames)) /\ Plan(batch, groups)
  BY Zenon DEF TunType
<1>2. Len(groups) \in Nat \ {0} /\ Head(groups) = groups[1] /\ Len(batch) \in Nat
  BY <1>1
<1>3. 1 \in 1..Len(groups)
  BY <1>2
<1>4. groups[1] \in Group
  BY <1>1, <1>3
<1>5. GoodGroup(batch, groups[1])
  BY <1>1, <1>3, Zenon DEF Plan
<1> QED
  BY <1>2, <1>3, <1>4, <1>5, Zenon DEF Group, GoodGroup

\* Nothing is under way at the start.
LEMMA TunInit == Init => TunInv
<1> SUFFICES ASSUME Init PROVE TunInv
  BY Zenon
<1>1. setup \in Setups /\ unsent \subseteq setup.frames /\ net \subseteq Piece(setup.frames)
  BY Zenon DEF Init
<1>2. /\ chan \in Seq(Piece(setup.frames)) /\ batch \in Seq(Piece(setup.frames))
      /\ host \in Seq(Piece(setup.frames)) /\ groups \in Seq(Group)
      /\ Len(chan) = 0 /\ Len(host) = 0 /\ Len(groups) = 0
  BY DEF Init
<1>3. Plan(batch, groups)
  BY <1>2 DEF Plan
<1>4. stats \in [from_clients : Nat, tun_write_failed : Nat] /\ dropped \in Nat
  BY Zenon DEF Init
<1>5. TunType
  BY <1>1, <1>2, <1>3, <1>4, Zenon DEF TunType
<1>6. Left = 0
  BY Zenon DEF Init, Left
<1>7. stats.from_clients = 0 /\ dropped = 0 /\ writer # "exited"
  BY Zenon DEF Init
<1>8. Counted
  BY <1>2, <1>6, <1>7 DEF Counted
<1> QED
  BY <1>5, <1>8, Zenon DEF TunInv

\* A frame is read: its packets are pieces of it.
LEMMA TunReadFrame == TunInv /\ ReadFrame => TunInv'
<1> SUFFICES ASSUME TunInv, ReadFrame PROVE TunInv'
  BY Zenon
<1> DEFINE F == setup.frames
<1>1. PICK f \in unsent : /\ unsent' = unsent \ {f}
                          /\ net' = net \cup Range(materialize_offload_into(f))
  BY Zenon DEF ReadFrame
<1>2. f \in F /\ setup \in Setups
  BY <1>1, Zenon DEF TunInv, TunType
<1>3. GoodFrame(f)
  BY <1>2, SetupAssumption, Zenon DEF GoodFrame
<1>4. materialize_offload_into(f) \in Seq(Piece(F))
  BY <1>2, <1>3, FrameCut, Zenon
<1>5. Range(materialize_offload_into(f)) \subseteq Piece(F)
  BY <1>4 DEF Range
<1>6. net' \subseteq Piece(setup'.frames) /\ unsent' \subseteq setup'.frames
  BY <1>1, <1>5, Zenon DEF ReadFrame, TunInv, TunType
<1>7. TunType'
  BY <1>6, Zenon DEF ReadFrame, TunInv, TunType, Plan, GoodGroup
<1>8. Counted'
  BY Zenon DEF ReadFrame, TunInv, Counted, Left
<1> QED
  BY <1>7, <1>8, Zenon DEF TunInv

\* A datagram is lost.
LEMMA TunLose == TunInv /\ Lose => TunInv'
<1> SUFFICES ASSUME TunInv, Lose PROVE TunInv'
  BY Zenon
<1>1. TunType'
  BY Zenon DEF Lose, TunInv, TunType, Plan, GoodGroup
<1>2. Counted'
  BY Zenon DEF Lose, TunInv, Counted, Left
<1> QED
  BY <1>1, <1>2, Zenon DEF TunInv

\* The senders are gone, the writer exits, or nothing happens.
LEMMA TunEnds == TunInv /\ (SendersGone \/ WriterExits \/ UNCHANGED vars) => TunInv'
<1> SUFFICES ASSUME TunInv, SendersGone \/ WriterExits \/ UNCHANGED vars PROVE TunInv'
  BY Zenon
<1>1. UNCHANGED <<setup, unsent, net, chan, batch, groups, host, stats, dropped>>
  BY Zenon DEF SendersGone, WriterExits, vars
<1>2. TunType'
  BY <1>1, Zenon DEF TunInv, TunType, Plan, GoodGroup
<1>3. (writer = "exited" => groups = <<>> /\ chan = <<>> /\ ~open)'
  BY <1>1, Zenon DEF SendersGone, WriterExits, vars, TunInv, Counted
<1>4. Left' = Left
  BY <1>1, Zenon DEF Left
<1>5. Counted'
  BY <1>1, <1>3, <1>4, Zenon DEF TunInv, Counted
<1> QED
  BY <1>2, <1>5, Zenon DEF TunInv

\* A datagram is enqueued and counted, or finds the writer gone.
LEMMA TunEnqueue == TunInv /\ Enqueue => TunInv'
<1> SUFFICES ASSUME TunInv, Enqueue PROVE TunInv'
  BY Zenon
<1>1. PICK p \in net :
       /\ net' = net \ {p}
       /\ \/ /\ writer = "running" /\ Len(chan) < TUN_CHANNEL_SIZE
             /\ chan' = Append(chan, p)
             /\ stats' = [stats EXCEPT !.from_clients = @ + 1] /\ UNCHANGED open
          \/ /\ writer # "running"
             /\ open' = FALSE /\ UNCHANGED <<chan, stats>>
  BY Zenon DEF Enqueue
<1>2. UNCHANGED <<setup, unsent, batch, groups, host, writer, dropped>> /\ open
  BY Zenon DEF Enqueue
<1>3. Left' = Left
  BY <1>2, Zenon DEF Left
<1>4. CASE writer = "running" /\ chan' = Append(chan, p)
           /\ stats' = [stats EXCEPT !.from_clients = @ + 1]
  <2>1. /\ chan \in Seq(Piece(setup.frames)) /\ p \in Piece(setup.frames)
        /\ stats \in [from_clients : Nat, tun_write_failed : Nat]
        /\ host \in Seq(Piece(setup.frames))
    BY Zenon DEF TunInv, TunType
  <2>2. chan' \in Seq(Piece(setup'.frames)) /\ Len(chan') = Len(chan) + 1
    <3> DEFINE P == Piece(setup.frames)
    <3>1. chan \in Seq(P) /\ p \in P
      BY <2>1, Zenon
    <3>2. P = Piece(setup'.frames)
      BY <1>2, Zenon
    <3> HIDE DEF P
    <3>3. Append(chan, p) \in Seq(P) /\ Len(Append(chan, p)) = Len(chan) + 1
      BY <3>1
    <3> QED
      BY <1>4, <3>2, <3>3, Zenon
  <2>3. /\ stats' \in [from_clients : Nat, tun_write_failed : Nat]
        /\ stats'.from_clients = stats.from_clients + 1
    BY <1>4, <2>1
  <2>4. TunType'
    BY <1>1, <1>2, <2>2, <2>3, Zenon DEF TunInv, TunType, Plan, GoodGroup
  <2>5. stats'.from_clients = Len(host') + dropped' + Len(chan') + Left'
    <3> DEFINE x == stats'.from_clients
               y == Len(chan')
               h == Len(host)
               l == Len(chan)
               k == Left
    <3>1. stats.from_clients = h + dropped + l + k /\ stats.from_clients \in Nat
          /\ h \in Nat /\ l \in Nat /\ dropped \in Nat
      BY <2>1 DEF TunInv, TunType, Counted
    <3>2. k \in Int
      <4>1. groups # <<>> => groups[1].start \in Int /\ Len(batch) \in Int
        BY HeadGroup DEF TunInv
      <4>2. groups # <<>> => Len(batch) + 1 - groups[1].start \in Int
        BY <4>1
      <4> QED
        BY <4>2 DEF Left
    <3>3. x = stats.from_clients + 1 /\ y = l + 1 /\ Left' = k /\ Len(host') = h
          /\ dropped' = dropped
      BY <1>2, <1>3, <2>2, <2>3, Zenon
    <3> HIDE DEF x, y, h, l, k
    <3>4. x = h + dropped + y + k
      BY <3>1, <3>2, <3>3
    <3> QED
      BY <3>3, <3>4, Zenon DEF x, y
  <2>6. (writer = "exited" => groups = <<>> /\ chan = <<>> /\ ~open)'
    BY <1>2, <1>4, Zenon
  <2>7. Counted'
    BY <2>5, <2>6, Zenon DEF Counted
  <2> QED
    BY <2>4, <2>7, Zenon DEF TunInv
<1>5. CASE open' = FALSE /\ UNCHANGED <<chan, stats>>
  <2>1. TunType'
    BY <1>1, <1>2, <1>5, Zenon DEF TunInv, TunType, Plan, GoodGroup
  <2>2. Counted'
    BY <1>2, <1>3, <1>5, Zenon DEF TunInv, Counted
  <2> QED
    BY <2>1, <2>2, Zenon DEF TunInv
<1> QED
  BY <1>1, <1>4, <1>5, Zenon

\* A batch is taken from the channel and planned.
LEMMA TunRecvMany == TunInv /\ RecvMany => TunInv'
<1> SUFFICES ASSUME TunInv, RecvMany PROVE TunInv'
  BY Zenon
<1> DEFINE F == setup.frames
           L == Len(chan)
           n == Min({L, WRITE_BATCH_SIZE})
<1>1. /\ writer = "running" /\ groups = <<>> /\ chan # <<>>
      /\ batch' = SubSeq(chan, 1, n) /\ chan' = SubSeq(chan, n + 1, L)
      /\ groups' = IF setup.offload_enabled THEN plan_tun_write_groups(batch') ELSE Singles(batch')
      /\ UNCHANGED <<setup, unsent, net, host, open, writer, stats, dropped>>
  BY Zenon DEF RecvMany
<1>2. chan \in Seq(Piece(F)) /\ L \in Nat /\ L # 0
  BY <1>1 DEF TunInv, TunType
<1>3. n \in 1..L
  <2>1. WRITE_BATCH_SIZE \in Nat \ {0}
    BY SetupAssumption, Zenon
  <2> HIDE DEF L
  <2>2. n \in Nat /\ n = IF L <= WRITE_BATCH_SIZE THEN L ELSE WRITE_BATCH_SIZE
    BY <1>2, <2>1, MinIs, Zenon
  <2> HIDE DEF n
  <2> QED
    BY <1>2, <2>1, <2>2
<1> HIDE DEF n
<1>4. batch' \in Seq(Piece(F)) /\ Len(batch') = n
  BY <1>1, <1>2, <1>3
<1>5. chan' \in Seq(Piece(F)) /\ Len(chan') = L - n
  <2>1. n + 1 \in Int /\ L \in Int /\ \A i \in (n + 1)..L : i \in 1..Len(chan)
    BY <1>2, <1>3
  <2>2. \A i \in (n + 1)..L : chan[i] \in Piece(F)
    BY <1>2, <2>1
  <2> DEFINE t == SubSeq(chan, n + 1, L)
  <2> HIDE DEF L
  <2>3. t \in Seq(Piece(F)) /\ Len(t) = IF n + 1 <= L THEN L - (n + 1) + 1 ELSE 0
    BY <2>1, <2>2, SubSeqProperties, Zenon
  <2> HIDE DEF t
  <2>4. Len(t) = L - n
    BY <1>2, <1>3, <2>3
  <2> QED
    BY <1>1, <2>3, <2>4, Zenon DEF t
<1>6. PlannedFrom(batch', groups', 1)
  <2>1. Len(batch') \in Nat
    BY <1>3, <1>4
  <2>2. PlannedFrom(batch', plan_tun_write_groups(batch'), 1)
    BY <2>1, PlanIs, Zenon
  <2>3. PlannedFrom(batch', Singles(batch'), 1)
    BY <2>1, SinglesIs, Zenon
  <2> QED
    BY <1>1, <2>2, <2>3, Zenon
<1>7. groups' \in Seq(Group) /\ Plan(batch', groups') /\ groups' # <<>> /\ groups'[1].start = 1
  <2>1. 1 # Len(batch') + 1
    BY <1>2, <1>3, <1>4
  <2>2. groups' \in Seq(Group) /\ Plan(batch', groups') /\ Len(groups') > 0
        /\ groups'[1].start = 1
    BY <1>6, <2>1, Zenon DEF PlannedFrom
  <2> QED
    BY <2>2
<1>8. TunType'
  BY <1>1, <1>4, <1>5, <1>7, Zenon DEF TunInv, TunType, Plan, GoodGroup
<1>9. Left = 0 /\ Left' = n
  <2>1. Left' = Len(batch') + 1 - groups'[1].start
    BY <1>7, Zenon DEF Left
  <2> QED
    BY <1>1, <1>2, <1>3, <1>4, <1>7, <2>1 DEF Left
<1>10. Counted'
  <2>1. stats.from_clients = Len(host) + dropped + L + 0 /\ Len(host) \in Nat /\ dropped \in Nat
    BY <1>9 DEF TunInv, TunType, Counted
  <2>2. stats.from_clients = Len(host) + dropped + (L - n) + n
    <3> DEFINE h == Len(host)
    <3> HIDE DEF h, L
    <3>1. stats.from_clients = h + dropped + L + 0 /\ h \in Nat /\ dropped \in Nat
      BY <2>1, Zenon DEF h
    <3>2. h + dropped + L + 0 = h + dropped + (L - n) + n
      BY <1>2, <1>3, <3>1
    <3> QED
      BY <3>1, <3>2, Zenon DEF h
  <2> QED
    BY <1>1, <1>5, <1>9, <2>2, Zenon DEF Counted
<1> QED
  BY <1>8, <1>10, Zenon DEF TunInv

\* A group is written: what the host gets are its packets.
LEMMA TunWriteGroup == TunInv /\ WriteGroup => TunInv'
<1> SUFFICES ASSUME TunInv, WriteGroup PROVE TunInv'
  BY Zenon
<1> DEFINE F == setup.frames
           g == groups[1]
           m == materialize_offload_into(FrameOf(batch, g))
           n == Len(groups)
           N == Len(batch)
<1>1. /\ n \in Nat \ {0} /\ 1 \in 1..n /\ Head(groups) = g /\ N \in Nat
      /\ g \in Group /\ GoodGroup(batch, g) /\ g.start \in Nat \ {0} /\ g.end \in Nat \ {0}
      /\ g.start < g.end /\ g.end <= N + 1
  BY HeadGroup, Zenon DEF TunInv, WriteGroup
<1>2. /\ writer = "running" /\ groups # <<>> /\ host' = host \o m /\ groups' = Tail(groups)
      /\ UNCHANGED <<setup, unsent, net, chan, batch, open, writer, stats, dropped>>
  BY <1>1, Zenon DEF WriteGroup
<1>3. batch \in Seq(Piece(F)) /\ host \in Seq(Piece(F)) /\ chan \in Seq(Piece(F))
      /\ groups \in Seq(Group) /\ Plan(batch, groups)
  BY Zenon DEF TunInv, TunType
<1>4. m \in Seq(Piece(F)) /\ Len(m) = g.end - g.start
  <2>1. Writes(F, batch, g)
    BY <1>1, <1>3, SingleWritten, RunWritten, Zenon
  <2> QED
    BY <2>1, Zenon DEF Writes
<1> HIDE DEF m, g
<1>5. host' \in Seq(Piece(F)) /\ Len(host') = Len(host) + (g.end - g.start)
  <2>1. host \o m \in Seq(Piece(F)) /\ Len(host \o m) = Len(host) + Len(m)
    BY <1>3, <1>4, ConcatProperties, Zenon
  <2> QED
    BY <1>2, <1>4, <2>1, Zenon
<1>6. groups' \in Seq(Group) /\ Len(groups') = n - 1 /\ \A i \in 1..(n - 1) : groups'[i] = groups[i + 1]
  BY <1>2, <1>3
<1>7. \A i \in 1..n : /\ GoodGroup(batch, groups[i])
                      /\ groups[i].end = IF i = n THEN N + 1 ELSE groups[i + 1].start
  BY <1>3, Zenon DEF Plan
<1> HIDE DEF n, N
<1>8. Plan(batch', groups')
  <2>1. ASSUME NEW i \in 1..(n - 1)
        PROVE  /\ GoodGroup(batch, groups'[i])
               /\ groups'[i].end = IF i = n - 1 THEN N + 1 ELSE groups'[i + 1].start
    <3> DEFINE j == i + 1
    <3>1. j \in 1..n /\ (j = n <=> i = n - 1) /\ (i # n - 1 => i + 1 \in 1..(n - 1))
      BY <1>1
    <3>2. groups'[i] = groups[j] /\ (i # n - 1 => groups'[i + 1] = groups[j + 1])
      BY <1>6, <3>1, Zenon
    <3> HIDE DEF j
    <3>3. GoodGroup(batch, groups[j]) /\ groups[j].end = IF j = n THEN N + 1 ELSE groups[j + 1].start
      BY <1>7, <3>1, Zenon
    <3> QED
      BY <3>1, <3>2, <3>3, Zenon
  <2> QED
    BY <1>2, <1>6, <2>1, Zenon DEF Plan, N
<1>9. TunType'
  BY <1>2, <1>5, <1>6, <1>8, Zenon DEF TunInv, TunType
<1>10. Left = N + 1 - g.start
  BY <1>2, Zenon DEF Left, g, N
<1>11. Left' = N + 1 - g.end
  <2>1. g.end = IF 1 = n THEN N + 1 ELSE groups[2].start
    BY <1>1, <1>7 DEF g
  <2>2. CASE n = 1
    <3>1. groups' = <<>>
      BY <1>6, <2>2
    <3> QED
      BY <1>1, <2>1, <2>2, <3>1 DEF Left
  <2>3. CASE n # 1
    <3>1. groups' # <<>> /\ groups'[1] = groups[2]
      BY <1>1, <1>6, <2>3
    <3> QED
      BY <1>2, <2>1, <2>3, <3>1, Zenon DEF Left, N
  <2> QED
    BY <2>2, <2>3, Zenon
<1>12. Counted'
  <2> DEFINE h == Len(host)
             h2 == Len(host')
             l == Len(chan)
             a == g.start
             e == g.end
             c == stats.from_clients
  <2>1. c = h + dropped + l + (N + 1 - a) /\ h \in Nat /\ dropped \in Nat /\ l \in Nat
    BY <1>3, <1>10 DEF TunInv, TunType, Counted
  <2>2. h2 = h + (e - a)
    BY <1>5, Zenon
  <2>3. a \in Nat /\ e \in Nat
    BY <1>1, Zenon
  <2> HIDE DEF h, h2, l, a, e, c
  <2>4. c = h2 + dropped + l + (N + 1 - e)
    BY <1>1, <2>1, <2>2, <2>3
  <2> QED
    BY <1>2, <1>11, <2>4, Zenon DEF Counted, c, h2, l, e
<1> QED
  BY <1>9, <1>12, Zenon DEF TunInv

\* A write fails: the rest of the batch is dropped.
LEMMA TunWriteFails == TunInv /\ WriteFails => TunInv'
<1> SUFFICES ASSUME TunInv, WriteFails PROVE TunInv'
  BY Zenon
<1> DEFINE g == groups[1]
           N == Len(batch)
<1>1. /\ Head(groups) = g /\ N \in Nat /\ g.start \in Nat \ {0} /\ g.end \in Nat \ {0}
      /\ g.start < g.end /\ g.end <= N + 1
  BY HeadGroup, Zenon DEF TunInv, WriteFails
<1>2. /\ groups # <<>> /\ groups' = <<>> /\ dropped' = dropped + N + 1 - g.start
      /\ writer = "running" /\ writer' # "exited"
      /\ UNCHANGED <<setup, unsent, net, chan, batch, host, open>>
  BY <1>1, Zenon DEF WriteFails
<1>3. /\ stats' \in [from_clients : Nat, tun_write_failed : Nat]
      /\ stats'.from_clients = stats.from_clients
  BY DEF WriteFails, TunInv, TunType
<1>4. Left = N + 1 - g.start /\ Left' = 0
  BY <1>2, Zenon DEF Left
<1> HIDE DEF g, N
<1>5. dropped \in Nat /\ dropped' \in Nat
  <2>1. dropped \in Nat
    BY Zenon DEF TunInv, TunType
  <2> QED
    BY <1>1, <1>2, <2>1
<1>6. groups' \in Seq(Group) /\ Len(groups') = 0
  BY <1>2
<1>7. Plan(batch', groups')
  BY <1>6 DEF Plan
<1>8. TunType'
  BY <1>2, <1>3, <1>5, <1>6, <1>7, Zenon DEF TunInv, TunType
<1>9. Counted'
  <2> DEFINE h == Len(host)
             l == Len(chan)
             c == stats.from_clients
             d == dropped'
  <2>1. c = h + dropped + l + (N + 1 - g.start) /\ h \in Nat /\ l \in Nat
    BY <1>4 DEF TunInv, TunType, Counted
  <2>2. d = dropped + N + 1 - g.start
    BY <1>2, Zenon
  <2> HIDE DEF h, l, c, d
  <2>3. c = h + d + l + 0
    BY <1>1, <1>5, <2>1, <2>2
  <2> QED
    BY <1>2, <1>3, <1>4, <2>3, Zenon DEF Counted, c, h, l, d
<1> QED
  BY <1>8, <1>9, Zenon DEF TunInv

\* Every step of the task, the senders and the network keeps it.
LEMMA TunStep == TunInv /\ [Next]_vars => TunInv'
<1> SUFFICES ASSUME TunInv, [Next]_vars PROVE TunInv'
  BY Zenon
<1> USE DEF Next
<1>1. CASE ReadFrame
  BY <1>1, TunReadFrame, Zenon
<1>2. CASE Lose
  BY <1>2, TunLose, Zenon
<1>3. CASE Enqueue
  BY <1>3, TunEnqueue, Zenon
<1>4. CASE RecvMany
  BY <1>4, TunRecvMany, Zenon
<1>5. CASE WriteGroup
  BY <1>5, TunWriteGroup, Zenon
<1>6. CASE WriteFails
  BY <1>6, TunWriteFails, Zenon
<1>7. CASE SendersGone \/ WriterExits \/ UNCHANGED vars
  BY <1>7, TunEnds, Zenon
<1>8. CASE Done
  BY <1>8, TunEnds, Zenon DEF Done
<1> QED
  BY <1>1, <1>2, <1>3, <1>4, <1>5, <1>6, <1>7, <1>8, Zenon

\* The invariant says of each packet and of each frame to write what is promised.
LEMMA TunSurvives == TunInv => SegmentsSurvive
<1> SUFFICES ASSUME TunInv PROVE SegmentsSurvive
  BY Zenon
<1>1. /\ host \in Seq(Piece(setup.frames)) /\ batch \in Seq(Piece(setup.frames))
      /\ groups \in Seq(Group) /\ Plan(batch, groups)
  BY Zenon DEF TunInv, TunType
<1>2. ASSUME NEW i \in 1..Len(host) PROVE \E f \in setup.frames : PieceOf(host[i], f)
  <2>1. host[i] \in Piece(setup.frames)
    BY <1>1
  <2> QED
    BY <2>1, Zenon DEF Piece
<1>3. ASSUME NEW i \in 1..Len(groups)
      PROVE  HEADER + Len(FrameOf(batch, groups[i]).data) <= LENMAX
  <2>1. groups[i] \in Group /\ GoodGroup(batch, groups[i])
    BY <1>1 DEF Plan
  <2>2. Writes(setup.frames, batch, groups[i])
    BY <1>1, <2>1, SingleWritten, RunWritten, Zenon
  <2> QED
    BY <2>2, Zenon DEF Writes
<1> QED
  BY <1>2, <1>3, Zenon DEF SegmentsSurvive

\* Cutting a frame into datagrams, coalescing what arrives and cutting it again
\* gives the receiving host the pieces of the frames that were sent and nothing
\* else, however datagrams are lost or overtake each other, wherever the batches
\* end and wherever the sequence numbers wrap; and no super-frame is longer than
\* its length field can say.
THEOREM SegmentsAlwaysSurvive == Spec => []SegmentsSurvive
<1>1. Init => TunInv
  BY TunInit, Zenon
<1>2. TunInv /\ [Next]_vars => TunInv'
  BY TunStep, Zenon
<1>3. TunInv => SegmentsSurvive
  BY TunSurvives, Zenon
<1> QED
  BY <1>1, <1>2, <1>3, PTL DEF Spec

\* Every packet that was counted as enqueued is in the channel, in the rest of the
\* batch, written, or gone with a write that failed; an exited writer has left
\* nothing in the first two.
THEOREM AlwaysDrainedOnExit == Spec => []DrainedOnExit
<1>1. Init => TunInv
  BY TunInit, Zenon
<1>2. TunInv /\ [Next]_vars => TunInv'
  BY TunStep, Zenon
<1>3. TunInv => DrainedOnExit
  <2> SUFFICES ASSUME TunInv, writer = "exited"
               PROVE  stats.from_clients = Len(host) + dropped
    BY Zenon DEF DrainedOnExit
  <2>1. Len(host) \in Nat /\ dropped \in Nat /\ Len(chan) = 0 /\ Left = 0
    BY DEF TunInv, TunType, Counted, Left
  <2>2. stats.from_clients = Len(host) + dropped + Len(chan) + Left
    BY Zenon DEF TunInv, Counted
  <2> DEFINE h == Len(host)
  <2> HIDE DEF h
  <2>3. stats.from_clients = h + dropped + 0 + 0 /\ h \in Nat
    BY <2>1, <2>2, Zenon DEF h
  <2>4. stats.from_clients = h + dropped
    BY <2>1, <2>3
  <2> QED
    BY <2>4, Zenon DEF h
<1> QED
  BY <1>1, <1>2, <1>3, PTL DEF Spec
=============================================================================
