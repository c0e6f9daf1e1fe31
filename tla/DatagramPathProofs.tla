-------------------------- MODULE DatagramPathProofs ------------------------
(***************************************************************************)
(* Proofs about DatagramPath, for any finite set of producers, any packets  *)
(* and any budget, batch size, MTUs and send buffer:                        *)
(*   - queued_bytes is exactly what is charged, and what is held stays       *)
(*     within CLIENT_QUEUE_BYTES (ChargeAlwaysExact);                        *)
(*   - every datagram is on its way or counted once                         *)
(*     (EveryDatagramAlwaysCounted);                                        *)
(*   - with the one producer the code has, datagrams are handed to QUIC in  *)
(*     order (AlwaysInOrder).                                               *)
(*                                                                          *)
(* The budget needs the strengthening WithinBudget: a reservation is granted *)
(* against the counter, so what the other producers were granted but have   *)
(* not pushed must be part of what is within the budget.  The order needs   *)
(* the whole line of datagrams behind the writer to be in order.            *)
(***************************************************************************)
EXTENDS DatagramPath, ProofFacts

-----------------------------------------------------------------------------
(* Charge and Fitting, recursive along a sequence. *)

Datagram == [len : Nat, id : Nat]

\* A datagram costs a natural.
LEMMA CostNat ==
  \A d \in Datagram : Cost(d) \in Nat
BY PathAssumption DEF Cost, Datagram

\* c is the charge of each beginning of s.
Charges(c, s) ==
  /\ c \in [0..Len(s) -> Nat] /\ c[0] = 0
  /\ \A n \in 1..Len(s) : c[n] = c[n - 1] + Cost(s[n])

\* What Charge computes.
LEMMA ChargeIs ==
  ASSUME NEW s \in Seq(Datagram)
  PROVE  \E c : Charges(c, s) /\ Charge(s) = c[Len(s)]
<1> DEFINE N == Len(s)
           Eq(g) == g = [n \in 0..N |-> IF n = 0 THEN 0 ELSE g[n - 1] + Cost(s[n])]
           F == [n \in 1..N |-> [v \in Nat |-> v + Cost(s[n])]]
           c == CHOOSE g : Eq(g)
<1>1. N \in Nat /\ \A n \in 1..N : Cost(s[n]) \in Nat
  <2>1. N \in Nat /\ \A n \in 1..N : s[n] \in Datagram
    OBVIOUS
  <2> HIDE DEF N
  <2> QED
    BY <2>1, CostNat, Zenon
<1>2. \E g : Eq(g)
  <2>1. F \in [1..N -> [Nat -> Nat]]
    BY <1>1
  <2>2. PICK g \in [0..N -> Nat] : Recursive(g, N, 0, F)
    <3> HIDE DEF F, N
    <3> QED
      BY <1>1, <2>1, RecursionExists, Zenon
  <2>3. ASSUME NEW n \in 0..N
        PROVE  g[n] = IF n = 0 THEN 0 ELSE g[n - 1] + Cost(s[n])
    <3>1. n # 0 => n \in 1..N /\ n - 1 \in 0..N
      BY <1>1
    <3>2. n # 0 => F[n][g[n - 1]] = g[n - 1] + Cost(s[n])
      BY <2>2, <3>1, Zenon
    <3> HIDE DEF F, N
    <3> QED
      BY <2>2, <3>2, Zenon DEF Recursive
  <2>4. g = [n \in 0..N |-> g[n]]
    BY <2>2, Zenon
  <2>5. Eq(g)
    BY <2>3, <2>4, Zenon
  <2> HIDE DEF Eq
  <2> QED
    BY <2>5, Zenon
<1>3. Eq(c)
  <2> HIDE DEF Eq
  <2> QED
    BY <1>2, Zenon
<1>4. Charge(s) = c[N]
  BY Zenon DEF Charge
<1> HIDE DEF c
<1>5. c[0] = 0 /\ DOMAIN c = 0..N /\ c = [n \in 0..N |-> c[n]]
  BY <1>1, <1>3
<1>6. \A n \in 1..N : c[n] = c[n - 1] + Cost(s[n])
  BY <1>1, <1>3
<1> DEFINE Good == {n \in Nat : n <= N => c[n] \in Nat}
<1> HIDE DEF N
<1>7. 0 \in Good
  BY <1>5
<1>8. ASSUME NEW n \in Nat, n \in Good
      PROVE  n + 1 \in Good
  <2> SUFFICES ASSUME n + 1 <= N PROVE c[n + 1] \in Nat
    OBVIOUS
  <2>1. n + 1 \in 1..N /\ (n + 1) - 1 = n /\ c[n] \in Nat
    BY <1>1, <1>8
  <2>2. c[n + 1] = c[n] + Cost(s[n + 1]) /\ Cost(s[n + 1]) \in Nat
    BY <1>1, <1>6, <2>1, Zenon
  <2> QED
    BY <2>1, <2>2
<1>9. Nat \subseteq Good
  <2> HIDE DEF Good
  <2> QED
    BY <1>7, <1>8, Induct, Zenon
<1>10. c \in [0..N -> Nat]
  BY <1>1, <1>5, <1>9
<1> QED
  BY <1>4, <1>5, <1>6, <1>10, Zenon DEF Charges, N

\* A charge is a natural, and nothing is charged for nothing.
LEMMA ChargeNat ==
  /\ \A s \in Seq(Datagram) : Charge(s) \in Nat
  /\ Charge(<<>>) = 0
<1>1. ASSUME NEW s \in Seq(Datagram)
      PROVE  Charge(s) \in Nat /\ (Len(s) = 0 => Charge(s) = 0)
  <2>1. PICK c : Charges(c, s) /\ Charge(s) = c[Len(s)]
    BY ChargeIs, Zenon
  <2>2. Len(s) \in 0..Len(s)
    OBVIOUS
  <2> QED
    BY <2>1, <2>2, Zenon DEF Charges
<1>2. <<>> \in Seq(Datagram) /\ Len(<<>>) = 0
  OBVIOUS
<1> QED
  BY <1>1, <1>2, Zenon

\* The m elements of s after the k-th are the first of t.
Alike(s, k, t, m) == \A i \in 1..m : s[k + i] = t[i]

\* What is alike is charged alike.
LEMMA ChargesShift ==
  ASSUME NEW s \in Seq(Datagram), NEW t \in Seq(Datagram), NEW c, NEW d,
         Charges(c, s), Charges(d, t), NEW k \in Nat, k <= Len(s),
         NEW m \in Nat, m <= Len(t), k + m <= Len(s), Alike(s, k, t, m)
  PROVE  c[k + m] = c[k] + d[m]
<1> DEFINE Good == {i \in Nat : i <= m => c[k + i] = c[k] + d[i]}
<1>0. c[k] \in Nat /\ d[0] = 0 /\ k + 0 = k
  <2>1. k \in 0..Len(s) /\ k + 0 = k
    OBVIOUS
  <2>2. c[k] \in Nat
    BY <2>1, Zenon DEF Charges
  <2>3. d[0] = 0
    BY Zenon DEF Charges
  <2> QED
    BY <2>1, <2>2, <2>3, Zenon
<1>1. 0 \in Good
  BY <1>0
<1>2. ASSUME NEW i \in Nat, i \in Good
      PROVE  i + 1 \in Good
  <2> SUFFICES ASSUME i + 1 <= m PROVE c[k + (i + 1)] = c[k] + d[i + 1]
    OBVIOUS
  <2>1. /\ k + (i + 1) \in 1..Len(s) /\ (k + (i + 1)) - 1 = k + i
        /\ i + 1 \in 1..Len(t) /\ (i + 1) - 1 = i /\ i + 1 \in 1..m
    OBVIOUS
  <2>2. c[k + (i + 1)] = c[k + i] + Cost(s[k + (i + 1)])
    BY <2>1, Zenon DEF Charges
  <2>3. d[i + 1] = d[i] + Cost(t[i + 1])
    BY <2>1, Zenon DEF Charges
  <2>4. s[k + (i + 1)] = t[i + 1] /\ c[k + i] = c[k] + d[i]
    BY <1>2, <2>1 DEF Alike
  <2>5. t[i + 1] \in Datagram /\ i \in 0..Len(t)
    BY <2>1
  <2>6. Cost(t[i + 1]) \in Nat
    BY <2>5, CostNat, Zenon
  <2>7. d[i] \in Nat
    BY <2>5, Zenon DEF Charges
  <2> QED
    BY <1>0, <2>2, <2>3, <2>4, <2>6, <2>7
<1>3. Nat \subseteq Good
  <2> HIDE DEF Good
  <2> QED
    BY <1>1, <1>2, Induct, Zenon
<1> QED
  BY <1>3

\* Appending a datagram adds its cost.
LEMMA ChargeAppend ==
  ASSUME NEW s \in Seq(Datagram), NEW d \in Datagram
  PROVE  Charge(Append(s, d)) = Charge(s) + Cost(d)
<1> DEFINE t == Append(s, d)
<1>1. /\ t \in Seq(Datagram) /\ Len(t) = Len(s) + 1 /\ t[Len(s) + 1] = d
      /\ \A i \in 1..Len(s) : t[0 + i] = s[i]
      /\ Len(s) \in Nat /\ 0 <= Len(t) /\ 0 + Len(s) <= Len(t) /\ Len(s) <= Len(s)
  OBVIOUS
<1>2. PICK c : Charges(c, t) /\ Charge(t) = c[Len(t)]
  BY <1>1, ChargeIs, Zenon
<1>3. PICK e : Charges(e, s) /\ Charge(s) = e[Len(s)]
  BY ChargeIs, Zenon
<1> HIDE DEF t
<1>4. c[0 + Len(s)] = c[0] + e[Len(s)]
  <2>1. Alike(t, 0, s, Len(s))
    BY <1>1, Zenon DEF Alike
  <2> QED
    BY <1>1, <1>2, <1>3, <2>1, ChargesShift
<1>5. /\ Len(t) \in 1..Len(t) /\ Len(t) - 1 = Len(s) /\ 0 + Len(s) = Len(s)
      /\ Len(s) \in 0..Len(s)
  BY <1>1
<1>6. c[Len(t)] = c[Len(s)] + Cost(d) /\ c[0] = 0
  BY <1>1, <1>2, <1>5, Zenon DEF Charges
<1>7. e[Len(s)] \in Nat
  BY <1>3, <1>5, Zenon DEF Charges
<1> QED
  BY <1>2, <1>3, <1>4, <1>5, <1>6, <1>7 DEF t

\* The two parts of a sequence are charged what the whole is.
LEMMA ChargeSplit ==
  ASSUME NEW s \in Seq(Datagram), NEW n \in 0..Len(s)
  PROVE  Charge(s) = Charge(SubSeq(s, 1, n)) + Charge(SubSeq(s, n + 1, Len(s)))
<1> DEFINE a == SubSeq(s, 1, n)
           b == SubSeq(s, n + 1, Len(s))
<1>1. /\ a \in Seq(Datagram) /\ Len(a) = n /\ \A i \in 1..n : s[0 + i] = a[i]
  OBVIOUS
<1>2. /\ b \in Seq(Datagram) /\ Len(b) = Len(s) - n
      /\ \A i \in 1..(Len(s) - n) : s[n + i] = b[i]
  OBVIOUS
<1>3. PICK c : Charges(c, s) /\ Charge(s) = c[Len(s)]
  BY ChargeIs, Zenon
<1>4. PICK d : Charges(d, a) /\ Charge(a) = d[Len(a)]
  BY <1>1, ChargeIs, Zenon
<1>5. PICK e : Charges(e, b) /\ Charge(b) = e[Len(b)]
  BY <1>2, ChargeIs, Zenon
<1> HIDE DEF a, b
<1>6. /\ n \in Nat /\ Len(s) \in Nat /\ Len(s) - n \in Nat /\ 0 + n = n /\ n <= Len(s)
      /\ n + (Len(s) - n) = Len(s) /\ 0 <= Len(s) /\ 0 + n <= Len(s)
      /\ n + (Len(s) - n) <= Len(s) /\ n <= n /\ Len(s) - n <= Len(s) - n
      /\ n \in 0..n /\ Len(s) - n \in 0..(Len(s) - n)
  OBVIOUS
<1>7. c[0 + n] = c[0] + d[n]
  <2>1. Alike(s, 0, a, n)
    BY <1>1, Zenon DEF Alike
  <2> QED
    BY <1>1, <1>3, <1>4, <1>6, <2>1, ChargesShift
<1>8. c[n + (Len(s) - n)] = c[n] + e[Len(s) - n]
  <2>1. Alike(s, n, b, Len(s) - n)
    BY <1>2, Zenon DEF Alike
  <2> QED
    BY <1>2, <1>3, <1>5, <1>6, <2>1, ChargesShift
<1>9. c[0] = 0 /\ d[n] \in Nat /\ e[Len(s) - n] \in Nat
  <2>1. c[0] = 0
    BY <1>3, Zenon DEF Charges
  <2>2. d[n] \in Nat
    BY <1>1, <1>4, <1>6, Zenon DEF Charges
  <2>3. e[Len(s) - n] \in Nat
    BY <1>2, <1>5, <1>6, Zenon DEF Charges
  <2> QED
    BY <2>1, <2>2, <2>3, Zenon
<1>10. c[Len(s)] = d[n] + e[Len(s) - n]
  BY <1>6, <1>7, <1>8, <1>9
<1>11. Charge(s) = Charge(a) + Charge(b)
  BY <1>1, <1>2, <1>3, <1>4, <1>5, <1>10, Zenon
<1> QED
  BY <1>11, Zenon DEF a, b

\* The datagrams of s are numbered upwards.
Sorted(s) == \A i, j \in 1..Len(s) : i < j => s[i].id < s[j].id

\* Every datagram of t is one of the first n of s.
From(t, s, n) == \A i \in 1..Len(t) : \E j \in 1..n : t[i] = s[j]

\* g is what fits of each beginning of s.
Fits(g, s) ==
  /\ DOMAIN g = 0..Len(s) /\ g[0] = <<>>
  /\ \A n \in 1..Len(s) : g[n] = IF s[n].len <= mtu THEN Append(g[n - 1], s[n]) ELSE g[n - 1]

\* What Fitting computes.
LEMMA FittingIs ==
  ASSUME NEW s \in Seq(Datagram)
  PROVE  \E g : Fits(g, s) /\ Fitting(s) = g[Len(s)]
<1> DEFINE N == Len(s)
           D == Seq(Datagram)
           Eq(g) == g = [n \in 0..N |->
                           IF n = 0 THEN <<>>
                           ELSE IF s[n].len <= mtu THEN Append(g[n - 1], s[n]) ELSE g[n - 1]]
           F == [n \in 1..N |-> [v \in D |-> IF s[n].len <= mtu THEN Append(v, s[n]) ELSE v]]
           c == CHOOSE g : Eq(g)
<1>1. N \in Nat /\ \A n \in 1..N : s[n] \in Datagram
  OBVIOUS
<1>2. \E g : Eq(g)
  <2>1. F \in [1..N -> [D -> D]]
    <3>1. ASSUME NEW n \in 1..N, NEW v \in D
          PROVE  (IF s[n].len <= mtu THEN Append(v, s[n]) ELSE v) \in D
      <4>1. Append(v, s[n]) \in D
        BY <1>1
      <4> QED
        BY <4>1, Zenon
    <3> HIDE DEF D, N
    <3> QED
      BY <3>1, Zenon
  <2>2. <<>> \in D
    OBVIOUS
  <2>3. PICK g \in [0..N -> D] : Recursive(g, N, <<>>, F)
    <3> HIDE DEF F, N, D
    <3> QED
      BY <1>1, <2>1, <2>2, RecursionExists, Zenon
  <2> HIDE DEF D
  <2>4. ASSUME NEW n \in 0..N
        PROVE  g[n] = IF n = 0 THEN <<>>
                      ELSE IF s[n].len <= mtu THEN Append(g[n - 1], s[n]) ELSE g[n - 1]
    <3>1. n # 0 => n \in 1..N /\ n - 1 \in 0..N
      BY <1>1
    <3>2. n # 0 => F[n][g[n - 1]] = IF s[n].len <= mtu THEN Append(g[n - 1], s[n])
                                    ELSE g[n - 1]
      BY <2>3, <3>1, Zenon
    <3> HIDE DEF F, N
    <3> QED
      BY <2>3, <3>2, Zenon DEF Recursive
  <2>5. g = [n \in 0..N |-> g[n]]
    BY <2>3, Zenon
  <2>6. Eq(g)
    BY <2>4, <2>5, Zenon
  <2> HIDE DEF Eq
  <2> QED
    BY <2>6, Zenon
<1>3. Eq(c)
  <2> HIDE DEF Eq
  <2> QED
    BY <1>2, Zenon
<1>4. Fitting(s) = c[N]
  BY Zenon DEF Fitting
<1> HIDE DEF c
<1>5. c[0] = <<>> /\ DOMAIN c = 0..N
  BY <1>1, <1>3
<1>6. \A n \in 1..N : c[n] = IF s[n].len <= mtu THEN Append(c[n - 1], s[n]) ELSE c[n - 1]
  <2> SUFFICES ASSUME NEW n \in 1..N
               PROVE  c[n] = IF s[n].len <= mtu THEN Append(c[n - 1], s[n]) ELSE c[n - 1]
    BY Zenon
  <2>1. n \in 0..N /\ n # 0
    BY <1>1
  <2> HIDE DEF N
  <2> QED
    BY <1>3, <2>1, Zenon
<1> QED
  BY <1>4, <1>5, <1>6, Zenon DEF Fits, N

\* What fits is some of the datagrams, in their order.
LEMMA FittingSelects ==
  ASSUME NEW s \in Seq(Datagram), Sorted(s)
  PROVE  /\ Fitting(s) \in Seq(Datagram) /\ Len(Fitting(s)) <= Len(s)
         /\ From(Fitting(s), s, Len(s)) /\ Sorted(Fitting(s))
<1>1. PICK g : Fits(g, s) /\ Fitting(s) = g[Len(s)]
  BY FittingIs, Zenon
<1> DEFINE Ok(t, n) == t \in Seq(Datagram) /\ Len(t) <= n /\ From(t, s, n) /\ Sorted(t)
           Good == {n \in Nat : n <= Len(s) => Ok(g[n], n)}
<1>2. 0 \in Good
  <2>1. g[0] = <<>>
    BY <1>1, Zenon DEF Fits
  <2>2. Ok(<<>>, 0)
    BY DEF From, Sorted
  <2> HIDE DEF Ok
  <2> QED
    BY <2>1, <2>2, Zenon
<1>3. ASSUME NEW n \in Nat, n \in Good
      PROVE  n + 1 \in Good
  <2> SUFFICES ASSUME n + 1 <= Len(s) PROVE Ok(g[n + 1], n + 1)
    OBVIOUS
  <2>1. Ok(g[n], n) /\ n + 1 \in 1..Len(s) /\ (n + 1) - 1 = n
    BY <1>3
  <2>2. s[n + 1] \in Datagram
    BY <2>1
  <2> DEFINE t == g[n]
             d == s[n + 1]
  <2>3. g[n + 1] = IF d.len <= mtu THEN Append(t, d) ELSE t
    BY <1>1, <2>1, Zenon DEF Fits
  <2>4. Ok(t, n + 1)
    BY <2>1 DEF From
  <2>5. Ok(Append(t, d), n + 1)
    <3> DEFINE u == Append(t, d)
    <3>1. u \in Seq(Datagram) /\ Len(u) = Len(t) + 1 /\ u[Len(t) + 1] = d
      BY <2>1, <2>2
    <3>2. \A i \in 1..Len(t) : u[i] = t[i]
      BY <2>1, <2>2
    <3>3. \A i \in 1..Len(u) : i \in 1..Len(t) \/ i = Len(t) + 1
      BY <2>1, <3>1
    <3> HIDE DEF u
    <3>4. From(u, s, n + 1)
      <4> SUFFICES ASSUME NEW i \in 1..Len(u) PROVE \E j \in 1..(n + 1) : u[i] = s[j]
        BY Zenon DEF From
      <4>1. CASE i = Len(t) + 1
        BY <3>1, <4>1
      <4>2. CASE i \in 1..Len(t)
        <5>1. PICK j \in 1..n : t[i] = s[j]
          BY <2>1, <4>2, Zenon DEF From
        <5>2. j \in 1..(n + 1)
          OBVIOUS
        <5> QED
          BY <3>2, <4>2, <5>1, <5>2, Zenon
      <4> QED
        BY <3>3, <4>1, <4>2, Zenon
    <3>5. Sorted(u)
      <4> SUFFICES ASSUME NEW i \in 1..Len(u), NEW j \in 1..Len(u), i < j
                   PROVE  u[i].id < u[j].id
        BY Zenon DEF Sorted
      <4>1. i \in 1..Len(t)
        BY <2>1, <3>1
      <4>2. CASE j \in 1..Len(t)
        BY <2>1, <3>2, <4>1, <4>2, Zenon DEF Sorted
      <4>3. CASE j = Len(t) + 1
        <5>1. PICK k \in 1..n : t[i] = s[k]
          BY <2>1, <4>1, Zenon DEF From
        <5>2. k \in 1..Len(s) /\ n + 1 \in 1..Len(s) /\ k < n + 1
          BY <2>1
        <5>3. s[k].id < d.id
          BY <5>2, Zenon DEF Sorted
        <5> QED
          BY <3>1, <3>2, <4>1, <4>3, <5>1, <5>3, Zenon
      <4> QED
        BY <3>3, <4>2, <4>3, Zenon
    <3>6. Len(u) <= n + 1
      BY <2>1, <3>1
    <3> QED
      BY <3>1, <3>4, <3>5, <3>6, Zenon DEF u
  <2> HIDE DEF t, d, Ok
  <2> QED
    BY <2>3, <2>4, <2>5, Zenon
<1>4. Nat \subseteq Good
  <2> HIDE DEF Good
  <2> QED
    BY <1>2, <1>3, Induct, Zenon
<1>5. Ok(g[Len(s)], Len(s))
  <2> HIDE DEF Ok
  <2> QED
    BY <1>4
<1> QED
  BY <1>1, <1>5, Zenon

\* The datagrams of a packet carry the next serial numbers, upwards.
LEMMA NumberedIs ==
  ASSUME serial \in Nat, NEW lens \in Seq(Nat)
  PROVE  /\ Numbered(lens) \in Seq(Datagram) /\ Len(Numbered(lens)) = Len(lens)
         /\ Sorted(Numbered(lens))
         /\ \A i \in 1..Len(lens) : /\ Numbered(lens)[i].id >= serial
                                    /\ Numbered(lens)[i].id < serial + Len(lens)
<1> DEFINE n == Numbered(lens)
<1>1. /\ Len(lens) \in Nat
      /\ \A i \in 1..Len(lens) : [len |-> lens[i], id |-> serial + i - 1] \in Datagram
  BY DEF Datagram
<1>2. n \in [1..Len(lens) -> Datagram]
  BY <1>1, Zenon DEF Numbered
<1>3. n \in Seq(Datagram) /\ Len(n) = Len(lens)
  <2> HIDE DEF n
  <2> QED
    BY <1>1, <1>2
<1>4. \A i \in 1..Len(lens) : n[i].id = serial + i - 1
  BY Zenon DEF Numbered
<1> HIDE DEF n
<1>5. Sorted(n)
  BY <1>1, <1>3, <1>4 DEF Sorted
<1>6. \A i \in 1..Len(lens) : n[i].id >= serial /\ n[i].id < serial + Len(lens)
  BY <1>1, <1>4
<1> QED
  BY <1>3, <1>5, <1>6, Zenon DEF n

-----------------------------------------------------------------------------
(* The invariant. *)

ProducerState ==
  [at : {"idle", "reserve", "full", "send", "closed"}, pending : Seq(Datagram)]

\* Between batches the writer holds nothing, and between packets a producer does.
PathType ==
  /\ queue \in Seq(Datagram) /\ batch \in Seq(Datagram) /\ rest \in Seq(Datagram)
  /\ prod \in [Producers -> ProducerState]
  /\ \A p \in Producers : prod[p].at = "idle" <=> prod[p].pending = <<>>
  /\ writer \in {"recv", "try", "wait_first", "one_by_one", "failed", "stopped"}
  /\ writer = "recv" => batch = <<>> /\ rest = <<>>
  /\ stats \in [Fates -> Nat] /\ sent \in Seq(Nat) /\ serial \in Nat \ {0}
  /\ mtu \in Nat /\ space \in Nat

\* What p has been granted, and has not yet pushed or given back.
Held(p) == IF prod[p].at \in {"send", "closed"} THEN Cost(Head(prod[p].pending)) ELSE 0

Reserved == [p \in Producers |-> InHand(p)]
Granted == [p \in Producers |-> Held(p)]
Pending == [p \in Producers |-> Len(prod[p].pending)]

\* The budget covers what was granted and what is queued or in the batch.
WithinBudget ==
  Charge(queue) + Charge(batch) + SumFunction(Granted) <= CLIENT_QUEUE_BYTES

\* The counter is what is charged, and what is granted is within the budget.
ChargeInv ==
  /\ queued_bytes = Charge(queue) + Charge(batch) + SumFunction(Reserved)
  /\ WithinBudget

PathInv == PathType /\ ChargeInv /\ EveryDatagramCounted

\* What is left of a packet after a push is again a producer's state.
LEMMA PushedType ==
  ASSUME PathType, NEW p \in Producers, prod[p].at # "idle", NEW stop \in BOOLEAN,
         Pushed(p, stop)
  PROVE  /\ prod' \in [Producers -> ProducerState]
         /\ \A q \in Producers : q # p => prod'[q] = prod[q]
         /\ prod'[p].pending = IF stop THEN <<>> ELSE Tail(prod[p].pending)
         /\ prod'[p].at = IF prod'[p].pending = <<>> THEN "idle" ELSE "reserve"
<1> DEFINE left == IF stop THEN <<>> ELSE Tail(prod[p].pending)
           new == [at |-> IF left = <<>> THEN "idle" ELSE "reserve", pending |-> left]
<1>1. prod[p] \in ProducerState /\ prod[p].pending # <<>> /\ prod \in [Producers -> ProducerState]
  BY Zenon DEF PathType
<1>2. left \in Seq(Datagram)
  <2>1. prod[p].pending \in Seq(Datagram)
    BY <1>1, Zenon DEF ProducerState
  <2>2. Tail(prod[p].pending) \in Seq(Datagram)
    BY <1>1, <2>1
  <2> QED
    BY <2>2
<1>3. prod' = [prod EXCEPT ![p] = new]
  BY Zenon DEF Pushed
<1> HIDE DEF left
<1>4. new \in ProducerState /\ new.pending = left
      /\ new.at = IF left = <<>> THEN "idle" ELSE "reserve"
  BY <1>2, Zenon DEF ProducerState
<1> HIDE DEF new
<1>5. prod'[p] = new /\ prod' \in [Producers -> ProducerState]
      /\ \A q \in Producers : q # p => prod'[q] = prod[q]
  BY <1>1, <1>3, <1>4, Zenon
<1> QED
  BY <1>4, <1>5, Zenon DEF left

\* What the push of a datagram, the refusal and the closed channel do to a
\* producer: only its own state changes, to one of these.
LEMMA ProducerStep ==
  ASSUME PathType, NEW p \in Producers, Producer(p)
  PROVE  /\ prod' \in [Producers -> ProducerState]
         /\ \A q \in Producers : q # p => prod'[q] = prod[q]
         /\ prod'[p].at = "idle" <=> prod'[p].pending = <<>>
<1>1. prod[p] \in ProducerState /\ prod \in [Producers -> ProducerState]
      /\ (prod[p].at = "idle" <=> prod[p].pending = <<>>)
  BY Zenon DEF PathType
<1>2. CASE Prepare(p)
  <2>1. PICK lens \in Packets :
          prod' = [prod EXCEPT ![p] =
                     [at |-> IF Fitting(Numbered(lens)) = <<>> THEN "idle" ELSE "reserve",
                      pending |-> Fitting(Numbered(lens))]]
    BY <1>2, Zenon DEF Prepare
  <2>2. lens \in Seq(Nat) /\ serial \in Nat
    BY PathAssumption, Zenon DEF PathType
  <2> DEFINE f == Fitting(Numbered(lens))
             new == [at |-> IF f = <<>> THEN "idle" ELSE "reserve", pending |-> f]
  <2>3. f \in Seq(Datagram)
    BY <2>2, NumberedIs, FittingSelects, Zenon
  <2>4. prod' = [prod EXCEPT ![p] = new]
    BY <2>1, Zenon
  <2> HIDE DEF f
  <2>5. new \in ProducerState /\ (new.at = "idle" <=> new.pending = <<>>)
    BY <2>3, Zenon DEF ProducerState
  <2> HIDE DEF new
  <2> QED
    BY <1>1, <2>4, <2>5, Zenon
<1>3. CASE Malformed(p)
  BY <1>1, <1>3, Zenon DEF Malformed
<1>4. ASSUME NEW a \in {"full", "send", "closed"}, prod[p].at # "idle",
             prod' = [prod EXCEPT ![p].at = a]
      PROVE  /\ prod' \in [Producers -> ProducerState]
             /\ \A q \in Producers : q # p => prod'[q] = prod[q]
             /\ prod'[p].at = "idle" <=> prod'[p].pending = <<>>
  <2> DEFINE new == [prod[p] EXCEPT !.at = a]
  <2>1. new \in ProducerState /\ new.at = a /\ new.pending = prod[p].pending
    BY <1>1, Zenon DEF ProducerState
  <2>2. prod' = [prod EXCEPT ![p] = new]
    BY <1>4, Zenon
  <2> HIDE DEF new
  <2> QED
    BY <1>1, <1>4, <2>1, <2>2, Zenon
<1>5. CASE Reserve(p)
  BY <1>4, <1>5, Zenon DEF Reserve
<1>6. CASE GiveBackFull(p) \/ GiveBackClosed(p)
  <2>1. PICK stop \in BOOLEAN : Pushed(p, stop)
    BY <1>6, Zenon DEF GiveBackFull, GiveBackClosed
  <2>2. prod[p].at # "idle"
    BY <1>6, Zenon DEF GiveBackFull, GiveBackClosed
  <2> QED
    BY <2>1, <2>2, PushedType, Zenon
<1>7. CASE Send(p)
  <2>1. prod[p].at # "idle"
    BY <1>7, Zenon DEF Send
  <2>2. CASE writer # "stopped"
    <3>1. Pushed(p, FALSE)
      BY <1>7, <2>2, Zenon DEF Send
    <3> QED
      BY <2>1, <3>1, PushedType, Zenon
  <2>3. CASE writer = "stopped"
    BY <1>4, <1>7, <2>1, <2>3, Zenon DEF Send
  <2> QED
    BY <2>2, <2>3, Zenon
<1> QED
  BY <1>2, <1>3, <1>5, <1>6, <1>7, Zenon DEF Producer

\* There are five fates.
LEMMA FatesFinite == IsFiniteSet(Fates)
<1>1. IsFiniteSet({"sent"} \cup {"too_large"} \cup {"other"} \cup {"full"} \cup {"closed"})
  BY FS_Singleton, FS_Union, Zenon
<1>2. Fates = {"sent"} \cup {"too_large"} \cup {"other"} \cup {"full"} \cup {"closed"}
  BY Zenon DEF Fates
<1> QED
  BY <1>1, <1>2, Zenon

\* Counting n datagrams under one fate adds n to what the fates sum to.
LEMMA CountIs ==
  ASSUME stats \in [Fates -> Nat], NEW fate \in Fates, NEW n \in Nat, Count(fate, n)
  PROVE  /\ stats' \in [Fates -> Nat]
         /\ SumFunction(stats') = SumFunction(stats) + n
<1>1. /\ stats' \in [Fates -> Nat] /\ stats'[fate] = stats[fate] + n
      /\ \A f \in Fates : f # fate => stats'[f] = stats[f]
  BY DEF Count
<1>2. SumFunction(stats') + stats[fate] = SumFunction(stats) + stats'[fate]
  BY <1>1, FatesFinite, SumDiffers
<1>3. /\ SumFunction(stats) \in Nat /\ SumFunction(stats') \in Nat
      /\ stats[fate] \in Nat
  BY <1>1, FatesFinite, SumNat, Zenon
<1> QED
  BY <1>1, <1>2, <1>3

\* What handing over the first n datagrams of rest does.
LEMMA HandOverIs ==
  ASSUME PathType, NEW n \in Nat, n <= Len(rest), n <= space, HandOver(n)
  PROVE  /\ rest' \in Seq(Datagram) /\ Len(rest') = Len(rest) - n
         /\ \A i \in 1..Len(rest') : i + n \in 1..Len(rest) /\ rest'[i] = rest[i + n]
         /\ sent' \in Seq(Nat) /\ Len(sent') = Len(sent) + n
         /\ \A i \in 1..Len(sent) : sent'[i] = sent[i]
         /\ \A i \in 1..n : i \in 1..Len(rest) /\ sent'[Len(sent) + i] = rest[i].id
         /\ stats' \in [Fates -> Nat] /\ SumFunction(stats') = SumFunction(stats) + n
         /\ space' \in Nat
<1>1. /\ rest \in Seq(Datagram) /\ sent \in Seq(Nat) /\ stats \in [Fates -> Nat]
      /\ space \in Nat
  BY Zenon DEF PathType
<1>2. /\ rest' = SubSeq(rest, n + 1, Len(rest)) /\ space' = space - n /\ Count("sent", n)
      /\ sent' = sent \o Ids(SubSeq(rest, 1, n))
  BY Zenon DEF HandOver
<1>3. /\ rest' \in Seq(Datagram) /\ Len(rest') = Len(rest) - n
      /\ \A i \in 1..Len(rest') : i + n \in 1..Len(rest) /\ rest'[i] = rest[i + n]
  <2> DEFINE t == SubSeq(rest, n + 1, Len(rest))
  <2>1. /\ t \in Seq(Datagram) /\ Len(t) = Len(rest) - n
        /\ \A i \in 1..Len(t) : i + n \in 1..Len(rest) /\ t[i] = rest[i + n]
    BY <1>1, RestOf, Zenon
  <2> HIDE DEF t
  <2>2. rest' = t
    BY <1>2, Zenon DEF t
  <2> QED
    BY <2>1, <2>2, Zenon
<1>4. "sent" \in Fates
  BY Zenon DEF Fates
<1>5. stats' \in [Fates -> Nat] /\ SumFunction(stats') = SumFunction(stats) + n
  BY <1>1, <1>2, <1>4, CountIs, Zenon
<1> DEFINE s == SubSeq(rest, 1, n)
           ids == Ids(s)
<1>6. /\ s \in Seq(Datagram) /\ Len(s) = n
      /\ \A i \in 1..n : i \in 1..Len(rest) /\ s[i] = rest[i]
  BY <1>1
<1> HIDE DEF s
<1>7. /\ ids \in [1..n -> Nat] /\ \A i \in 1..n : ids[i] = rest[i].id
  <2>1. ASSUME NEW i \in 1..n PROVE s[i] \in Datagram /\ s[i].id \in Nat
    <3>1. s[i] \in Datagram
      BY <1>6
    <3> QED
      BY <3>1, Zenon DEF Datagram
  <2>2. ids = [i \in 1..n |-> s[i].id]
    BY <1>6, Zenon DEF Ids
  <2> QED
    BY <1>6, <2>1, <2>2, Zenon
<1> HIDE DEF ids
<1>8. ids \in Seq(Nat) /\ Len(ids) = n
  BY <1>7
<1>9. sent' = sent \o ids
  BY <1>2, Zenon DEF ids, s
<1>10. /\ sent' \in Seq(Nat) /\ Len(sent') = Len(sent) + n
       /\ \A i \in 1..Len(sent) : sent'[i] = sent[i]
       /\ \A i \in 1..n : sent'[Len(sent) + i] = ids[i]
  <2>1. /\ sent' \in Seq(Nat) /\ Len(sent') = Len(sent) + n
        /\ \A i \in 1..(Len(sent) + Len(ids)) :
             sent'[i] = IF i <= Len(sent) THEN sent[i] ELSE ids[i - Len(sent)]
    BY <1>1, <1>8, <1>9, ConcatProperties, Zenon
  <2>2. ASSUME NEW i \in 1..n PROVE sent'[Len(sent) + i] = ids[i]
    <3> DEFINE k == Len(sent) + i
    <3>1. k \in 1..(Len(sent) + Len(ids)) /\ ~(k <= Len(sent)) /\ k - Len(sent) = i
      BY <1>1, <1>8
    <3> HIDE DEF k
    <3>2. sent'[k] = ids[i]
      BY <2>1, <3>1, Zenon
    <3> QED
      BY <3>2, Zenon DEF k
  <2>3. \A i \in 1..Len(sent) : i \in 1..(Len(sent) + Len(ids)) /\ i <= Len(sent)
    BY <1>1, <1>8
  <2> QED
    BY <2>1, <2>2, <2>3, Zenon
<1>11. \A i \in 1..n : i \in 1..Len(rest) /\ sent'[Len(sent) + i] = rest[i].id
  BY <1>6, <1>7, <1>10, Zenon
<1>12. space' \in Nat
  BY <1>1, <1>2
<1> QED
  BY <1>3, <1>5, <1>10, <1>11, <1>12, Zenon

\* The first n of rest leave it and are counted, all or none of them sent.
Leaves(n) ==
  /\ rest' \in Seq(Datagram) /\ Len(rest') = Len(rest) - n
  /\ \A i \in 1..Len(rest') : i + n \in 1..Len(rest) /\ rest'[i] = rest[i + n]
  /\ stats' \in [Fates -> Nat] /\ SumFunction(stats') = SumFunction(stats) + n
  /\ space' \in Nat
  /\ \/ sent' = sent
     \/ /\ sent' \in Seq(Nat) /\ Len(sent') = Len(sent) + n
        /\ \A i \in 1..Len(sent) : sent'[i] = sent[i]
        /\ \A i \in 1..n : i \in 1..Len(rest) /\ sent'[Len(sent) + i] = rest[i].id

\* Every step of the writer that hands over or drops datagrams of rest does that.
LEMMA SendStep ==
  ASSUME PathType, TrySendMany \/ SendWait \/ SendFails
  PROVE  \E n \in 0..Len(rest) : Leaves(n)
<1> DEFINE Goal == \E n \in 0..Len(rest) : Leaves(n)
<1>1. /\ rest \in Seq(Datagram) /\ sent \in Seq(Nat) /\ stats \in [Fates -> Nat]
      /\ space \in Nat /\ Len(rest) \in Nat /\ SumFunction(stats) \in Nat
  BY FatesFinite, SumNat DEF PathType
<1>2. ASSUME UNCHANGED <<rest, stats, sent, space>> PROVE Goal
  <2>1. 0 \in 0..Len(rest)
    BY <1>1
  <2>2. rest' = rest /\ Len(rest) = Len(rest) - 0 /\ \A i \in 1..Len(rest) : i + 0 = i
    BY <1>1, <1>2
  <2>3. Leaves(0)
    BY <1>1, <1>2, <2>2 DEF Leaves
  <2> QED
    BY <2>1, <2>3, Zenon
<1>3. ASSUME NEW n \in Nat, n <= Len(rest), n <= space, HandOver(n) PROVE Goal
  <2>1. n \in 0..Len(rest)
    BY <1>1, <1>3
  <2>2. Leaves(n)
    BY <1>3, HandOverIs, Zenon DEF Leaves
  <2> QED
    BY <2>1, <2>2, Zenon
<1>4. CASE TrySendMany
  <2>1. CASE HandOver(Min({Len(rest), space}))
    <3> DEFINE m == Min({Len(rest), space})
    <3>1. m \in Nat /\ m = IF Len(rest) <= space THEN Len(rest) ELSE space
      BY <1>1, MinIs, Zenon
    <3>2. HandOver(m)
      BY <2>1, Zenon
    <3> HIDE DEF m
    <3>3. m <= Len(rest) /\ m <= space
      BY <1>1, <3>1
    <3> QED
      BY <1>3, <3>1, <3>2, <3>3, Zenon
  <2> QED
    BY <1>2, <1>4, <2>1, Zenon DEF TrySendMany
<1>5. CASE SendWait
  <2>1. rest # <<>>
    BY <1>5, Zenon DEF SendWait
  <2>2. Len(rest) >= 1
    BY <1>1, <2>1
  <2>3. CASE HandOver(1) /\ space > 0
    <3>1. 1 \in Nat /\ 1 <= Len(rest) /\ 1 <= space
      BY <1>1, <2>2, <2>3
    <3> QED
      BY <1>3, <2>3, <3>1, Zenon
  <2>4. CASE rest' = Tail(rest) /\ Count("too_large", 1) /\ UNCHANGED <<sent, space>>
    <3>1. /\ rest' \in Seq(Datagram) /\ Len(rest') = Len(rest) - 1
          /\ \A i \in 1..Len(rest') : i + 1 \in 1..Len(rest) /\ rest'[i] = rest[i + 1]
      BY <1>1, <2>1, <2>4
    <3>2. stats' \in [Fates -> Nat] /\ SumFunction(stats') = SumFunction(stats) + 1
      BY <1>1, <2>4, CountIs, Zenon DEF Fates
    <3>3. 1 \in 0..Len(rest)
      BY <1>1, <2>2
    <3> QED
      BY <1>1, <2>4, <3>1, <3>2, <3>3, Zenon DEF Leaves
  <2> QED
    BY <1>5, <2>3, <2>4, Zenon DEF SendWait
<1>6. CASE SendFails
  <2>1. rest' = <<>> /\ Count("other", Len(rest)) /\ UNCHANGED <<sent, space>>
    BY <1>6, Zenon DEF SendFails, conn
  <2>2. /\ rest' \in Seq(Datagram) /\ Len(rest') = Len(rest) - Len(rest) /\ Len(rest') = 0
    BY <1>1, <2>1
  <2>3. stats' \in [Fates -> Nat] /\ SumFunction(stats') = SumFunction(stats) + Len(rest)
    BY <1>1, <2>1, CountIs, Zenon DEF Fates
  <2>4. Len(rest) \in 0..Len(rest)
    BY <1>1
  <2> QED
    BY <1>1, <2>1, <2>2, <2>3, <2>4 DEF Leaves
<1> QED
  BY <1>4, <1>5, <1>6, Zenon

\* recv_many splits the queue: its first datagrams are the batch.
LEMMA RecvIs ==
  ASSUME PathType, RecvMany
  PROVE  \E n \in 0..Len(queue) :
           /\ batch' = SubSeq(queue, 1, n) /\ rest' = batch'
           /\ queue' = SubSeq(queue, n + 1, Len(queue))
           /\ batch' \in Seq(Datagram) /\ Len(batch') = n
           /\ queue' \in Seq(Datagram) /\ Len(queue') = Len(queue) - n
           /\ \A i \in 1..n : i \in 1..Len(queue) /\ batch'[i] = queue[i]
           /\ \A i \in 1..Len(queue') : i + n \in 1..Len(queue) /\ queue'[i] = queue[i + n]
<1> DEFINE n == Min({Len(queue), WRITE_BATCH_SIZE})
<1>1. queue \in Seq(Datagram) /\ Len(queue) \in Nat
  BY DEF PathType
<1>2. n \in Nat /\ n = IF Len(queue) <= WRITE_BATCH_SIZE THEN Len(queue) ELSE WRITE_BATCH_SIZE
  BY <1>1, MinIs, PathAssumption, Zenon
<1>3. /\ batch' = SubSeq(queue, 1, n) /\ rest' = batch'
      /\ queue' = SubSeq(queue, n + 1, Len(queue))
  BY Zenon DEF RecvMany
<1> HIDE DEF n
<1>4. n \in 0..Len(queue)
  BY <1>1, <1>2, PathAssumption
<1>5. /\ batch' \in Seq(Datagram) /\ Len(batch') = n
      /\ \A i \in 1..n : i \in 1..Len(queue) /\ batch'[i] = queue[i]
  BY <1>1, <1>3, <1>4
<1>6. /\ queue' \in Seq(Datagram) /\ Len(queue') = Len(queue) - n
      /\ \A i \in 1..Len(queue') : i + n \in 1..Len(queue) /\ queue'[i] = queue[i + n]
  BY <1>1, <1>3, <1>4
<1> QED
  BY <1>3, <1>4, <1>5, <1>6, Zenon

\* PathType holds initially.
LEMMA TypeInit == Init => PathType
<1> SUFFICES ASSUME Init PROVE PathType
  BY Zenon
<1>1. /\ queue = <<>> /\ batch = <<>> /\ rest = <<>> /\ sent = <<>> /\ writer = "recv"
      /\ serial = 1 /\ space = SendBuffer /\ mtu \in Mtus
      /\ prod = [p \in Producers |-> [at |-> "idle", pending |-> <<>>]]
      /\ stats = [f \in Fates |-> 0]
  BY Zenon DEF Init
<1>2. <<>> \in Seq(Datagram) /\ <<>> \in Seq(Nat)
  OBVIOUS
<1>3. [at |-> "idle", pending |-> <<>>] \in ProducerState
  BY <1>2, Zenon DEF ProducerState
<1> QED
  BY <1>1, <1>2, <1>3, PathAssumption DEF PathType

\* A producer's step keeps PathType.
LEMMA ProducerType ==
  ASSUME PathType, NEW p \in Producers, Producer(p)
  PROVE  PathType'
<1>1. /\ prod' \in [Producers -> ProducerState]
      /\ \A q \in Producers : prod'[q].at = "idle" <=> prod'[q].pending = <<>>
  <2>1. /\ prod' \in [Producers -> ProducerState]
        /\ \A q \in Producers : q # p => prod'[q] = prod[q]
        /\ prod'[p].at = "idle" <=> prod'[p].pending = <<>>
    BY ProducerStep, Zenon
  <2>2. \A q \in Producers : prod[q].at = "idle" <=> prod[q].pending = <<>>
    BY Zenon DEF PathType
  <2> QED
    BY <2>1, <2>2, Zenon
<1>2. UNCHANGED <<writer, batch, rest, sent, mtu, space>>
  BY Zenon
     DEF Producer, Prepare, Malformed, Reserve, GiveBackFull, Send, GiveBackClosed, conn
<1>3. stats \in [Fates -> Nat] /\ serial \in Nat \ {0} /\ queue \in Seq(Datagram)
      /\ prod[p] \in ProducerState /\ prod[p].pending \in Seq(Datagram)
      /\ (prod[p].at # "idle" => prod[p].pending # <<>>)
  BY Zenon DEF PathType, ProducerState
<1>4. queue' \in Seq(Datagram)
  <2>1. CASE queue' = queue
    BY <1>3, <2>1, Zenon
  <2>2. CASE queue' = Append(queue, Head(prod[p].pending)) /\ prod[p].at = "send"
    <3>1. Head(prod[p].pending) \in Datagram
      BY <1>3, <2>2
    <3> QED
      BY <1>3, <2>2, <3>1
  <2> QED
    BY <2>1, <2>2, Zenon
       DEF Producer, Prepare, Malformed, Reserve, GiveBackFull, Send, GiveBackClosed
<1>5. stats' \in [Fates -> Nat] /\ serial' \in Nat \ {0}
  <2>1. CASE Prepare(p)
    <3>1. PICK lens \in Packets :
            /\ Count("too_large", Len(Numbered(lens)) - Len(Fitting(Numbered(lens))))
            /\ serial' = serial + Len(lens)
      BY <2>1, Zenon DEF Prepare
    <3>2. lens \in Seq(Nat) /\ serial \in Nat
      BY <1>3, PathAssumption, Zenon
    <3> DEFINE all == Numbered(lens)
               n == Len(all) - Len(Fitting(all))
    <3>3. all \in Seq(Datagram) /\ Sorted(all)
      BY <3>2, NumberedIs, Zenon
    <3>4. Fitting(all) \in Seq(Datagram) /\ Len(Fitting(all)) <= Len(all)
      BY <3>3, FittingSelects, Zenon
    <3>5. n \in Nat
      <4> DEFINE f == Fitting(all)
      <4>1. f \in Seq(Datagram) /\ Len(f) <= Len(all) /\ n = Len(all) - Len(f)
        BY <3>4, Zenon
      <4> HIDE DEF f, all, n
      <4>2. Len(f) \in Nat /\ Len(all) \in Nat
        BY <3>3, <4>1
      <4> QED
        BY <4>1, <4>2
    <3>6. Count("too_large", n)
      BY <3>1, Zenon
    <3>7. "too_large" \in Fates
      BY Zenon DEF Fates
    <3>8. serial' \in Nat \ {0}
      BY <1>3, <3>1, <3>2
    <3> HIDE DEF n
    <3> QED
      BY <1>3, <3>5, <3>6, <3>7, <3>8, CountIs, Zenon
  <2>2. CASE Malformed(p)
    <3>1. Count("other", 1) /\ serial' = serial + 1 /\ "other" \in Fates
      BY <2>2, Zenon DEF Malformed, Fates
    <3> QED
      BY <1>3, <3>1, CountIs
  <2>3. CASE GiveBackFull(p)
    <3>1. Count("full", 1) /\ serial' = serial /\ "full" \in Fates
      BY <2>3, Zenon DEF GiveBackFull, Fates
    <3> QED
      BY <1>3, <3>1, CountIs, Zenon
  <2>4. CASE GiveBackClosed(p)
    <3>1. Count("closed", Len(prod[p].pending)) /\ serial' = serial /\ "closed" \in Fates
      BY <2>4, Zenon DEF GiveBackClosed, Fates
    <3>2. Len(prod[p].pending) \in Nat
      BY <1>3
    <3> QED
      BY <1>3, <3>1, <3>2, CountIs, Zenon
  <2>5. CASE Reserve(p) \/ Send(p)
    BY <1>3, <2>5, Zenon DEF Reserve, Send
  <2> QED
    BY <2>1, <2>2, <2>3, <2>4, <2>5, Zenon DEF Producer
<1> QED
  BY <1>1, <1>2, <1>4, <1>5, Zenon DEF PathType

\* Every step keeps PathType.
LEMMA TypeStep ==
  ASSUME PathType, [Next]_vars
  PROVE  PathType'
<1>1. CASE UNCHANGED vars
  BY <1>1, Zenon DEF PathType, vars, conn
<1>2. CASE RecvMany
  <2>1. batch' \in Seq(Datagram) /\ rest' \in Seq(Datagram) /\ queue' \in Seq(Datagram)
    BY <1>2, RecvIs, Zenon
  <2> QED
    BY <1>2, <2>1, Zenon DEF RecvMany, PathType, conn
<1>3. CASE TrySendMany \/ SendWait \/ SendFails
  <2>1. PICK n \in 0..Len(rest) : Leaves(n)
    BY <1>3, SendStep, Zenon
  <2>2. /\ rest' \in Seq(Datagram) /\ stats' \in [Fates -> Nat] /\ space' \in Nat
        /\ sent' \in Seq(Nat)
    BY <2>1, Zenon DEF Leaves, PathType
  <2>3. writer' \in {"try", "wait_first", "one_by_one", "failed"}
    BY <1>3, Zenon DEF TrySendMany, SendWait, SendFails
  <2>4. UNCHANGED <<queue, prod, batch, serial, mtu>>
    BY <1>3, Zenon DEF TrySendMany, SendWait, SendFails, conn
  <2> QED
    BY <2>2, <2>3, <2>4, Zenon DEF PathType
<1>4. CASE Release
  BY <1>4 DEF Release, PathType, conn
<1>5. CASE Abort
  BY <1>5, Zenon DEF Abort, PathType, conn
<1>6. CASE Connection
  BY <1>6, PathAssumption DEF Connection, Transmit, PathMtuChanges, ConnectionLost, PathType
<1>7. ASSUME NEW p \in Producers, Producer(p) PROVE PathType'
  BY <1>7, ProducerType, Zenon
<1> QED
  BY <1>1, <1>2, <1>3, <1>4, <1>5, <1>6, <1>7, Zenon DEF Next, Writer

-----------------------------------------------------------------------------
(* The charge. *)

\* Reservations are naturals, and what is granted was reserved.
ReservedNat ==
  /\ Reserved \in [Producers -> Nat] /\ Granted \in [Producers -> Nat]
  /\ Pending \in [Producers -> Nat]
  /\ SumFunction(Reserved) \in Nat /\ SumFunction(Granted) \in Nat
  /\ SumFunction(Pending) \in Nat
  /\ SumFunction(Granted) <= SumFunction(Reserved)

\* It holds in every state of the right type.
LEMMA ReservedType == PathType => ReservedNat
<1> HAVE PathType
<1>1. ASSUME NEW p \in Producers
      PROVE  /\ InHand(p) \in Nat /\ Held(p) \in Nat /\ Held(p) <= InHand(p)
             /\ Len(prod[p].pending) \in Nat
  <2>1. prod[p].pending \in Seq(Datagram) /\ (prod[p].at # "idle" => prod[p].pending # <<>>)
    BY Zenon DEF PathType, ProducerState
  <2>2. prod[p].at # "idle" => Cost(Head(prod[p].pending)) \in Nat
    <3>1. prod[p].at # "idle" => Head(prod[p].pending) \in Datagram
      BY <2>1
    <3> QED
      BY <3>1, CostNat, Zenon
  <2> QED
    BY <2>1, <2>2 DEF InHand, Held
<1>2. /\ Reserved \in [Producers -> Nat] /\ Granted \in [Producers -> Nat]
      /\ Pending \in [Producers -> Nat]
      /\ \A p \in Producers : Granted[p] <= Reserved[p]
  BY <1>1, Zenon DEF Reserved, Granted, Pending
<1>3. IsFiniteSet(Producers)
  BY PathAssumption, Zenon
<1> QED
  BY <1>2, <1>3, SumNat, SumMonotone, Zenon DEF ReservedNat

\* And in the next one.
LEMMA ReservedTypeNext == PathType' => ReservedNat'
BY ReservedType, PTL

\* When only producer p's state changes, each of the three sums changes by what
\* p's own term does.
LEMMA SumStep ==
  ASSUME PathType, PathType', NEW p \in Producers,
         \A q \in Producers : q # p => prod'[q] = prod[q]
  PROVE  /\ SumFunction(Reserved') + InHand(p) = SumFunction(Reserved) + InHand(p)'
         /\ SumFunction(Granted') + Held(p) = SumFunction(Granted) + Held(p)'
         /\ SumFunction(Pending') + Len(prod[p].pending)
              = SumFunction(Pending) + Len(prod'[p].pending)
<1>1. /\ Reserved \in [Producers -> Nat] /\ Granted \in [Producers -> Nat]
      /\ Pending \in [Producers -> Nat]
  BY ReservedType, Zenon DEF ReservedNat
<1>2. /\ Reserved' \in [Producers -> Nat] /\ Granted' \in [Producers -> Nat]
      /\ Pending' \in [Producers -> Nat]
  BY ReservedTypeNext, Zenon DEF ReservedNat
<1>3. /\ \A q \in Producers : /\ Reserved[q] = InHand(q) /\ Reserved'[q] = InHand(q)'
                              /\ Granted[q] = Held(q) /\ Granted'[q] = Held(q)'
                              /\ Pending[q] = Len(prod[q].pending)
                              /\ Pending'[q] = Len(prod'[q].pending)
  BY Zenon DEF Reserved, Granted, Pending
<1>4. /\ \A q \in Producers : q # p => /\ Reserved'[q] = Reserved[q]
                                       /\ Granted'[q] = Granted[q]
                                       /\ Pending'[q] = Pending[q]
  BY <1>3 DEF InHand, Held
<1>5. IsFiniteSet(Producers)
  BY PathAssumption, Zenon
<1>6. SumFunction(Reserved') + Reserved[p] = SumFunction(Reserved) + Reserved'[p]
  BY <1>1, <1>2, <1>4, <1>5, SumDiffers
<1>7. SumFunction(Granted') + Granted[p] = SumFunction(Granted) + Granted'[p]
  BY <1>1, <1>2, <1>4, <1>5, SumDiffers
<1>8. SumFunction(Pending') + Pending[p] = SumFunction(Pending) + Pending'[p]
  BY <1>1, <1>2, <1>4, <1>5, SumDiffers
<1> QED
  BY <1>3, <1>6, <1>7, <1>8, Zenon

\* What a producer does to the charge: the counter, the queue and p's own
\* reservation move together, and a reservation is granted only within the budget.
LEMMA ProducerCharge ==
  ASSUME PathType, PathType', NEW p \in Producers, Producer(p), ChargeInv
  PROVE  ChargeInv'
<1> DEFINE d == Head(prod[p].pending)
           Q == Charge(queue) + Charge(batch)
           R == SumFunction(Reserved)
           G == SumFunction(Granted)
<1>1. /\ prod[p] \in ProducerState /\ prod[p].pending \in Seq(Datagram)
      /\ (prod[p].at # "idle" => prod[p].pending # <<>>)
      /\ queue \in Seq(Datagram) /\ batch \in Seq(Datagram) /\ prod \in [Producers -> ProducerState]
  BY Zenon DEF PathType, ProducerState
<1>2. prod[p].at # "idle" => d \in Datagram /\ Cost(d) \in Nat
  <2>1. prod[p].at # "idle" => d \in Datagram
    BY <1>1
  <2> QED
    BY <2>1, CostNat, Zenon
<1>3. batch' = batch
  BY Zenon DEF Producer, Prepare, Malformed, Reserve, GiveBackFull, Send, GiveBackClosed
<1>4. /\ R' + InHand(p) = R + InHand(p)' /\ G' + Held(p) = G + Held(p)'
  <2>1. \A q \in Producers : q # p => prod'[q] = prod[q]
    BY ProducerStep, Zenon
  <2>2. /\ SumFunction(Reserved') + InHand(p) = SumFunction(Reserved) + InHand(p)'
        /\ SumFunction(Granted') + Held(p) = SumFunction(Granted) + Held(p)'
    BY <2>1, SumStep, Zenon
  <2> QED
    BY <2>2, Zenon
<1>5. R \in Nat /\ G \in Nat /\ R' \in Nat /\ G' \in Nat /\ G <= R
  BY ReservedType, ReservedTypeNext, Zenon DEF ReservedNat
<1>6. Charge(queue) \in Nat /\ Charge(batch) \in Nat /\ CLIENT_QUEUE_BYTES \in Nat
  BY <1>1, ChargeNat, PathAssumption, Zenon
<1>7. queued_bytes = Charge(queue) + Charge(batch) + R
      /\ Charge(queue) + Charge(batch) + G <= CLIENT_QUEUE_BYTES
  BY Zenon DEF ChargeInv, WithinBudget
<1>8. SUFFICES /\ queued_bytes' = Charge(queue') + Charge(batch) + R'
               /\ Charge(queue') + Charge(batch) + G' <= CLIENT_QUEUE_BYTES
  BY <1>3, Zenon DEF ChargeInv, WithinBudget
<1>9. ASSUME prod'[p].at \in {"idle", "reserve"} PROVE InHand(p)' = 0 /\ Held(p)' = 0
  BY <1>9, Zenon DEF InHand, Held
<1>10. /\ prod[p].at \in {"idle", "reserve"} => InHand(p) = 0 /\ Held(p) = 0
       /\ prod[p].at = "full" => InHand(p) = Cost(d) /\ Held(p) = 0
       /\ prod[p].at \in {"send", "closed"} => InHand(p) = Cost(d) /\ Held(p) = Cost(d)
  BY Zenon DEF InHand, Held
<1> HIDE DEF d, R, G
<1>11. CASE Prepare(p) \/ Malformed(p)
  <2>1. queue' = queue /\ queued_bytes' = queued_bytes /\ prod[p].at = "idle"
    BY <1>11, Zenon DEF Prepare, Malformed
  <2>2. prod'[p].at \in {"idle", "reserve"}
    <3>1. CASE Prepare(p)
      <4>1. PICK lens \in Packets :
              prod' = [prod EXCEPT ![p] =
                         [at |-> IF Fitting(Numbered(lens)) = <<>> THEN "idle" ELSE "reserve",
                          pending |-> Fitting(Numbered(lens))]]
        BY <3>1, Zenon DEF Prepare
      <4> QED
        BY <1>1, <4>1, Zenon
    <3>2. CASE Malformed(p)
      BY <2>1, <3>2, Zenon DEF Malformed
    <3> QED
      BY <1>11, <3>1, <3>2, Zenon
  <2> QED
    BY <1>4, <1>5, <1>6, <1>7, <1>9, <1>10, <2>1, <2>2
<1>12. CASE Reserve(p)
  <2>1. /\ queue' = queue /\ queued_bytes' = queued_bytes + Cost(d) /\ prod[p].at = "reserve"
        /\ prod' = [prod EXCEPT ![p].at = IF queued_bytes + Cost(d) > CLIENT_QUEUE_BYTES
                                           THEN "full" ELSE "send"]
    BY <1>12, Zenon DEF Reserve, d
  <2>2. /\ prod'[p].pending = prod[p].pending
        /\ prod'[p].at = IF queued_bytes + Cost(d) > CLIENT_QUEUE_BYTES THEN "full" ELSE "send"
    BY <1>1, <2>1, Zenon DEF ProducerState
  <2>3. /\ InHand(p)' = Cost(d)
        /\ Held(p)' = IF queued_bytes + Cost(d) > CLIENT_QUEUE_BYTES THEN 0 ELSE Cost(d)
    BY <2>2, Zenon DEF InHand, Held, d, Cost
  <2> QED
    BY <1>2, <1>4, <1>5, <1>6, <1>7, <1>10, <2>1, <2>3
<1>13. ASSUME NEW stop \in BOOLEAN, Pushed(p, stop), prod[p].at # "idle"
       PROVE  InHand(p)' = 0 /\ Held(p)' = 0
  <2>1. prod'[p].at \in {"idle", "reserve"}
    BY <1>13, PushedType, Zenon
  <2> QED
    BY <1>9, <2>1, Zenon
<1>14. CASE GiveBackFull(p) \/ GiveBackClosed(p)
  <2>1. /\ queue' = queue /\ queued_bytes' = queued_bytes - Cost(d)
        /\ prod[p].at \in {"full", "closed"} /\ \E stop \in BOOLEAN : Pushed(p, stop)
    BY <1>14, Zenon DEF GiveBackFull, GiveBackClosed, d
  <2>2. InHand(p)' = 0 /\ Held(p)' = 0
    BY <1>13, <2>1, Zenon
  <2> QED
    BY <1>2, <1>4, <1>5, <1>6, <1>7, <1>10, <2>1, <2>2
<1>15. CASE Send(p)
  <2>1. prod[p].at = "send" /\ queued_bytes' = queued_bytes
    BY <1>15, Zenon DEF Send
  <2>2. CASE writer # "stopped"
    <3>1. queue' = Append(queue, d) /\ Pushed(p, FALSE)
      BY <1>15, <2>2, Zenon DEF Send, d
    <3>2. Charge(queue') = Charge(queue) + Cost(d)
      BY <1>1, <1>2, <2>1, <3>1, ChargeAppend, Zenon
    <3>3. InHand(p)' = 0 /\ Held(p)' = 0
      BY <1>13, <2>1, <3>1, Zenon
    <3> QED
      BY <1>2, <1>4, <1>5, <1>6, <1>7, <1>10, <2>1, <3>2, <3>3
  <2>3. CASE writer = "stopped"
    <3>1. queue' = queue /\ prod' = [prod EXCEPT ![p].at = "closed"]
      BY <1>15, <2>3, Zenon DEF Send
    <3>2. prod'[p].pending = prod[p].pending /\ prod'[p].at = "closed"
      BY <1>1, <3>1, Zenon DEF ProducerState
    <3>3. InHand(p)' = Cost(d) /\ Held(p)' = Cost(d)
      BY <3>2, Zenon DEF InHand, Held, d, Cost
    <3> QED
      BY <1>2, <1>4, <1>5, <1>6, <1>7, <1>10, <2>1, <3>1, <3>3
  <2> QED
    BY <2>2, <2>3, Zenon
<1> QED
  BY <1>11, <1>12, <1>14, <1>15, Zenon DEF Producer

\* Every step keeps the counter exact and what is granted within the budget.
LEMMA ChargeStep ==
  ASSUME PathType, PathType', [Next]_vars, ChargeInv
  PROVE  ChargeInv'
<1>1. ASSUME prod' = prod
      PROVE  SumFunction(Reserved)' = SumFunction(Reserved)
             /\ SumFunction(Granted)' = SumFunction(Granted)
  <2>1. Reserved' = Reserved /\ Granted' = Granted
    BY <1>1, Zenon DEF Reserved, Granted, InHand, Held
  <2> QED
    BY <2>1, Zenon
<1>2. ASSUME prod' = prod, queue' = queue, batch' = batch, queued_bytes' = queued_bytes
      PROVE  ChargeInv'
  <2>1. SumFunction(Reserved)' = SumFunction(Reserved)
             /\ SumFunction(Granted)' = SumFunction(Granted)
    BY <1>1, <1>2, Zenon
  <2>2. Charge(queue)' = Charge(queue) /\ Charge(batch)' = Charge(batch)
    BY <1>2, Zenon
  <2> QED
    BY <1>2, <2>1, <2>2, Zenon DEF ChargeInv, WithinBudget
<1>3. /\ queue \in Seq(Datagram) /\ batch \in Seq(Datagram)
      /\ Charge(queue) \in Nat /\ Charge(batch) \in Nat /\ Charge(<<>>) = 0
  BY ChargeNat, Zenon DEF PathType
<1>4. /\ queued_bytes = Charge(queue) + Charge(batch) + SumFunction(Reserved)
      /\ Charge(queue) + Charge(batch) + SumFunction(Granted) <= CLIENT_QUEUE_BYTES
      /\ SumFunction(Reserved) \in Nat /\ SumFunction(Granted) \in Nat
      /\ CLIENT_QUEUE_BYTES \in Nat
  BY ReservedType, PathAssumption, Zenon DEF ChargeInv, WithinBudget, ReservedNat
<1>5. CASE RecvMany
  <2>1. PICK n \in 0..Len(queue) : /\ batch' = SubSeq(queue, 1, n)
                                   /\ queue' = SubSeq(queue, n + 1, Len(queue))
    BY <1>5, RecvIs, Zenon
  <2>2. Charge(queue) = Charge(batch') + Charge(queue')
    BY <1>3, <2>1, ChargeSplit, Zenon
  <2>3. batch = <<>> /\ queued_bytes' = queued_bytes /\ prod' = prod
    BY <1>5, Zenon DEF RecvMany, PathType
  <2>4. batch' \in Seq(Datagram) /\ queue' \in Seq(Datagram)
    BY Zenon DEF PathType
  <2>5. Charge(batch') \in Nat /\ Charge(queue') \in Nat
    BY <2>4, ChargeNat, Zenon
  <2>6. /\ queued_bytes' = Charge(queue') + Charge(batch') + SumFunction(Reserved)'
        /\ Charge(queue') + Charge(batch') + SumFunction(Granted)' <= CLIENT_QUEUE_BYTES
    BY <1>1, <1>3, <1>4, <2>2, <2>3, <2>5
  <2> QED
    BY <2>6, Zenon DEF ChargeInv, WithinBudget
<1>6. CASE Release
  <2>1. /\ queued_bytes' = queued_bytes - Charge(batch) /\ batch' = <<>>
        /\ queue' = queue /\ prod' = prod
    BY <1>6, Zenon DEF Release
  <2>2. Charge(batch)' = 0 /\ Charge(queue)' = Charge(queue)
    BY <1>3, <2>1, Zenon
  <2>3. /\ queued_bytes' = Charge(queue)' + Charge(batch)' + SumFunction(Reserved)'
        /\ Charge(queue)' + Charge(batch)' + SumFunction(Granted)' <= CLIENT_QUEUE_BYTES
    BY <1>1, <1>3, <1>4, <2>1, <2>2
  <2> QED
    BY <2>3, Zenon DEF ChargeInv, WithinBudget
<1>7. CASE UNCHANGED vars \/ TrySendMany \/ SendWait \/ SendFails \/ Abort \/ Connection
  BY <1>2, <1>7, Zenon
     DEF vars, TrySendMany, SendWait, SendFails, Abort, Connection, Transmit,
                    PathMtuChanges, ConnectionLost
<1>8. ASSUME NEW p \in Producers, Producer(p) PROVE ChargeInv'
  BY <1>8, ProducerCharge, Zenon
<1> QED
  BY <1>5, <1>6, <1>7, <1>8, Zenon DEF Next, Writer

-----------------------------------------------------------------------------
(* The counts. *)

\* What a producer does to the counts: a datagram it lets go of is queued or
\* counted under one fate.
LEMMA ProducerCount ==
  ASSUME PathType, PathType', NEW p \in Producers, Producer(p), EveryDatagramCounted
  PROVE  EveryDatagramCounted'
<1> DEFINE P == SumFunction(Pending)
           S == SumFunction(stats)
           n == Len(prod[p].pending)
           m == Len(prod'[p].pending)
<1>1. /\ prod[p].pending \in Seq(Datagram) /\ prod'[p].pending \in Seq(Datagram)
      /\ (prod[p].at = "idle" <=> prod[p].pending = <<>>)
      /\ queue \in Seq(Datagram) /\ rest \in Seq(Datagram) /\ stats \in [Fates -> Nat]
      /\ stats' \in [Fates -> Nat] /\ serial \in Nat \ {0}
      /\ prod \in [Producers -> ProducerState]
  BY Zenon DEF PathType, ProducerState
<1>2. n \in Nat /\ m \in Nat /\ Len(queue) \in Nat /\ Len(rest) \in Nat
  BY <1>1
<1>3. rest' = rest
  BY Zenon DEF Producer, Prepare, Malformed, Reserve, GiveBackFull, Send, GiveBackClosed
<1>4. P' + n = P + m
  <2>1. \A q \in Producers : q # p => prod'[q] = prod[q]
    BY ProducerStep, Zenon
  <2> QED
    BY <2>1, SumStep, Zenon
<1>5. P \in Nat /\ P' \in Nat /\ S \in Nat /\ S' \in Nat
  BY <1>1, ReservedType, ReservedTypeNext, FatesFinite, SumNat, Zenon DEF ReservedNat
<1>6. serial - 1 = Len(queue) + Len(rest) + P + S
  BY Zenon DEF EveryDatagramCounted, Pending
<1>7. SUFFICES serial' - 1 = Len(queue') + Len(rest) + P' + S'
  BY <1>3, Zenon DEF EveryDatagramCounted, Pending
<1> DEFINE Moves == serial' - serial = (Len(queue') - Len(queue)) + (m - n) + (S' - S)
<1>7a. ASSUME Moves PROVE serial' - 1 = Len(queue') + Len(rest) + P' + S'
  <2>1. queue' \in Seq(Datagram) /\ serial' \in Nat
    BY Zenon DEF PathType
  <2>2. Len(queue') \in Int /\ serial' \in Int /\ serial \in Int
    BY <1>1, <2>1
  <2>3. Moves
    BY <1>7a, Zenon
  <2> DEFINE a == Len(queue)
             r == Len(rest)
             b == Len(queue')
             c == serial
             e == serial'
             Q == P'
             T == S'
  <2>4. /\ a \in Nat /\ b \in Int /\ c \in Int /\ e \in Int /\ r \in Nat
        /\ Q \in Nat /\ T \in Nat /\ P \in Nat /\ S \in Nat /\ n \in Nat /\ m \in Nat
    BY <1>2, <1>5, <2>2, Zenon
  <2>5. /\ e - c = (b - a) + (m - n) + (T - S)
        /\ c - 1 = a + r + P + S /\ Q + n = P + m
    BY <1>4, <1>6, <2>3, Zenon
  <2> HIDE DEF n, m, P, S, a, b, c, e, r, Q, T, Moves
  <2>6. e - 1 = b + r + Q + T
    BY <2>4, <2>5
  <2> QED
    BY <2>6, Zenon DEF b, e, r, Q, T
<1>7b. SUFFICES Moves
  BY <1>7a, Zenon
<1>8. \A fate \in Fates : \A k \in Nat : Count(fate, k) => S' = S + k
  BY <1>1, CountIs, Zenon
<1>9. {"too_large", "other", "full", "closed"} \subseteq Fates
  BY Zenon DEF Fates
<1>10. CASE Prepare(p)
  <2>1. PICK lens \in Packets :
          /\ prod' = [prod EXCEPT ![p] =
                        [at |-> IF Fitting(Numbered(lens)) = <<>> THEN "idle" ELSE "reserve",
                         pending |-> Fitting(Numbered(lens))]]
          /\ Count("too_large", Len(Numbered(lens)) - Len(Fitting(Numbered(lens))))
          /\ serial' = serial + Len(lens)
    BY <1>10, Zenon DEF Prepare
  <2> DEFINE all == Numbered(lens)
             f == Fitting(all)
  <2>2. lens \in Seq(Nat) /\ serial \in Nat
    BY <1>1, PathAssumption, Zenon
  <2>3. all \in Seq(Datagram) /\ Len(all) = Len(lens) /\ Sorted(all)
    BY <2>2, NumberedIs, Zenon
  <2>4. f \in Seq(Datagram) /\ Len(f) <= Len(all)
    BY <2>3, FittingSelects, Zenon
  <2>5. Count("too_large", Len(all) - Len(f)) /\ prod'[p].pending = f
    BY <1>1, <2>1, Zenon
  <2> HIDE DEF all, f
  <2>6. Len(f) \in Nat /\ Len(all) \in Nat /\ Len(all) - Len(f) \in Nat /\ m = Len(f)
    BY <2>3, <2>4, <2>5
  <2>7. S' = S + (Len(all) - Len(f))
    BY <1>8, <1>9, <2>5, <2>6, Zenon
  <2>8. n = 0 /\ Len(queue') = Len(queue)
    BY <1>1, <1>10, Zenon DEF Prepare
  <2>9. serial' = serial + Len(all)
    BY <2>1, <2>3, Zenon
  <2> HIDE DEF n, m, P, S
  <2> QED
    BY <1>2, <1>5, <2>2, <2>6, <2>7, <2>8, <2>9
<1>11. CASE Malformed(p)
  <2>1. /\ Count("other", 1) /\ serial' = serial + 1 /\ queue' = queue /\ m = n
    BY <1>11, Zenon DEF Malformed
  <2>2. S' = S + 1
    BY <1>8, <1>9, <2>1, Zenon
  <2> HIDE DEF n, m, P, S
  <2> QED
    BY <1>1, <1>2, <1>5, <2>1, <2>2
<1>12. ASSUME prod' = [prod EXCEPT ![p].at = prod'[p].at]
       PROVE  m = n
  BY <1>1, <1>12, Zenon DEF ProducerState
<1>13. ASSUME Pushed(p, FALSE), prod[p].at # "idle"
       PROVE  m = n - 1
  <2>1. prod'[p].pending = Tail(prod[p].pending)
    BY <1>13, PushedType, Zenon
  <2> QED
    BY <1>1, <1>13, <2>1
<1>14. CASE Reserve(p)
  <2>1. m = n
    BY <1>1, <1>14, Zenon DEF Reserve, ProducerState
  <2>2. stats' = stats /\ serial' = serial /\ queue' = queue
    BY <1>14, Zenon DEF Reserve
  <2> QED
    BY <1>1, <1>2, <1>5, <2>1, <2>2
<1>15. CASE GiveBackFull(p)
  <2>1. /\ Count("full", 1) /\ serial' = serial /\ queue' = queue /\ Pushed(p, FALSE)
        /\ prod[p].at # "idle"
    BY <1>15, Zenon DEF GiveBackFull
  <2>2. S' = S + 1 /\ m = n - 1
    BY <1>8, <1>9, <1>13, <2>1, Zenon
  <2> HIDE DEF n, m, P, S
  <2> QED
    BY <1>1, <1>2, <1>5, <2>1, <2>2
<1>16. CASE GiveBackClosed(p)
  <2>1. /\ Count("closed", n) /\ serial' = serial /\ queue' = queue /\ Pushed(p, TRUE)
        /\ prod[p].at # "idle"
    BY <1>16, Zenon DEF GiveBackClosed
  <2>2. prod'[p].pending = <<>>
    BY <2>1, PushedType, Zenon
  <2>3. S' = S + n /\ m = 0
    BY <1>2, <1>8, <1>9, <2>1, <2>2, Zenon
  <2> HIDE DEF n, m, P, S
  <2> QED
    BY <1>1, <1>2, <1>5, <2>1, <2>3
<1>17. CASE Send(p)
  <2>1. stats' = stats /\ serial' = serial /\ prod[p].at # "idle"
    BY <1>17, Zenon DEF Send
  <2>2. CASE writer # "stopped"
    <3>1. queue' = Append(queue, Head(prod[p].pending)) /\ Pushed(p, FALSE)
      BY <1>17, <2>2, Zenon DEF Send
    <3>2. Len(queue') = Len(queue) + 1
      BY <1>1, <3>1
    <3>3. m = n - 1
      BY <1>13, <2>1, <3>1, Zenon
    <3> QED
      BY <1>1, <1>2, <1>5, <2>1, <3>2, <3>3
  <2>3. CASE writer = "stopped"
    <3>1. queue' = queue /\ m = n
      BY <1>1, <1>17, <2>3, Zenon DEF Send, ProducerState
    <3> QED
      BY <1>1, <1>2, <1>5, <2>1, <3>1
  <2> QED
    BY <2>2, <2>3, Zenon
<1> QED
  BY <1>10, <1>11, <1>14, <1>15, <1>16, <1>17, Zenon DEF Producer

\* Every step keeps every datagram counted.
LEMMA CountStep ==
  ASSUME PathType, PathType', [Next]_vars, EveryDatagramCounted
  PROVE  EveryDatagramCounted'
<1>1. ASSUME prod' = prod PROVE SumFunction(Pending)' = SumFunction(Pending)
  <2>1. Pending' = Pending
    BY <1>1, Zenon DEF Pending
  <2> QED
    BY <2>1, Zenon
<1>2. /\ serial \in Nat /\ Len(queue) \in Nat /\ Len(rest) \in Nat
      /\ SumFunction(Pending) \in Nat /\ SumFunction(stats) \in Nat
  <2>1. /\ queue \in Seq(Datagram) /\ rest \in Seq(Datagram) /\ serial \in Nat
        /\ stats \in [Fates -> Nat]
    BY Zenon DEF PathType
  <2>2. Len(queue) \in Nat /\ Len(rest) \in Nat
    BY <2>1
  <2>3. SumFunction(Pending) \in Nat
    BY ReservedType, Zenon DEF ReservedNat
  <2> QED
    BY <2>1, <2>2, <2>3, FatesFinite, SumNat, Zenon
<1>3. serial - 1 = Len(queue) + Len(rest) + SumFunction(Pending) + SumFunction(stats)
  BY Zenon DEF EveryDatagramCounted, Pending
<1>4. ASSUME prod' = prod, serial' = serial,
             Len(queue') + Len(rest') + SumFunction(stats')
               = Len(queue) + Len(rest) + SumFunction(stats),
             Len(queue') \in Nat, Len(rest') \in Nat, SumFunction(stats') \in Nat
      PROVE  EveryDatagramCounted'
  <2>1. SumFunction(Pending)' = SumFunction(Pending)
    BY <1>1, <1>4, Zenon
  <2> DEFINE P == SumFunction(Pending)
             S == SumFunction(stats)
             T == SumFunction(stats')
             a == Len(queue')
             b == Len(rest')
  <2>3. /\ a \in Nat /\ b \in Nat /\ T \in Nat /\ P \in Nat /\ S \in Nat
        /\ serial - 1 = Len(queue) + Len(rest) + P + S
        /\ a + b + T = Len(queue) + Len(rest) + S
    BY <1>2, <1>3, <1>4, Zenon
  <2>4. serial - 1 = a + b + P + T
    <3> HIDE DEF P, S, T, a, b
    <3> QED
      BY <1>2, <2>3
  <2>2. serial' - 1 = Len(queue') + Len(rest') + SumFunction(Pending)' + SumFunction(stats')
    <3> HIDE DEF P, T, a, b
    <3>1. serial' - 1 = a + b + P' + T
      BY <1>4, <2>1, <2>4, Zenon DEF P
    <3> QED
      BY <3>1, Zenon DEF P, T, a, b
  <2> QED
    BY <2>2, Zenon DEF EveryDatagramCounted, Pending
<1>5. CASE RecvMany
  <2>1. PICK n \in 0..Len(queue) :
          rest' = batch' /\ Len(batch') = n /\ Len(queue') = Len(queue) - n
    BY <1>5, RecvIs, Zenon
  <2>2. rest = <<>> /\ prod' = prod /\ serial' = serial /\ stats' = stats
    BY <1>5, Zenon DEF RecvMany, PathType
  <2> QED
    BY <1>2, <1>4, <2>1, <2>2
<1>6. CASE TrySendMany \/ SendWait \/ SendFails
  <2>1. PICK n \in 0..Len(rest) : Leaves(n)
    BY <1>6, SendStep, Zenon
  <2>2. Len(rest') = Len(rest) - n /\ SumFunction(stats') = SumFunction(stats) + n
    BY <2>1, Zenon DEF Leaves
  <2>3. prod' = prod /\ serial' = serial /\ queue' = queue
    BY <1>6, Zenon DEF TrySendMany, SendWait, SendFails
  <2> QED
    BY <1>2, <1>4, <2>2, <2>3
<1>7. CASE UNCHANGED vars \/ Release \/ Abort \/ Connection
  <2>1. UNCHANGED <<queue, rest, prod, serial, stats>>
    BY <1>7, Zenon
       DEF vars, Release, Abort, Connection, Transmit, PathMtuChanges, ConnectionLost
  <2> QED
    BY <1>2, <1>4, <2>1, Zenon
<1>8. ASSUME NEW p \in Producers, Producer(p) PROVE EveryDatagramCounted'
  BY <1>8, ProducerCount, Zenon
<1> QED
  BY <1>5, <1>6, <1>7, <1>8, Zenon DEF Next, Writer

-----------------------------------------------------------------------------
(* The invariant holds. *)

\* PathInv holds initially.
LEMMA PathInit == Init => PathInv
<1> SUFFICES ASSUME Init PROVE PathInv
  BY Zenon
<1>1. PathType
  BY TypeInit, Zenon
<1>2. /\ queue = <<>> /\ batch = <<>> /\ rest = <<>> /\ queued_bytes = 0 /\ serial = 1
      /\ prod = [p \in Producers |-> [at |-> "idle", pending |-> <<>>]]
      /\ stats = [f \in Fates |-> 0]
  BY Zenon DEF Init
<1>3. /\ \A p \in Producers : Reserved[p] = 0 /\ Granted[p] = 0 /\ Pending[p] = 0
      /\ \A f \in Fates : stats[f] = 0
  BY <1>2, Zenon DEF Reserved, Granted, Pending, InHand, Held
<1>4. /\ Reserved \in [Producers -> Nat] /\ Granted \in [Producers -> Nat]
      /\ Pending \in [Producers -> Nat] /\ stats \in [Fates -> Nat]
  BY <1>1, ReservedType, Zenon DEF ReservedNat, PathType
<1>5. IsFiniteSet(Producers)
  BY PathAssumption, Zenon
<1>6. SumFunction(Reserved) = 0 /\ SumFunction(Granted) = 0 /\ SumFunction(Pending) = 0
  BY <1>3, <1>4, <1>5, SumZero, Zenon
<1>7. SumFunction(stats) = 0
  BY <1>3, <1>4, FatesFinite, SumZero, Zenon
<1>8. Charge(queue) = 0 /\ Charge(batch) = 0
  BY <1>2, ChargeNat, Zenon
<1>9. ChargeInv
  BY <1>2, <1>6, <1>8, PathAssumption DEF ChargeInv, WithinBudget
<1>10. EveryDatagramCounted
  <2>1. serial - 1 = Len(queue) + Len(rest) + SumFunction(Pending) + SumFunction(stats)
    BY <1>2, <1>6, <1>7
  <2> QED
    BY <2>1, Zenon DEF EveryDatagramCounted, Pending
<1> QED
  BY <1>1, <1>9, <1>10, Zenon DEF PathInv

\* And every step keeps it.
LEMMA PathStep == PathInv /\ [Next]_vars => PathInv'
BY TypeStep, ChargeStep, CountStep, Zenon DEF PathInv

\* In every behaviour.
LEMMA PathHolds == Spec => []PathInv
BY PathInit, PathStep, PTL DEF Spec

\* The byte counter of ClientDatagramQueue is exactly the charge of what is queued,
\* in the batch or being reserved, whatever the producers of a queue and its writer
\* do and in whatever order, and what is held never exceeds CLIENT_QUEUE_BYTES.
THEOREM ChargeAlwaysExact == Spec => []ChargeExact
<1>1. PathInv => ChargeExact
  <2> HAVE PathInv
  <2>1. /\ queued_bytes = Charge(queue) + Charge(batch) + SumFunction(Reserved)
        /\ Charge(queue) + Charge(batch) + SumFunction(Granted) <= CLIENT_QUEUE_BYTES
        /\ queue \in Seq(Datagram) /\ batch \in Seq(Datagram)
    BY Zenon DEF PathInv, PathType, ChargeInv, WithinBudget
  <2>2. Charge(queue) \in Nat /\ Charge(batch) \in Nat /\ SumFunction(Granted) \in Nat
    BY <2>1, ChargeNat, ReservedType, Zenon DEF PathInv, ReservedNat
  <2>3. Charge(queue) + Charge(batch) <= CLIENT_QUEUE_BYTES
    BY <2>1, <2>2, PathAssumption
  <2> QED
    BY <2>1, <2>3, Zenon DEF ChargeExact, Reserved
<1> QED
  BY <1>1, PathHolds, PTL

\* Every datagram a packet was segmented into is still on its way or was counted
\* under exactly one fate, on every path of the producers and of the writer.
THEOREM EveryDatagramAlwaysCounted == Spec => []EveryDatagramCounted
<1>1. PathInv => EveryDatagramCounted
  BY Zenon DEF PathInv
<1> QED
  BY <1>1, PathHolds, PTL

-----------------------------------------------------------------------------
(* The order. *)

\* Every datagram of s has a smaller number than every datagram of t.
Before(s, t) == \A i \in 1..Len(s), j \in 1..Len(t) : s[i].id < t[j].id

\* Every number of a is smaller than that of every datagram of s.
Passed(a, s) == \A i \in 1..Len(a), j \in 1..Len(s) : a[i] < s[j].id

\* Every datagram of s was numbered before k.
Below(s, k) == \A i \in 1..Len(s) : s[i].id < k

Ascending(a) == \A i, j \in 1..Len(a) : i < j => a[i] < a[j]

\* One line from the numbers handed out to QUIC, through the rest of the batch, the
\* queue and the producer's pending datagrams, up to the next serial number.
Line(a, r, q, w, k) ==
  /\ a \in Seq(Nat) /\ r \in Seq(Datagram) /\ q \in Seq(Datagram) /\ w \in Seq(Datagram)
  /\ k \in Nat
  /\ Ascending(a) /\ Sorted(r) /\ Sorted(q) /\ Sorted(w)
  /\ Before(r, q) /\ Before(r, w) /\ Before(q, w)
  /\ Passed(a, r) /\ Passed(a, q) /\ Passed(a, w)
  /\ Below(r, k) /\ Below(q, k) /\ Below(w, k) /\ \A i \in 1..Len(a) : a[i] < k

\* Every datagram of t is one of s, and they are in order.
Part(t, s) == t \in Seq(Datagram) /\ From(t, s, Len(s)) /\ Sorted(t)

\* A stretch of s is a part of it.
LEMMA Stretch ==
  ASSUME NEW s \in Seq(Datagram), Sorted(s), NEW t \in Seq(Datagram), NEW n \in Nat,
         \A i \in 1..Len(t) : i + n \in 1..Len(s) /\ t[i] = s[i + n]
  PROVE  Part(t, s)
<1>1. From(t, s, Len(s))
  BY Zenon DEF From
<1>2. ASSUME NEW i \in 1..Len(t), NEW j \in 1..Len(t), i < j PROVE t[i].id < t[j].id
  <2>1. i + n < j + n /\ i + n \in 1..Len(s) /\ j + n \in 1..Len(s)
    BY <1>2
  <2>2. s[i + n].id < s[j + n].id
    BY <2>1, Zenon DEF Sorted
  <2> QED
    BY <2>2, Zenon
<1> QED
  BY <1>1, <1>2, Zenon DEF Part, Sorted

\* A line stays one when datagrams are dropped and numbers used up.
LEMMA LineShrinks ==
  ASSUME NEW a, NEW r, NEW q, NEW w, NEW k, Line(a, r, q, w, k),
         NEW r1, Part(r1, r), NEW q1, Part(q1, q), NEW w1, Part(w1, w),
         NEW m \in Nat, k <= m
  PROVE  Line(a, r1, q1, w1, m)
<1>1. ASSUME NEW s, NEW t, NEW s1, NEW t1, Part(s1, s), Part(t1, t), Before(s, t)
      PROVE  Before(s1, t1)
  BY <1>1, Zenon DEF Part, From, Before
<1>2. ASSUME NEW s, NEW s1, Part(s1, s), Passed(a, s) PROVE Passed(a, s1)
  BY <1>2, Zenon DEF Part, From, Passed
<1>3. ASSUME NEW s \in Seq(Datagram), NEW s1, Part(s1, s), Below(s, k) PROVE Below(s1, m)
  <2>1. ASSUME NEW i \in 1..Len(s1) PROVE s1[i].id < m
    <3>1. PICK j \in 1..Len(s) : s1[i] = s[j]
      BY <1>3, Zenon DEF Part, From
    <3>2. s[j].id < k /\ s[j] \in Datagram
      BY <1>3 DEF Below
    <3>3. s[j].id \in Nat /\ k \in Nat
      BY <3>2, Zenon DEF Datagram, Line
    <3> QED
      BY <3>1, <3>2, <3>3
  <2> QED
    BY <2>1, Zenon DEF Below
<1>4. \A i \in 1..Len(a) : a[i] < m
  BY DEF Line
<1>5. /\ Part(r1, r) /\ Part(q1, q) /\ Part(w1, w)
      /\ Before(r, q) /\ Before(r, w) /\ Before(q, w)
      /\ Passed(a, r) /\ Passed(a, q) /\ Passed(a, w)
      /\ Below(r, k) /\ Below(q, k) /\ Below(w, k)
      /\ r \in Seq(Datagram) /\ q \in Seq(Datagram) /\ w \in Seq(Datagram)
  BY Zenon DEF Line
<1>6. /\ Before(r1, q1) /\ Before(r1, w1) /\ Before(q1, w1)
      /\ Passed(a, r1) /\ Passed(a, q1) /\ Passed(a, w1)
      /\ Below(r1, m) /\ Below(q1, m) /\ Below(w1, m)
  BY <1>1, <1>2, <1>3, <1>5, Zenon
<1>7. a \in Seq(Nat) /\ Ascending(a)
  BY Zenon DEF Line
<1>8. /\ r1 \in Seq(Datagram) /\ q1 \in Seq(Datagram) /\ w1 \in Seq(Datagram)
      /\ Sorted(r1) /\ Sorted(q1) /\ Sorted(w1)
  BY Zenon DEF Part
<1> QED
  BY <1>4, <1>6, <1>7, <1>8, Zenon DEF Line

\* A line stays one when the first datagrams of the queue become the batch.
LEMMA LineRecv ==
  ASSUME NEW a, NEW q, NEW w, NEW k, Line(a, <<>>, q, w, k),
         NEW n \in 0..Len(q), NEW b \in Seq(Datagram), NEW q1 \in Seq(Datagram),
         Len(b) = n, \A i \in 1..n : i \in 1..Len(q) /\ b[i] = q[i],
         \A i \in 1..Len(q1) : i + n \in 1..Len(q) /\ q1[i] = q[i + n]
  PROVE  Line(a, b, q1, w, k)
<1>1. /\ q \in Seq(Datagram) /\ w \in Seq(Datagram) /\ Sorted(q) /\ Sorted(w) /\ n \in Nat
      /\ a \in Seq(Nat) /\ k \in Nat /\ Ascending(a) /\ Before(q, w) /\ Passed(a, q)
      /\ Passed(a, w) /\ Below(q, k) /\ Below(w, k) /\ \A i \in 1..Len(a) : a[i] < k
  BY DEF Line
<1>2. Part(q1, q)
  BY <1>1, Stretch, Zenon
<1>3. Part(b, q)
  <2>1. \A i \in 1..Len(b) : i + 0 \in 1..Len(q) /\ b[i] = q[i + 0]
    OBVIOUS
  <2> QED
    BY <1>1, <2>1, Stretch, Zenon
<1>4. ASSUME NEW i \in 1..Len(b), NEW j \in 1..Len(q1) PROVE b[i].id < q1[j].id
  <2>1. i \in 1..Len(q) /\ j + n \in 1..Len(q) /\ i < j + n /\ b[i] = q[i] /\ q1[j] = q[j + n]
    BY <1>1
  <2> QED
    BY <1>1, <2>1, Zenon DEF Sorted
<1>5. Before(b, w) /\ Before(q1, w) /\ Passed(a, b) /\ Passed(a, q1)
      /\ Below(b, k) /\ Below(q1, k)
  BY <1>1, <1>2, <1>3, Zenon DEF Part, From, Before, Passed, Below
<1>6. Before(b, q1) /\ Sorted(b) /\ Sorted(q1)
  BY <1>2, <1>3, <1>4, Zenon DEF Before, Part
<1> QED
  BY <1>1, <1>5, <1>6, Zenon DEF Line

\* A line stays one when the producer's first datagram goes to the end of the queue.
LEMMA LinePush ==
  ASSUME NEW a, NEW r, NEW q, NEW w, NEW k, Line(a, r, q, w, k), w # <<>>
  PROVE  Line(a, r, Append(q, Head(w)), Tail(w), k)
<1> DEFINE q1 == Append(q, Head(w))
           w1 == Tail(w)
<1>1. /\ a \in Seq(Nat) /\ r \in Seq(Datagram) /\ q \in Seq(Datagram) /\ w \in Seq(Datagram)
      /\ k \in Nat /\ Ascending(a) /\ Sorted(r) /\ Sorted(q) /\ Sorted(w)
      /\ Before(r, q) /\ Before(r, w) /\ Before(q, w)
      /\ Passed(a, r) /\ Passed(a, q) /\ Passed(a, w)
      /\ Below(r, k) /\ Below(q, k) /\ Below(w, k) /\ \A i \in 1..Len(a) : a[i] < k
  BY Zenon DEF Line
<1>2. /\ 1 \in 1..Len(w) /\ Head(w) = w[1] /\ Head(w) \in Datagram
      /\ w1 \in Seq(Datagram) /\ Len(w1) = Len(w) - 1
      /\ \A i \in 1..Len(w1) : i + 1 \in 1..Len(w) /\ w1[i] = w[i + 1]
  BY <1>1
<1>3. Part(w1, w)
  <2> HIDE DEF w1
  <2> QED
    BY <1>1, <1>2, Stretch, Zenon
<1>4. /\ q1 \in Seq(Datagram) /\ Len(q1) = Len(q) + 1 /\ q1[Len(q) + 1] = w[1]
      /\ \A i \in 1..Len(q) : q1[i] = q[i]
  BY <1>1, <1>2
<1> HIDE DEF q1, w1
<1>5. \A i \in 1..Len(q1) : \/ i \in 1..Len(q) /\ q1[i] = q[i]
                            \/ i = Len(q) + 1 /\ q1[i] = w[1]
  BY <1>1, <1>4
<1>6. Before(r, q1) /\ Passed(a, q1) /\ Below(q1, k)
  BY <1>1, <1>2, <1>5, Zenon DEF Before, Passed, Below
<1>7. Before(r, w1) /\ Passed(a, w1) /\ Below(w1, k) /\ Before(q, w1)
  BY <1>1, <1>3, Zenon DEF Part, From, Before, Passed, Below
<1>8. ASSUME NEW i \in 1..Len(w1) PROVE w[1].id < w1[i].id
  <2>1. 1 \in 1..Len(w) /\ i + 1 \in 1..Len(w) /\ 1 < i + 1 /\ w1[i] = w[i + 1]
    BY <1>2
  <2>2. w[1].id < w[i + 1].id
    BY <1>1, <2>1, Zenon DEF Sorted
  <2> QED
    BY <2>1, <2>2, Zenon
<1>9. Before(q1, w1)
  BY <1>5, <1>7, <1>8, Zenon DEF Before
<1>10. Sorted(q1)
  <2>1. ASSUME NEW i \in 1..Len(q1), NEW j \in 1..Len(q1), i < j PROVE q1[i].id < q1[j].id
    <3>1. i \in 1..Len(q) /\ q1[i] = q[i]
      BY <1>1, <1>4, <2>1
    <3>2. CASE j \in 1..Len(q) /\ q1[j] = q[j]
      BY <1>1, <2>1, <3>1, <3>2, Zenon DEF Sorted
    <3>3. CASE q1[j] = w[1]
      BY <1>1, <1>2, <3>1, <3>3, Zenon DEF Before
    <3> QED
      BY <1>5, <3>2, <3>3, Zenon
  <2> QED
    BY <2>1, Zenon DEF Sorted
<1>11. Sorted(w1)
  BY <1>3, Zenon DEF Part
<1>12. Line(a, r, q1, w1, k)
  BY <1>1, <1>2, <1>4, <1>6, <1>7, <1>9, <1>10, <1>11, Zenon DEF Line
<1> QED
  BY <1>12, Zenon DEF q1, w1

\* A line stays one when the producer takes datagrams with new numbers.
LEMMA LinePrepare ==
  ASSUME NEW a, NEW r, NEW q, NEW k, Line(a, r, q, <<>>, k),
         NEW w \in Seq(Datagram), Sorted(w), NEW m \in Nat, k <= m,
         \A i \in 1..Len(w) : w[i].id >= k /\ w[i].id < m
  PROVE  Line(a, r, q, w, m)
<1>1. /\ a \in Seq(Nat) /\ r \in Seq(Datagram) /\ q \in Seq(Datagram)
      /\ k \in Nat /\ Ascending(a) /\ Sorted(r) /\ Sorted(q)
      /\ Before(r, q) /\ Passed(a, r) /\ Passed(a, q)
      /\ Below(r, k) /\ Below(q, k) /\ \A i \in 1..Len(a) : a[i] < k
  BY Zenon DEF Line
<1>2. ASSUME NEW s \in Seq(Datagram) PROVE \A i \in 1..Len(s) : s[i].id \in Nat
  <2>1. ASSUME NEW i \in 1..Len(s) PROVE s[i].id \in Nat
    <3>1. s[i] \in Datagram
      OBVIOUS
    <3> QED
      BY <3>1, Zenon DEF Datagram
  <2> QED
    BY <2>1, Zenon
<1>3. ASSUME NEW x \in Nat, x < k PROVE x < m /\ \A i \in 1..Len(w) : x < w[i].id
  <2>1. x < m /\ k \in Nat
    BY <1>1, <1>3
  <2>2. \A i \in 1..Len(w) : w[i].id \in Nat /\ w[i].id >= k
    BY <1>2, Zenon
  <2> QED
    BY <1>3, <2>1, <2>2
<1>4. /\ Before(r, w) /\ Below(r, m) /\ Before(q, w) /\ Below(q, m)
  <2>1. \A i \in 1..Len(r) : r[i].id \in Nat /\ r[i].id < k
    BY <1>1, <1>2, Zenon DEF Below
  <2>2. \A i \in 1..Len(q) : q[i].id \in Nat /\ q[i].id < k
    BY <1>1, <1>2, Zenon DEF Below
  <2> QED
    BY <1>3, <2>1, <2>2, Zenon DEF Before, Below
<1>5. Passed(a, w) /\ \A i \in 1..Len(a) : a[i] < m
  <2>1. \A i \in 1..Len(a) : a[i] \in Nat /\ a[i] < k
    BY <1>1
  <2> QED
    BY <1>3, <2>1, Zenon DEF Passed
<1>6. Below(w, m)
  BY Zenon DEF Below
<1> QED
  BY <1>1, <1>4, <1>5, <1>6, Zenon DEF Line

\* b is a and the numbers of the first n datagrams of r; r1 is the others.
Handed(b, r1, a, r, n) ==
  /\ b \in Seq(Nat) /\ Len(b) = Len(a) + n /\ \A i \in 1..Len(a) : b[i] = a[i]
  /\ \A i \in 1..n : i \in 1..Len(r) /\ b[Len(a) + i] = r[i].id
  /\ r1 \in Seq(Datagram)
  /\ \A i \in 1..Len(r1) : i + n \in 1..Len(r) /\ r1[i] = r[i + n]

\* A line stays one when the first datagrams of the batch are handed to QUIC.
LEMMA LineHand ==
  ASSUME NEW a, NEW r, NEW q, NEW w, NEW k, Line(a, r, q, w, k),
         NEW n \in 0..Len(r), NEW b, NEW r1, Handed(b, r1, a, r, n)
  PROVE  Line(b, r1, q, w, k)
<1>a. /\ b \in Seq(Nat) /\ Len(b) = Len(a) + n
      /\ r1 \in Seq(Datagram)
  BY Zenon DEF Handed
<1>b. \A i \in 1..Len(a) : b[i] = a[i]
  BY Zenon DEF Handed
<1>c. \A i \in 1..n : i \in 1..Len(r) /\ b[Len(a) + i] = r[i].id
  BY Zenon DEF Handed
<1>d. \A i \in 1..Len(r1) : i + n \in 1..Len(r) /\ r1[i] = r[i + n]
  BY Zenon DEF Handed
<1>1. /\ a \in Seq(Nat) /\ r \in Seq(Datagram) /\ q \in Seq(Datagram) /\ w \in Seq(Datagram)
      /\ k \in Nat /\ Ascending(a) /\ Sorted(r) /\ Sorted(q) /\ Sorted(w)
      /\ Before(r, q) /\ Before(r, w) /\ Before(q, w)
      /\ Passed(a, r) /\ Passed(a, q) /\ Passed(a, w)
      /\ Below(r, k) /\ Below(q, k) /\ Below(w, k) /\ \A i \in 1..Len(a) : a[i] < k
  BY Zenon DEF Line
<1>0. n \in Nat /\ Len(a) \in Nat /\ Len(r) \in Nat /\ n <= Len(r)
  <2>1. a \in Seq(Nat) /\ r \in Seq(Datagram)
    BY <1>1, Zenon
  <2>2. Len(a) \in Nat /\ Len(r) \in Nat
    BY <2>1
  <2> QED
    BY <2>2
<1>2. ASSUME NEW i \in 1..Len(b)
      PROVE  \/ i \in 1..Len(a) /\ b[i] = a[i]
             \/ i - Len(a) \in 1..n /\ i - Len(a) \in 1..Len(r) /\ b[i] = r[i - Len(a)].id
  <2>1. CASE i <= Len(a)
    <3>1. i \in 1..Len(a)
      BY <1>0, <1>a, <2>1
    <3> QED
      BY <1>b, <3>1, Zenon
  <2>2. CASE i > Len(a)
    <3> DEFINE j == i - Len(a)
    <3>1. j \in 1..n /\ Len(a) + j = i
      BY <1>0, <1>a, <2>2
    <3> HIDE DEF j
    <3>2. j \in 1..n /\ j \in 1..Len(r) /\ b[i] = r[j].id
      BY <1>c, <3>1, Zenon
    <3> QED
      BY <3>2, Zenon DEF j
  <2>3. i \in Nat
    BY <1>0, <1>a
  <2> QED
    BY <1>0, <2>1, <2>2, <2>3
<1>3. Part(r1, r)
  BY <1>0, <1>1, <1>a, <1>d, Stretch, Zenon
<1>4. Passed(b, q) /\ Passed(b, w)
  BY <1>1, <1>2, Zenon DEF Passed, Before
<1>5. \A i \in 1..Len(b) : b[i] < k
  BY <1>1, <1>2, Zenon DEF Below
<1>6. ASSUME NEW i \in 1..Len(b), NEW j \in 1..Len(r1) PROVE b[i] < r1[j].id
  <2>1. j + n \in 1..Len(r) /\ r1[j] = r[j + n]
    BY <1>d, Zenon
  <2>2. CASE i \in 1..Len(a) /\ b[i] = a[i]
    BY <1>1, <2>1, <2>2, Zenon DEF Passed
  <2>3. ASSUME NEW m \in 1..n, m \in 1..Len(r), b[i] = r[m].id PROVE b[i] < r1[j].id
    <3>1. j \in Nat \ {0}
      <4>1. Len(r1) \in Nat
        BY <1>a
      <4> QED
        BY <4>1
    <3>2. m < j + n
      BY <1>0, <3>1
    <3> QED
      BY <1>1, <2>1, <2>3, <3>2, Zenon DEF Sorted
  <2> QED
    BY <1>2, <2>2, <2>3, Zenon
<1>7. ASSUME NEW i \in 1..Len(b), NEW j \in 1..Len(b), i < j PROVE b[i] < b[j]
  <2>a. i \in Nat \ {0} /\ j \in Nat \ {0}
    BY <1>0, <1>a
  <2>1. CASE j \in 1..Len(a) /\ b[j] = a[j]
    <3>1. i \in 1..Len(a)
      BY <1>0, <1>7, <2>1, <2>a
    <3>2. b[i] = a[i]
      BY <1>b, <3>1, Zenon
    <3> QED
      BY <1>1, <1>7, <2>1, <3>1, <3>2, Zenon DEF Ascending
  <2>2. CASE /\ j - Len(a) \in 1..n /\ j - Len(a) \in 1..Len(r) /\ b[j] = r[j - Len(a)].id
             /\ i \in 1..Len(a) /\ b[i] = a[i]
    BY <1>1, <2>2, Zenon DEF Passed
  <2>3. CASE /\ j - Len(a) \in 1..Len(r) /\ b[j] = r[j - Len(a)].id
             /\ i - Len(a) \in 1..Len(r) /\ b[i] = r[i - Len(a)].id
    <3>1. i - Len(a) < j - Len(a)
      BY <1>0, <1>7, <2>a
    <3> QED
      BY <1>1, <2>3, <3>1, Zenon DEF Sorted
  <2> QED
    BY <1>2, <2>1, <2>2, <2>3, Zenon
<1>8. Before(r1, q) /\ Before(r1, w) /\ Below(r1, k) /\ Sorted(r1)
  BY <1>1, <1>3, Zenon DEF Part, From, Before, Below
<1>9. Passed(b, r1) /\ Ascending(b)
  BY <1>6, <1>7, Zenon DEF Passed, Ascending
<1> QED
  BY <1>1, <1>4, <1>5, <1>8, <1>9, <1>a, Zenon DEF Line

\* With one producer, everything on its way is one line.
OrderInv(p) == PathType /\ Line(sent, rest, queue, prod[p].pending, serial)

\* A producer's step keeps the line.
LEMMA ProducerOrder ==
  ASSUME NEW p \in Producers, OrderInv(p), Producer(p), PathType'
  PROVE  Line(sent', rest', queue', prod'[p].pending, serial')
<1> DEFINE w == prod[p].pending
           w1 == prod'[p].pending
<1>1. Line(sent, rest, queue, w, serial) /\ PathType
  BY Zenon DEF OrderInv
<1>2. /\ rest \in Seq(Datagram) /\ queue \in Seq(Datagram) /\ w \in Seq(Datagram)
      /\ Sorted(rest) /\ Sorted(queue) /\ Sorted(w) /\ serial \in Nat
  BY <1>1, Zenon DEF Line
<1>3. sent' = sent /\ rest' = rest
  BY Zenon DEF Producer, Prepare, Malformed, Reserve, GiveBackFull, Send, GiveBackClosed
<1>4. ASSUME NEW s \in Seq(Datagram), Sorted(s) PROVE Part(s, s)
  <2>1. \A i \in 1..Len(s) : i + 0 \in 1..Len(s) /\ s[i] = s[i + 0]
    OBVIOUS
  <2> QED
    BY <1>4, <2>1, Stretch, Zenon
<1>5. prod \in [Producers -> ProducerState] /\ (prod[p].at = "idle" <=> w = <<>>)
  BY <1>1, Zenon DEF PathType
<1>6. ASSUME queue' = queue, Part(w1, w), serial' \in Nat, serial <= serial'
      PROVE  Line(sent', rest', queue', w1, serial')
  BY <1>1, <1>2, <1>3, <1>4, <1>6, LineShrinks, Zenon
<1>b. ASSUME queue' = queue, w1 = w, serial' \in Nat, serial <= serial'
      PROVE  Line(sent', rest', queue', w1, serial')
  BY <1>2, <1>4, <1>6, <1>b, Zenon
<1>7. CASE Prepare(p)
  <2>1. PICK lens \in Packets :
          /\ prod' = [prod EXCEPT ![p] =
                        [at |-> IF Fitting(Numbered(lens)) = <<>> THEN "idle" ELSE "reserve",
                         pending |-> Fitting(Numbered(lens))]]
          /\ serial' = serial + Len(lens)
    BY <1>7, Zenon DEF Prepare
  <2> DEFINE all == Numbered(lens)
             f == Fitting(all)
  <2>2. lens \in Seq(Nat)
    BY PathAssumption, Zenon
  <2>3. /\ all \in Seq(Datagram) /\ Len(all) = Len(lens) /\ Sorted(all)
        /\ \A i \in 1..Len(lens) : all[i].id >= serial /\ all[i].id < serial + Len(lens)
    BY <1>2, <2>2, NumberedIs, Zenon
  <2>4. f \in Seq(Datagram) /\ From(f, all, Len(all)) /\ Sorted(f)
    BY <2>3, FittingSelects, Zenon
  <2>5. w1 = f /\ w = <<>> /\ queue' = queue
    BY <1>5, <1>7, <2>1, Zenon DEF Prepare
  <2> HIDE DEF all, f, w, w1
  <2>6. \A i \in 1..Len(f) : f[i].id >= serial /\ f[i].id < serial'
    BY <2>1, <2>3, <2>4, Zenon DEF From
  <2>7. serial' \in Nat /\ serial <= serial'
    BY <1>2, <2>1, <2>2
  <2> QED
    BY <1>1, <1>3, <2>4, <2>5, <2>6, <2>7, LinePrepare, Zenon DEF w1
<1>8. CASE Malformed(p)
  <2>1. w1 = w /\ queue' = queue /\ serial' = serial + 1
    BY <1>8, Zenon DEF Malformed
  <2>2. serial' \in Nat /\ serial <= serial'
    BY <1>2, <2>1
  <2> QED
    BY <1>b, <2>1, <2>2, Zenon
<1>9. CASE Reserve(p)
  <2>1. w1 = w /\ queue' = queue /\ serial' = serial
    BY <1>5, <1>9, Zenon DEF Reserve, ProducerState
  <2>2. serial' \in Nat /\ serial <= serial'
    BY <1>2, <2>1
  <2> QED
    BY <1>b, <2>1, <2>2, Zenon
<1>10. ASSUME w # <<>> PROVE Part(Tail(w), w) /\ Part(<<>>, w)
  <2>1. /\ Tail(w) \in Seq(Datagram)
        /\ \A i \in 1..Len(Tail(w)) : i + 1 \in 1..Len(w) /\ Tail(w)[i] = w[i + 1]
    BY <1>2, <1>10
  <2>2. Part(<<>>, w)
    BY DEF Part, From, Sorted
  <2> HIDE DEF w
  <2>3. 1 \in Nat
    BY Zenon
  <2>4. Part(Tail(w), w)
    BY <1>2, <2>1, <2>3, Stretch, Zenon
  <2> QED
    BY <2>2, <2>4, Zenon
<1>11. CASE GiveBackFull(p) \/ GiveBackClosed(p)
  <2>1. queue' = queue /\ serial' = serial /\ prod[p].at # "idle"
    BY <1>11, Zenon DEF GiveBackFull, GiveBackClosed
  <2>2. PICK stop \in BOOLEAN : Pushed(p, stop)
    BY <1>11, Zenon DEF GiveBackFull, GiveBackClosed
  <2>3. w1 = IF stop THEN <<>> ELSE Tail(w)
    BY <1>1, <2>1, <2>2, PushedType, Zenon
  <2>4. Part(w1, w)
    BY <1>5, <1>10, <2>1, <2>3, Zenon
  <2>5. serial' \in Nat /\ serial <= serial'
    BY <1>2, <2>1
  <2> QED
    BY <1>6, <2>1, <2>4, <2>5, Zenon
<1>12. CASE Send(p)
  <2>1. serial' = serial /\ prod[p].at # "idle"
    BY <1>12, Zenon DEF Send
  <2>2. CASE writer # "stopped"
    <3>1. queue' = Append(queue, Head(w)) /\ Pushed(p, FALSE)
      BY <1>12, <2>2, Zenon DEF Send
    <3>2. w1 = Tail(w)
      BY <1>1, <2>1, <3>1, PushedType, Zenon
    <3>3. Line(sent, rest, Append(queue, Head(w)), Tail(w), serial)
      BY <1>1, <1>5, <2>1, LinePush, Zenon
    <3> QED
      BY <1>3, <2>1, <3>1, <3>2, <3>3, Zenon
  <2>3. CASE writer = "stopped"
    <3>1. w1 = w /\ queue' = queue
      BY <1>5, <1>12, <2>3, Zenon DEF Send, ProducerState
    <3>2. serial' \in Nat /\ serial <= serial'
      BY <1>2, <2>1
    <3> QED
      BY <1>b, <3>1, <3>2, Zenon
  <2> QED
    BY <2>2, <2>3, Zenon
<1> QED
  BY <1>7, <1>8, <1>9, <1>11, <1>12, Zenon DEF Producer

\* With one producer, every step keeps the line.
LEMMA OrderStep ==
  ASSUME NEW p, Producers = {p}, OrderInv(p), [Next]_vars
  PROVE  OrderInv(p)'
<1> DEFINE w == prod[p].pending
<1>1. PathType /\ PathType' /\ Line(sent, rest, queue, w, serial)
  BY TypeStep, Zenon DEF OrderInv
<1>2. /\ rest \in Seq(Datagram) /\ queue \in Seq(Datagram) /\ w \in Seq(Datagram)
      /\ Sorted(rest) /\ Sorted(queue) /\ Sorted(w) /\ serial \in Nat
  BY <1>1, Zenon DEF Line
<1>3. SUFFICES Line(sent', rest', queue', prod'[p].pending, serial')
  BY <1>1, Zenon DEF OrderInv
<1>4. CASE RecvMany
  <2>1. PICK n \in 0..Len(queue) :
           /\ rest' = batch' /\ batch' \in Seq(Datagram) /\ Len(batch') = n
           /\ queue' \in Seq(Datagram)
           /\ \A i \in 1..n : i \in 1..Len(queue) /\ batch'[i] = queue[i]
           /\ \A i \in 1..Len(queue') : i + n \in 1..Len(queue) /\ queue'[i] = queue[i + n]
    BY <1>1, <1>4, RecvIs, Zenon
  <2>2. rest = <<>> /\ sent' = sent /\ prod' = prod /\ serial' = serial
    BY <1>1, <1>4, Zenon DEF RecvMany, PathType
  <2>3. Line(sent, <<>>, queue, w, serial)
    BY <1>1, <2>2, Zenon
  <2>4. Line(sent, batch', queue', w, serial)
    BY <2>1, <2>3, LineRecv, Zenon
  <2> QED
    BY <2>1, <2>2, <2>4, Zenon
<1>5. CASE TrySendMany \/ SendWait \/ SendFails
  <2>1. PICK n \in 0..Len(rest) : Leaves(n)
    BY <1>1, <1>5, SendStep, Zenon
  <2>2. queue' = queue /\ prod' = prod /\ serial' = serial
    BY <1>5, Zenon DEF TrySendMany, SendWait, SendFails
  <2>3. /\ rest' \in Seq(Datagram) /\ n \in Nat
        /\ \A i \in 1..Len(rest') : i + n \in 1..Len(rest) /\ rest'[i] = rest[i + n]
    BY <2>1 DEF Leaves
  <2>4. CASE sent' = sent
    <3>1. Part(rest', rest)
      BY <1>2, <2>3, Stretch, Zenon
    <3>2. ASSUME NEW s \in Seq(Datagram), Sorted(s) PROVE Part(s, s)
      <4>1. \A i \in 1..Len(s) : i + 0 \in 1..Len(s) /\ s[i] = s[i + 0]
        OBVIOUS
      <4> QED
        BY <3>2, <4>1, Stretch, Zenon
    <3>3. Part(queue, queue) /\ Part(w, w) /\ serial <= serial
      BY <1>2, <3>2
    <3>4. Line(sent, rest', queue, w, serial)
      BY <1>1, <1>2, <3>1, <3>3, LineShrinks, Zenon
    <3> QED
      BY <2>2, <2>4, <3>4, Zenon
  <2>5. CASE /\ sent' \in Seq(Nat) /\ Len(sent') = Len(sent) + n
             /\ \A i \in 1..Len(sent) : sent'[i] = sent[i]
             /\ \A i \in 1..n : i \in 1..Len(rest) /\ sent'[Len(sent) + i] = rest[i].id
    <3>1. Handed(sent', rest', sent, rest, n)
      BY <2>3, <2>5, Zenon DEF Handed
    <3>2. Line(sent', rest', queue, w, serial)
      BY <1>1, <3>1, LineHand, Zenon
    <3> QED
      BY <2>2, <3>2, Zenon
  <2> QED
    BY <2>1, <2>4, <2>5, Zenon DEF Leaves
<1>6. CASE UNCHANGED vars \/ Release \/ Abort \/ Connection
  <2>1. UNCHANGED <<sent, rest, queue, prod, serial>>
    BY <1>6, Zenon
       DEF vars, Release, Abort, Connection, Transmit, PathMtuChanges, ConnectionLost
  <2> QED
    BY <1>1, <2>1, Zenon
<1>7. CASE Producer(p)
  BY <1>1, <1>7, ProducerOrder, Zenon
<1> QED
  BY <1>4, <1>5, <1>6, <1>7, Zenon DEF Next, Writer

\* With one producer, as the code has (the packets of one TUN reader), datagrams
\* are handed to QUIC in the order the TUN device yielded them, whatever is dropped
\* on the way, across batches, backpressure and the one-by-one fallback.
THEOREM AlwaysInOrder ==
  ASSUME NEW p, Producers = {p}
  PROVE  Spec => []InOrder
<1>1. Init => OrderInv(p)
  <2> SUFFICES ASSUME Init PROVE OrderInv(p)
    BY Zenon
  <2>1. /\ sent = <<>> /\ rest = <<>> /\ queue = <<>> /\ prod[p].pending = <<>> /\ serial = 1
    BY Zenon DEF Init
  <2>2. Line(<<>>, <<>>, <<>>, <<>>, 1)
    BY DEF Line, Ascending, Sorted, Before, Passed, Below
  <2> QED
    BY <2>1, <2>2, TypeInit, Zenon DEF OrderInv
<1>2. OrderInv(p) /\ [Next]_vars => OrderInv(p)'
  BY OrderStep, Zenon
<1>3. OrderInv(p) => InOrder
  BY Zenon DEF OrderInv, Line, Ascending, InOrder
<1> QED
  BY <1>1, <1>2, <1>3, PTL DEF Spec
=============================================================================
