---------------------------- MODULE ServerProofs ----------------------------
(***************************************************************************)
(* The server, for any number of connections, clients and addresses, any    *)
(* network sizes and either IPv6 strategy.                                   *)
(*                                                                          *)
(* The pools.  PoolSound is not preserved by itself.  A fresh address is    *)
(* new because everything handed out lies below next_ip, and it is above    *)
(* the server's because next_ip is; a derived one is on no free list        *)
(* because a node-id pool has none.  PoolInv adds these facts.               *)
(*                                                                          *)
(* The sessions, whether reconnects overlap or not.  The inductive          *)
(* invariant is Inv.  PoolsSound alone does not say that the pools are what *)
(* the lemmas about them need, and active_connections stays a natural       *)
(* number only because it counts the handlers between its increment and its *)
(* decrement (AdmissionSound).                                              *)
(*                                                                          *)
(* The sessions and the data plane when no client comes back before its old *)
(* handler has ended (~Overlapping).  None of the promises is inductive.    *)
(* What a handler remembers of its addresses, what its key holds in the     *)
(* pools, what is registered under the key and what the reverse maps say of *)
(* the addresses are four copies of one fact, written and erased at         *)
(* different steps; SoloInv says which copies agree at which step.  They    *)
(* agree because a key has one handler at a time (Alone) and an address one *)
(* key (Exclusive).                                                         *)
(***************************************************************************)
EXTENDS ServerRouting, FiniteSetTheorems, TLAPS

(* The pools: what Allocate and Release keep true. *)

PoolInv(p) ==
  /\ p \in PoolType
  /\ PoolSound(p)
  /\ p.server_ip < p.next_ip
  /\ p.size > 0
  /\ p.strategy = "node_id" => p.released = <<>>

-----------------------------------------------------------------------------

\* A new pool is sound (IpPool::new, Ip6Pool::new): it holds nothing, and offers
\* nothing below the server's address.
LEMMA NewPoolInv ==
  ASSUME NEW strategy \in Strategies, NEW size \in Nat \ {0}, NEW server \in Nat
  PROVE  PoolInv(NewPool(strategy, size, server))
<1> DEFINE p == NewPool(strategy, size, server)
<1>1. p \in PoolType
  BY DEF PoolType, NewPool
<1>2. /\ p.in_use = [k \in Keys |-> NoIp] /\ p.released = <<>>
      /\ p.next_ip = server + 1 /\ p.server_ip = server /\ p.size = size
  BY Zenon DEF NewPool
<1>3. Exclusive(p) /\ FreeListSound(p) /\ InRange(p)
  BY <1>2 DEF Exclusive, FreeListSound, InRange
<1>4. NothingLost(p)
  BY <1>2 DEF NothingLost
<1> QED
  BY <1>1, <1>2, <1>3, <1>4 DEF PoolInv, PoolSound

\* The fresh-address branch of allocate keeps the pool sound: next_ip is held by
\* nobody, is on no free list, and becomes held.
LEMMA AllocateFreshInv ==
  ASSUME NEW p, PoolInv(p), NEW k \in Keys, p.strategy = "sequential",
         p.in_use[k] = NoIp, p.released = <<>>, p.next_ip <= p.max_ip
  PROVE  PoolInv([p EXCEPT !.in_use = [@ EXCEPT ![k] = p.next_ip], !.next_ip = @ + 1])
<1>0. SUFFICES ASSUME NEW q,
                      q = [p EXCEPT !.in_use = [@ EXCEPT ![k] = p.next_ip],
                                    !.next_ip = @ + 1]
               PROVE  PoolInv(q)
  BY Zenon
<1> USE NoIpAssumption
<1>1. /\ p.in_use \in [Keys -> Nat \cup {NoIp}] /\ p.next_ip \in Nat /\ p.max_ip \in Int
      /\ p.server_ip \in Nat /\ p.released \in Seq(Nat) /\ p.server_ip < p.next_ip
      /\ p.strategy \in Strategies /\ p.size \in Nat
  BY Zenon DEF PoolInv, PoolType
<1>2. q = [strategy |-> p.strategy, size |-> p.size, server_ip |-> p.server_ip,
           next_ip |-> p.next_ip + 1, max_ip |-> p.max_ip, released |-> p.released,
           in_use |-> [p.in_use EXCEPT ![k] = p.next_ip]]
  BY <1>0, Zenon DEF PoolInv, PoolType
<1>3. q \in PoolType
  BY <1>1, <1>2 DEF PoolType
<1>4. \A l \in Keys : p.in_use[l] # NoIp => p.in_use[l] < p.next_ip
                                            /\ p.server_ip < p.in_use[l]
                                            /\ p.in_use[l] <= p.max_ip
  BY Zenon DEF PoolInv, PoolSound, InRange, HandsOut
<1>5. Exclusive(q)
  BY <1>1, <1>2, <1>4 DEF PoolInv, PoolSound, Exclusive
<1>6. FreeListSound(q) /\ InRange(q)
  BY <1>1, <1>2, <1>4 DEF FreeListSound, InRange, HandsOut
<1>7. NothingLost(q)
  <2> SUFFICES ASSUME NEW a \in (p.server_ip + 1)..p.next_ip
               PROVE  \E l \in Keys : q.in_use[l] = a
    BY <1>1, <1>2 DEF NothingLost
  <2>1. CASE a = p.next_ip
    BY <2>1, <1>1, <1>2, Zenon
  <2>2. CASE a # p.next_ip
    <3>1. PICK l \in Keys : p.in_use[l] = a
      BY <2>2, <1>1 DEF PoolInv, PoolSound, NothingLost
    <3>2. l # k
      BY <3>1, <1>1
    <3> QED
      BY <3>1, <3>2, <1>1, <1>2, Zenon
  <2> QED
    BY <2>1, <2>2, Zenon
<1> QED
  BY <1>1, <1>2, <1>3, <1>5, <1>6, <1>7 DEF PoolInv, PoolSound

\* The free-list branch of allocate keeps the pool sound: the last free address is
\* held by nobody and leaves the list.
LEMMA AllocateFreedInv ==
  ASSUME NEW p, PoolInv(p), NEW k \in Keys, p.strategy = "sequential",
         p.in_use[k] = NoIp, p.released # <<>>
  PROVE  PoolInv([p EXCEPT !.in_use = [@ EXCEPT ![k] = p.released[Len(p.released)]],
                           !.released = SubSeq(@, 1, Len(@) - 1)])
<1> USE NoIpAssumption
<1>0. SUFFICES ASSUME NEW q,
                      q = [p EXCEPT !.in_use = [@ EXCEPT ![k] = p.released[Len(p.released)]],
                                    !.released = SubSeq(@, 1, Len(@) - 1)]
               PROVE  PoolInv(q)
  BY Zenon
<1>1. /\ p.in_use \in [Keys -> Nat \cup {NoIp}] /\ p.next_ip \in Nat /\ p.max_ip \in Int
      /\ p.server_ip \in Nat /\ p.released \in Seq(Nat) /\ p.server_ip < p.next_ip
      /\ p.strategy \in Strategies /\ p.size \in Nat
  BY Zenon DEF PoolInv, PoolType
<1> DEFINE n == Len(p.released)
           a == p.released[n]
           rest == SubSeq(p.released, 1, n - 1)
<1>2. q = [strategy |-> p.strategy, size |-> p.size, server_ip |-> p.server_ip,
           next_ip |-> p.next_ip, max_ip |-> p.max_ip, released |-> rest,
           in_use |-> [p.in_use EXCEPT ![k] = a]]
  BY <1>0, Zenon DEF PoolInv, PoolType
<1>3. /\ n \in Nat \ {0} /\ a \in Nat
      /\ rest \in Seq(Nat) /\ Len(rest) = n - 1
      /\ \A i \in 1..(n - 1) : rest[i] = p.released[i]
  <2>1. n \in Nat /\ n # 0
    BY <1>1
  <2>2. a \in Nat
    BY <1>1, <2>1
  <2>3. /\ rest \in Seq(Nat) /\ Len(rest) = n - 1
        /\ \A i \in 1..(n - 1) : rest[i] = p.released[i]
    <3>0. \A i \in 1..n : p.released[i] \in Nat
      BY <1>1
    <3> HIDE DEF n
    <3>1. n - 1 \in Nat /\ \A i \in 1..(n - 1) : i \in 1..n
      BY <2>1
    <3>2. \A i \in 1..(n - 1) : p.released[i] \in Nat
      BY <3>0, <3>1, Zenon
    <3>3. /\ rest \in Seq(Nat)
          /\ Len(rest) = IF 1 <= n - 1 THEN (n - 1) - 1 + 1 ELSE 0
          /\ \A i \in 1..((n - 1) - 1 + 1) : rest[i] = p.released[1 + i - 1]
      BY <1>1, <3>1, <3>2 DEF n
    <3> QED
      BY <3>1, <3>3
  <2> QED
    BY <2>1, <2>2, <2>3, Zenon
<1> HIDE DEF n, a, rest
<1>4. q \in PoolType
  BY <1>1, <1>2, <1>3, Zenon DEF PoolType
<1>5. /\ \A l \in Keys : p.in_use[l] # a
      /\ \A i \in 1..n : \A l \in Keys : p.in_use[l] # p.released[i]
      /\ \A i, j \in 1..n : p.released[i] = p.released[j] => i = j
  <2>1. FreeListSound(p)
    BY Zenon DEF PoolInv, PoolSound
  <2>2. n \in 1..n
    BY <1>3
  <2> QED
    BY <2>1, <2>2, Zenon DEF FreeListSound, n, a
<1>6. Exclusive(q)
  BY <1>1, <1>2, <1>5, Zenon DEF PoolInv, PoolSound, Exclusive
<1>7. FreeListSound(q)
  <2> SUFFICES ASSUME NEW i \in 1..(n - 1)
               PROVE  /\ \A l \in Keys : q.in_use[l] # rest[i]
                      /\ \A j \in 1..(n - 1) : rest[i] = rest[j] => i = j
    BY <1>2, <1>3 DEF FreeListSound
  <2>1. i \in 1..n /\ n \in 1..n /\ i # n
    BY <1>3
  <2>2. rest[i] # a
    BY <1>3, <1>5, <2>1, Zenon DEF a
  <2>3. \A l \in Keys : q.in_use[l] # rest[i]
    BY <1>1, <1>2, <1>3, <1>5, <2>1, <2>2, Zenon
  <2>4. \A j \in 1..(n - 1) : j \in 1..n /\ rest[j] = p.released[j]
    BY <1>3
  <2>5. \A j \in 1..(n - 1) : rest[i] = rest[j] => i = j
    BY <1>5, <2>1, <2>4, Zenon
  <2> QED
    BY <2>3, <2>5, Zenon
<1>8. InRange(q)
  <2>1. \A b : HandsOut(q, b) <=> HandsOut(p, b)
    BY <1>2, Zenon DEF HandsOut
  <2>2. /\ \A i \in 1..n : HandsOut(p, p.released[i])
        /\ \A l \in Keys : p.in_use[l] # NoIp => HandsOut(p, p.in_use[l])
    BY Zenon DEF PoolInv, PoolSound, InRange, n
  <2>3. \A l \in Keys : q.in_use[l] # NoIp => HandsOut(p, q.in_use[l])
    BY <1>1, <1>2, <1>3, <2>2 DEF a
  <2>4. \A i \in 1..Len(q.released) : HandsOut(p, q.released[i])
    <3>1. q.released = rest /\ \A i \in 1..(n - 1) : i \in 1..n
      BY <1>2, <1>3
    <3> QED
      BY <3>1, <1>3, <2>2, Zenon
  <2> QED
    BY <2>1, <2>3, <2>4, Zenon DEF InRange
<1>9. NothingLost(q)
  <2> SUFFICES ASSUME NEW b \in (p.server_ip + 1)..(p.next_ip - 1)
               PROVE  \/ \E l \in Keys : q.in_use[l] = b
                      \/ \E i \in 1..Len(q.released) : q.released[i] = b
    BY <1>1, <1>2, Zenon DEF NothingLost
  <2>1. CASE b = a
    BY <2>1, <1>1, <1>2, Zenon
  <2>2. CASE \E l \in Keys : p.in_use[l] = b
    <3>1. PICK l \in Keys : p.in_use[l] = b
      BY <2>2, Zenon
    <3>2. l # k
      BY <3>1, <1>1
    <3> QED
      BY <3>1, <3>2, <1>1, <1>2, Zenon
  <2>3. CASE b # a /\ \E i \in 1..n : p.released[i] = b
    <3>1. PICK i \in 1..n : p.released[i] = b
      BY <2>3, Zenon
    <3>2. i # n
      BY <2>3, <3>1, Zenon DEF a
    <3>3. i \in 1..(n - 1)
      BY <1>3, <3>2
    <3>4. rest[i] = b /\ i \in 1..Len(rest)
      BY <1>3, <3>1, <3>3, Zenon
    <3>5. q.released = rest
      BY <1>2, Zenon
    <3> QED
      BY <3>4, <3>5, Zenon
  <2> QED
    BY <2>1, <2>2, <2>3, <1>1, Zenon DEF PoolInv, PoolSound, NothingLost, n
<1> QED
  BY <1>1, <1>2, <1>4, <1>6, <1>7, <1>8, <1>9, Zenon DEF PoolInv, PoolSound

\* An address derived from a node id lies in the network.
LEMMA DerivedInNetwork ==
  ASSUME NEW p, PoolInv(p), NEW k \in Keys
  PROVE  DerivedIp(p, k) \in 0..(p.size - 1)
<1>1. p.size \in Nat \ {0}
  BY DEF PoolInv, PoolType
<1>2. DerivedSuffix[k[1]] \in Nat
  BY SuffixAssumption, Zenon DEF Keys
<1> QED
  BY <1>1, <1>2 DEF DerivedIp

\* The node-id branch of allocate keeps the pool sound: a derived address that
\* nobody holds becomes held.
LEMMA AllocateDerivedInv ==
  ASSUME NEW p, PoolInv(p), NEW k \in Keys, p.strategy = "node_id",
         p.in_use[k] = NoIp, DerivedIp(p, k) \notin {0, p.server_ip} \cup InUse(p)
  PROVE  PoolInv([p EXCEPT !.in_use = [@ EXCEPT ![k] = DerivedIp(p, k)]])
<1> USE NoIpAssumption
<1>0. SUFFICES ASSUME NEW q, q = [p EXCEPT !.in_use = [@ EXCEPT ![k] = DerivedIp(p, k)]]
               PROVE  PoolInv(q)
  BY Zenon
<1> DEFINE a == DerivedIp(p, k)
<1>1. /\ p.in_use \in [Keys -> Nat \cup {NoIp}] /\ p.next_ip \in Nat /\ p.max_ip \in Int
      /\ p.server_ip \in Nat /\ p.released = <<>> /\ p.server_ip < p.next_ip
      /\ p.strategy \in Strategies /\ p.size \in Nat /\ p.size > 0
  BY Zenon DEF PoolInv, PoolType
<1>2. a \in Nat
  BY <1>1, DerivedInNetwork
<1>3. a # 0 /\ a # p.server_ip /\ \A l \in Keys : p.in_use[l] # a
  BY <1>2 DEF InUse
<1> HIDE DEF a
<1>4. q = [strategy |-> p.strategy, size |-> p.size, server_ip |-> p.server_ip,
           next_ip |-> p.next_ip, max_ip |-> p.max_ip, released |-> p.released,
           in_use |-> [p.in_use EXCEPT ![k] = a]]
  BY <1>0, Zenon DEF PoolInv, PoolType, a
<1>5. q \in PoolType
  BY <1>1, <1>2, <1>4 DEF PoolType
<1>6. Exclusive(q)
  BY <1>1, <1>3, <1>4, Zenon DEF PoolInv, PoolSound, Exclusive
<1>7. FreeListSound(q) /\ NothingLost(q)
  BY <1>1, <1>4 DEF FreeListSound, NothingLost
<1>8. InRange(q)
  <2>1. \A b : HandsOut(q, b) <=> b # 0 /\ b # p.server_ip
    BY <1>4, Zenon DEF HandsOut
  <2>2. \A l \in Keys : p.in_use[l] # NoIp => p.in_use[l] # 0 /\ p.in_use[l] # p.server_ip
    BY Zenon DEF PoolInv, PoolSound, InRange, HandsOut
  <2>3. \A l \in Keys : q.in_use[l] # NoIp => HandsOut(q, q.in_use[l])
    BY <1>1, <1>3, <1>4, <2>1, <2>2, Zenon
  <2>4. q.released = <<>>
    BY <1>1, <1>4, Zenon
  <2> QED
    BY <2>3, <2>4 DEF InRange
<1> QED
  BY <1>1, <1>4, <1>5, <1>6, <1>7, <1>8, Zenon DEF PoolInv, PoolSound

\* allocate keeps a pool sound, whatever its strategy and whoever asks.
THEOREM AllocateInv ==
  ASSUME NEW p, PoolInv(p), NEW k \in Keys
  PROVE  PoolInv(Allocate(p, k))
<1>1. CASE p.strategy = "sequential"
  <2>1. CASE p.in_use[k] # NoIp
    BY <1>1, <2>1, Zenon DEF Allocate, AllocateSequential
  <2>2. CASE p.in_use[k] = NoIp /\ p.released # <<>>
    BY <1>1, <2>2, AllocateFreedInv, Zenon DEF Allocate, AllocateSequential
  <2>3. CASE p.in_use[k] = NoIp /\ p.released = <<>> /\ p.next_ip <= p.max_ip
    BY <1>1, <2>3, AllocateFreshInv, Zenon DEF Allocate, AllocateSequential
  <2>4. CASE p.in_use[k] = NoIp /\ p.released = <<>> /\ ~(p.next_ip <= p.max_ip)
    BY <1>1, <2>4, Zenon DEF Allocate, AllocateSequential
  <2> QED
    BY <2>1, <2>2, <2>3, <2>4, Zenon
<1>2. CASE p.strategy # "sequential"
  <2>1. p.strategy = "node_id"
    BY <1>2, Zenon DEF PoolInv, PoolType, Strategies
  <2> QED
    BY <1>2, <2>1, AllocateDerivedInv, Zenon DEF Allocate, AllocateNodeId
<1> QED
  BY <1>1, <1>2, Zenon

\* release keeps a pool sound: the key's address is on no free list yet, so it can
\* be put there once, and the key no longer holds it.
THEOREM ReleaseInv ==
  ASSUME NEW p, PoolInv(p), NEW k \in Keys
  PROVE  PoolInv(Release(p, k))
<1> USE NoIpAssumption
<1> DEFINE a == p.in_use[k]
           freed == IF p.strategy = "sequential" THEN Append(p.released, a) ELSE p.released
<1>0. SUFFICES ASSUME a # NoIp PROVE PoolInv(Release(p, k))
  BY Zenon DEF Release
<1>q. SUFFICES ASSUME NEW q,
                      q = [p EXCEPT !.in_use = [@ EXCEPT ![k] = NoIp], !.released = freed]
               PROVE  PoolInv(q)
  BY <1>0, Zenon DEF Release
<1>1. /\ p.in_use \in [Keys -> Nat \cup {NoIp}] /\ p.next_ip \in Nat /\ p.max_ip \in Int
      /\ p.server_ip \in Nat /\ p.released \in Seq(Nat) /\ p.server_ip < p.next_ip
      /\ p.strategy \in Strategies /\ p.size \in Nat /\ p.size > 0 /\ a \in Nat
  BY <1>0, Zenon DEF PoolInv, PoolType
<1>2. q = [strategy |-> p.strategy, size |-> p.size, server_ip |-> p.server_ip,
           next_ip |-> p.next_ip, max_ip |-> p.max_ip, released |-> freed,
           in_use |-> [p.in_use EXCEPT ![k] = NoIp]]
  BY <1>q, Zenon DEF PoolInv, PoolType
<1> DEFINE n == Len(p.released)
<1>3. /\ n \in Nat
      /\ freed \in Seq(Nat)
      /\ p.strategy = "sequential" =>
           /\ Len(freed) = n + 1 /\ freed[n + 1] = a
           /\ \A i \in 1..n : freed[i] = p.released[i]
      /\ p.strategy = "node_id" => freed = <<>>
  BY <1>1 DEF PoolInv
<1>4. /\ \A i \in 1..n : \A l \in Keys : p.in_use[l] # p.released[i]
      /\ \A i, j \in 1..n : p.released[i] = p.released[j] => i = j
  <2>1. FreeListSound(p)
    BY Zenon DEF PoolInv, PoolSound
  <2> QED
    BY <2>1, Zenon DEF FreeListSound
<1>5. \A l \in Keys : p.in_use[l] = a => l = k
  BY <1>0, Zenon DEF PoolInv, PoolSound, Exclusive
<1> HIDE DEF a, freed, n
<1>6. q \in PoolType
  BY <1>1, <1>2, <1>3, Zenon DEF PoolType
<1>7. Exclusive(q)
  BY <1>1, <1>2, Zenon DEF PoolInv, PoolSound, Exclusive
<1>8. q.in_use[k] = NoIp /\ \A l \in Keys : l # k => q.in_use[l] = p.in_use[l]
  BY <1>1, <1>2, Zenon
<1>9. CASE p.strategy = "sequential"
  <2>1. \A i \in 1..(n + 1) : i \in 1..n \/ i = n + 1
    BY <1>3
  <2>2. \A i \in 1..n : freed[i] # a
    BY <1>3, <1>4, <1>9, Zenon DEF a
  <2>3. FreeListSound(q)
    <3> SUFFICES ASSUME NEW i \in 1..(n + 1)
                 PROVE  /\ \A l \in Keys : q.in_use[l] # freed[i]
                        /\ \A j \in 1..(n + 1) : freed[i] = freed[j] => i = j
      BY <1>2, <1>3, <1>9 DEF FreeListSound
    <3>1. \A l \in Keys : q.in_use[l] # freed[i]
      <4>1. freed[i] \in Nat
        BY <1>3, <1>9
      <4>2. CASE i = n + 1
        BY <4>1, <4>2, <1>3, <1>5, <1>8, <1>9
      <4>3. CASE i \in 1..n
        <5>1. freed[i] = p.released[i] /\ \A l \in Keys : p.in_use[l] # p.released[i]
          BY <4>3, <1>3, <1>4, <1>9, Zenon
        <5> QED
          BY <4>1, <5>1, <1>8
      <4> QED
        BY <4>2, <4>3, <2>1, Zenon
    <3>2. \A j \in 1..(n + 1) : freed[i] = freed[j] => i = j
      BY <1>3, <1>4, <1>9, <2>1, <2>2, Zenon
    <3> QED
      BY <3>1, <3>2, Zenon
  <2>4. InRange(q)
    <3>1. \A b : HandsOut(q, b) <=> HandsOut(p, b)
      BY <1>2, Zenon DEF HandsOut
    <3>2. /\ \A i \in 1..n : HandsOut(p, p.released[i])
          /\ \A l \in Keys : p.in_use[l] # NoIp => HandsOut(p, p.in_use[l])
      BY Zenon DEF PoolInv, PoolSound, InRange, n
    <3>3. HandsOut(p, a)
      BY <3>2, <1>0, Zenon DEF a
    <3>4. \A l \in Keys : q.in_use[l] # NoIp => HandsOut(p, q.in_use[l])
      BY <1>8, <3>2, Zenon
    <3>5. \A i \in 1..Len(q.released) : HandsOut(p, q.released[i])
      <4>1. q.released = freed /\ Len(q.released) = n + 1
        BY <1>2, <1>3, <1>9, Zenon
      <4> QED
        BY <4>1, <1>3, <1>9, <2>1, <3>2, <3>3, Zenon
    <3> QED
      BY <3>1, <3>4, <3>5, Zenon DEF InRange
  <2>5. NothingLost(q)
    <3> SUFFICES ASSUME NEW b \in (p.server_ip + 1)..(p.next_ip - 1)
                 PROVE  \/ \E l \in Keys : q.in_use[l] = b
                        \/ \E i \in 1..Len(q.released) : q.released[i] = b
      BY <1>1, <1>2, Zenon DEF NothingLost
    <3>1. q.released = freed /\ Len(q.released) = n + 1
      BY <1>2, <1>3, <1>9, Zenon
    <3>2. CASE b = a
      BY <3>1, <3>2, <1>3, <1>9
    <3>3. CASE b # a /\ \E l \in Keys : p.in_use[l] = b
      <4>1. PICK l \in Keys : p.in_use[l] = b
        BY <3>3, Zenon
      <4>2. l # k
        BY <3>3, <4>1, Zenon DEF a
      <4> QED
        BY <4>1, <4>2, <1>8, Zenon
    <3>4. CASE \E i \in 1..n : p.released[i] = b
      <4>1. PICK i \in 1..n : p.released[i] = b
        BY <3>4, Zenon
      <4>2. i \in 1..(n + 1) /\ freed[i] = b
        BY <4>1, <1>3, <1>9
      <4> QED
        BY <3>1, <4>2, Zenon
    <3> QED
      BY <3>2, <3>3, <3>4, <1>1, <1>9, Zenon DEF PoolInv, PoolSound, NothingLost, n
  <2> QED
    BY <1>1, <1>2, <1>6, <1>7, <1>9, <2>3, <2>4, <2>5, Zenon DEF PoolInv, PoolSound
<1>10. CASE p.strategy = "node_id"
  <2>1. q.released = <<>> /\ q.strategy = "node_id"
    BY <1>2, <1>3, <1>10, Zenon
  <2>2. FreeListSound(q) /\ NothingLost(q)
    BY <2>1 DEF FreeListSound, NothingLost
  <2>3. \A b : HandsOut(q, b) <=> HandsOut(p, b)
    BY <1>2, Zenon DEF HandsOut
  <2>4. \A l \in Keys : p.in_use[l] # NoIp => HandsOut(p, p.in_use[l])
    BY Zenon DEF PoolInv, PoolSound, InRange
  <2>5. InRange(q)
    BY <1>8, <2>1, <2>3, <2>4 DEF InRange
  <2> QED
    BY <1>1, <1>2, <1>6, <1>7, <2>1, <2>2, <2>5, Zenon DEF PoolInv, PoolSound
<1> QED
  BY <1>1, <1>9, <1>10, Zenon DEF Strategies

-----------------------------------------------------------------------------
(* What a step of a pool does to the addresses held. *)

\* p is a pool created by NewPool(strategy, size, server), some steps later: the
\* configuration is as it was, and derived addresses lie in the network.
PoolOf(p, strategy, size, server) ==
  /\ p.strategy = strategy /\ p.size = size /\ p.server_ip = server
  /\ p.max_ip = size - 2
  /\ strategy = "node_id" => \A k \in Keys : p.in_use[k] # NoIp => p.in_use[k] < size

\* Two pools of one configuration.
SameConfig(p, q) ==
  /\ q.strategy = p.strategy /\ q.size = p.size
  /\ q.server_ip = p.server_ip /\ q.max_ip = p.max_ip

\* allocate either changes nothing, because the key has its address or no address
\* is left for it, or gives the key one address that nobody holds.
LEMMA AllocateGrants ==
  ASSUME NEW p, PoolInv(p), NEW k \in Keys
  PROVE  /\ SameConfig(p, Allocate(p, k))
         /\ \/ Allocate(p, k) = p
            \/ /\ p.in_use[k] = NoIp
               /\ \E a \in Nat : /\ Allocate(p, k).in_use = [p.in_use EXCEPT ![k] = a]
                                 /\ \A l \in Keys : p.in_use[l] # a
                                 /\ p.strategy = "node_id" => a < p.size
<1> DEFINE Grants(q) == /\ SameConfig(p, q)
                        /\ \/ q = p
                           \/ /\ p.in_use[k] = NoIp
                              /\ \E a \in Nat : /\ q.in_use = [p.in_use EXCEPT ![k] = a]
                                                /\ \A l \in Keys : p.in_use[l] # a
                                                /\ p.strategy = "node_id" => a < p.size
<1> USE NoIpAssumption
<1>0. SUFFICES Grants(Allocate(p, k))
  BY Zenon
<1>1. p \in PoolType /\ SameConfig(p, p)
  BY Zenon DEF PoolInv, SameConfig
<1>2. /\ p.in_use \in [Keys -> Nat \cup {NoIp}] /\ p.next_ip \in Nat
      /\ p.released \in Seq(Nat) /\ p.strategy \in Strategies
  BY <1>1, Zenon DEF PoolType
<1>3. ASSUME NEW a \in Nat, p.in_use[k] = NoIp, \A l \in Keys : p.in_use[l] # a,
             p.strategy = "node_id" => a < p.size,
             NEW q, SameConfig(p, q), q.in_use = [p.in_use EXCEPT ![k] = a]
      PROVE  Grants(q)
  BY <1>3, Zenon
<1>4. CASE p.strategy = "sequential"
  <2>1. CASE p.in_use[k] # NoIp
    BY <1>1, <1>4, <2>1, Zenon DEF Allocate, AllocateSequential
  <2>2. CASE p.in_use[k] = NoIp /\ p.released # <<>>
    <3> DEFINE a == p.released[Len(p.released)]
               q == [p EXCEPT !.in_use = [@ EXCEPT ![k] = p.released[Len(p.released)]],
                              !.released = SubSeq(@, 1, Len(@) - 1)]
    <3>1. Allocate(p, k) = q
      BY <1>4, <2>2, Zenon DEF Allocate, AllocateSequential
    <3>2. Len(p.released) \in 1..Len(p.released)
      BY <1>2, <2>2
    <3>3. a \in Nat /\ \A l \in Keys : p.in_use[l] # a
      <4>1. a \in Nat
        BY <1>2, <3>2
      <4>2. FreeListSound(p)
        BY Zenon DEF PoolInv, PoolSound
      <4> QED
        BY <3>2, <4>1, <4>2, Zenon DEF FreeListSound
    <3>4. SameConfig(p, q) /\ q.in_use = [p.in_use EXCEPT ![k] = a]
      BY <1>1, Zenon DEF PoolType, SameConfig
    <3>5. p.strategy = "node_id" => a < p.size
      BY <1>4, Zenon
    <3> HIDE DEF a, q
    <3> QED
      BY <1>3, <2>2, <3>1, <3>3, <3>4, <3>5, Zenon
  <2>3. CASE p.in_use[k] = NoIp /\ p.released = <<>> /\ p.next_ip <= p.max_ip
    <3> DEFINE q == [p EXCEPT !.in_use = [@ EXCEPT ![k] = p.next_ip], !.next_ip = @ + 1]
    <3>1. Allocate(p, k) = q
      BY <1>4, <2>3, Zenon DEF Allocate, AllocateSequential
    <3>2. \A l \in Keys : p.in_use[l] # NoIp => p.in_use[l] < p.next_ip
      BY <1>4, Zenon DEF PoolInv, PoolSound, InRange, HandsOut
    <3>3. \A l \in Keys : p.in_use[l] # p.next_ip
      BY <1>2, <3>2
    <3>4. SameConfig(p, q) /\ q.in_use = [p.in_use EXCEPT ![k] = p.next_ip]
      BY <1>1, Zenon DEF PoolType, SameConfig
    <3>5. p.strategy = "node_id" => p.next_ip < p.size
      BY <1>4, Zenon
    <3> HIDE DEF q
    <3> QED
      BY <1>2, <1>3, <2>3, <3>1, <3>3, <3>4, <3>5, Zenon
  <2>4. CASE p.in_use[k] = NoIp /\ p.released = <<>> /\ ~(p.next_ip <= p.max_ip)
    BY <1>1, <1>4, <2>4, Zenon DEF Allocate, AllocateSequential
  <2> QED
    BY <2>1, <2>2, <2>3, <2>4, Zenon
<1>5. CASE p.strategy = "node_id"
  <2> DEFINE a == DerivedIp(p, k)
             q == [p EXCEPT !.in_use = [@ EXCEPT ![k] = DerivedIp(p, k)]]
  <2>1. CASE p.in_use[k] # NoIp \/ a \in {0, p.server_ip} \cup InUse(p)
    BY <1>1, <1>5, <2>1, Zenon DEF Allocate, AllocateNodeId
  <2>2. CASE p.in_use[k] = NoIp /\ a \notin {0, p.server_ip} \cup InUse(p)
    <3>1. Allocate(p, k) = q
      BY <1>5, <2>2, Zenon DEF Allocate, AllocateNodeId
    <3>2. a \in Nat /\ a < p.size
      <4>1. a \in 0..(p.size - 1) /\ p.size \in Nat
        BY <1>1, DerivedInNetwork, Zenon DEF PoolType
      <4> HIDE DEF a
      <4> QED
        BY <4>1
    <3>3. \A l \in Keys : p.in_use[l] # a
      BY <2>2, <3>2 DEF InUse
    <3>4. SameConfig(p, q) /\ q.in_use = [p.in_use EXCEPT ![k] = a]
      BY <1>1, Zenon DEF PoolType, SameConfig
    <3> HIDE DEF a, q
    <3> QED
      BY <1>3, <2>2, <3>1, <3>2, <3>3, <3>4, Zenon
  <2> QED
    BY <2>1, <2>2, Zenon
<1> QED
  BY <1>2, <1>4, <1>5, Zenon DEF Strategies

\* release takes the key's address away and no other.
LEMMA ReleaseRevokes ==
  ASSUME NEW p, PoolInv(p), NEW k \in Keys
  PROVE  /\ SameConfig(p, Release(p, k))
         /\ Release(p, k).in_use = [p.in_use EXCEPT ![k] = NoIp]
<1>1. p \in PoolType
  BY Zenon DEF PoolInv
<1>2. CASE p.in_use[k] = NoIp
  BY <1>1, <1>2, Zenon DEF PoolType, Release, SameConfig
<1>3. CASE p.in_use[k] # NoIp
  BY <1>1, <1>3, Zenon DEF PoolType, Release, SameConfig
<1> QED
  BY <1>2, <1>3, Zenon

\* Neither changes the configuration of a pool, nor lets a derived address leave
\* the network.
LEMMA StepKeepsConfig ==
  ASSUME NEW p, PoolInv(p), NEW k \in Keys, NEW s, NEW n, NEW v, PoolOf(p, s, n, v),
         NEW q \in {Allocate(p, k), Release(p, k)}
  PROVE  PoolOf(q, s, n, v)
<1>1. p.in_use \in [Keys -> Nat \cup {NoIp}]
  BY Zenon DEF PoolInv, PoolType
<1>2. CASE q = Allocate(p, k)
  <2>1. SameConfig(p, q)
    BY <1>2, AllocateGrants, Zenon
  <2>2. CASE q = p
    BY <2>2, Zenon
  <2>3. CASE \E a \in Nat : /\ q.in_use = [p.in_use EXCEPT ![k] = a]
                            /\ p.strategy = "node_id" => a < p.size
    <3>1. PICK a \in Nat : /\ q.in_use = [p.in_use EXCEPT ![k] = a]
                           /\ p.strategy = "node_id" => a < p.size
      BY <2>3, Zenon
    <3>2. \A l \in Keys : q.in_use[l] = IF l = k THEN a ELSE p.in_use[l]
      BY <1>1, <3>1, Zenon
    <3> QED
      BY <2>1, <3>1, <3>2, Zenon DEF PoolOf, SameConfig
  <2> QED
    BY <1>2, <2>2, <2>3, AllocateGrants, Zenon
<1>3. CASE q = Release(p, k)
  <2>1. SameConfig(p, q) /\ q.in_use = [p.in_use EXCEPT ![k] = NoIp]
    BY <1>3, ReleaseRevokes, Zenon
  <2>2. \A l \in Keys : q.in_use[l] # NoIp => q.in_use[l] = p.in_use[l]
    BY <1>1, <2>1, Zenon
  <2>3. s = "node_id" => \A l \in Keys : q.in_use[l] # NoIp => q.in_use[l] < n
    BY <2>2, Zenon DEF PoolOf
  <2> QED
    BY <2>1, <2>3, Zenon DEF PoolOf, SameConfig
<1> QED
  BY <1>2, <1>3, Zenon

\* Every address a pool holds is an address of its network, and neither the
\* network's own nor the server's.
LEMMA HeldInNetwork ==
  ASSUME NEW p, PoolInv(p), NEW s, NEW n \in Nat, NEW v \in Nat, PoolOf(p, s, n, v),
         NEW k \in Keys, p.in_use[k] # NoIp
  PROVE  p.in_use[k] \in (0..(n - 1)) \ {0, v}
<1>1. p.in_use[k] \in Nat /\ p.strategy \in Strategies
  BY Zenon DEF PoolInv, PoolType
<1>2. HandsOut(p, p.in_use[k])
  BY Zenon DEF PoolInv, PoolSound, InRange
<1> DEFINE a == p.in_use[k]
<1> HIDE DEF a
<1> QED
  BY <1>1, <1>2 DEF HandsOut, PoolOf, Strategies, a

-----------------------------------------------------------------------------
(* The sessions. *)

Inv ==
  /\ TypeOK
  /\ PoolInv(ip_pool) /\ PoolInv(ip6_pool)
  /\ AdmissionSound

-----------------------------------------------------------------------------
(* The pools. *)

\* p became q by an allocation or a release for some client, or did not change.
PoolStep(p, q) ==
  q = p \/ \E k \in Keys : q = Allocate(p, k) \/ q = Release(p, k)

\* Whatever a handler does, it changes a pool only through allocate and release.
LEMMA PoolSteps ==
  ASSUME TypeOK, Next
  PROVE  PoolStep(ip_pool, ip_pool') /\ PoolStep(ip6_pool, ip6_pool')
<1> USE DEF Counted, Admitted
<1>1. ASSUME NEW c \in Conns, Allocate4(c)
      PROVE  PoolStep(ip_pool, ip_pool') /\ PoolStep(ip6_pool, ip6_pool')
  BY <1>1, Zenon DEF Allocate4, Go, TypeOK, PoolStep
<1>2. ASSUME NEW c \in Conns, Allocate6(c)
      PROVE  PoolStep(ip_pool, ip_pool') /\ PoolStep(ip6_pool, ip6_pool')
  BY <1>2, Zenon DEF Allocate6, Go, TypeOK, PoolStep
<1>3. ASSUME NEW c \in Conns, Release4(c)
      PROVE  PoolStep(ip_pool, ip_pool') /\ PoolStep(ip6_pool, ip6_pool')
  BY <1>3, Zenon DEF Release4, Go, TypeOK, PoolStep
<1>4. ASSUME NEW c \in Conns, Release6(c)
      PROVE  PoolStep(ip_pool, ip_pool') /\ PoolStep(ip6_pool, ip6_pool')
  BY <1>4, Zenon DEF Release6, Go, TypeOK, PoolStep
<1>5. ASSUME NEW c \in Conns,
             \/ HandshakeFails(c) \/ SessionEnds(c) \/ \E k \in Keys : Accept(c, k)
             \/ Count(c) \/ RejectFull(c) \/ Respond(c) \/ RespondFails(c)

             \/ TakeSessionId(c) \/ InsertClient(c) \/ Map4(c) \/ Map6(c) \/ RemoveClient(c)
             \/ Unmap4(c) \/ Unmap6(c) \/ Leave(c)
      PROVE  UNCHANGED <<ip_pool, ip6_pool>>
  BY <1>5, Zenon DEF HandshakeFails, SessionEnds, Accept, Count, RejectFull, Respond,
              RespondFails,
              TakeSessionId, InsertClient, Map4, Map6, RemoveClient, Unmap4, Unmap6,
              Leave, pools
<1>6. CASE Finished
  BY <1>6, Zenon DEF Finished, vars, PoolStep
<1> QED
  BY <1>1, <1>2, <1>3, <1>4, <1>5, <1>6, Zenon DEF Next, Handler, PoolStep

\* A step of a pool keeps it sound.
LEMMA PoolStepInv ==
  ASSUME NEW p, NEW q, PoolInv(p), PoolStep(p, q)
  PROVE  PoolInv(q)
BY AllocateInv, ReleaseInv, Zenon DEF PoolStep

-----------------------------------------------------------------------------
(* Counting handlers. *)

\* The handlers at a step of S.
At(S) == {c \in Conns : pc[c] \in S}

\* How the handlers at a set of steps change when one handler moves.
LEMMA Moves ==
  ASSUME TypeOK, NEW c \in Conns, NEW from, NEW to, Go(c, from, to), NEW S
  PROVE  /\ (from \in S <=> to \in S) => At(S)' = At(S)
         /\ from \notin S /\ to \in S => At(S)' = At(S) \cup {c} /\ c \notin At(S)
         /\ from \in S /\ to \notin S => At(S)' = At(S) \ {c} /\ c \in At(S)
<1>1. pc[c] = from /\ \A d \in Conns : pc'[d] = IF d = c THEN to ELSE pc[d]
  BY Zenon DEF Go, TypeOK
<1> QED
  BY <1>1, Zenon DEF At

\* The same in numbers.
LEMMA MovesCount ==
  ASSUME TypeOK, NEW c \in Conns, NEW from, NEW to, Go(c, from, to), NEW S
  PROVE  /\ Cardinality(At(S)) \in Nat
         /\ (from \in S <=> to \in S) => Cardinality(At(S)') = Cardinality(At(S))
         /\ from \notin S /\ to \in S => Cardinality(At(S)') = Cardinality(At(S)) + 1
         /\ from \in S /\ to \notin S => /\ Cardinality(At(S)') = Cardinality(At(S)) - 1
                                         /\ Cardinality(At(S)) > 0
<1>1. IsFiniteSet(At(S))
  <2>1. At(S) \in SUBSET Conns
    BY Zenon DEF At
  <2> QED
    BY <2>1, ServerAssumption, FS_Subset, Zenon
<1>2. Cardinality(At(S)) \in Nat
  BY <1>1, FS_CardinalityType, Zenon
<1>3. ASSUME from \notin S, to \in S
      PROVE  Cardinality(At(S)') = Cardinality(At(S)) + 1
  <2>1. At(S)' = At(S) \cup {c} /\ c \notin At(S)
    BY <1>3, Moves, Zenon
  <2> QED
    BY <1>1, <2>1, FS_AddElement, Zenon
<1>4. ASSUME from \in S, to \notin S
      PROVE  Cardinality(At(S)') = Cardinality(At(S)) - 1 /\ Cardinality(At(S)) > 0
  <2>1. At(S)' = At(S) \ {c} /\ c \in At(S)
    BY <1>4, Moves, Zenon
  <2>2. Cardinality(At(S)') = Cardinality(At(S)) - 1
    BY <1>1, <2>1, FS_RemoveElement, Zenon
  <2>3. Cardinality(At(S)) # 0
    BY <1>1, <2>1, FS_EmptySet, Zenon
  <2> QED
    BY <1>2, <2>2, <2>3
<1>5. (from \in S <=> to \in S) => Cardinality(At(S)') = Cardinality(At(S))
  BY Moves, Zenon
<1> QED
  BY <1>2, <1>3, <1>4, <1>5, Zenon

\* Those past the check are among those counted.
LEMMA AdmittedCounted ==
  ASSUME TypeOK
  PROVE  /\ Cardinality(At(Counted)) \in Nat /\ Cardinality(At(Admitted)) \in Nat
         /\ Cardinality(At(Admitted)) <= Cardinality(At(Counted))
<1>1. At(Counted) \in SUBSET Conns /\ At(Admitted) \in SUBSET At(Counted)
  BY Zenon DEF At, Counted
<1>2. IsFiniteSet(At(Counted))
  BY <1>1, ServerAssumption, FS_Subset, Zenon
<1>3. IsFiniteSet(At(Admitted)) /\ Cardinality(At(Admitted)) <= Cardinality(At(Counted))
  BY <1>1, <1>2, FS_Subset, Zenon
<1> QED
  BY <1>2, <1>3, FS_CardinalityType, Zenon

\* The max_clients check holds whatever the order of the increments, the
\* comparisons and the decrements of concurrent handlers.
LEMMA AdmissionStep ==
  ASSUME Inv, Next
  PROVE  AdmissionSound' /\ active_connections' \in Nat
<1> DEFINE n == active_connections
<1>1. TypeOK /\ n = Cardinality(At(Counted)) /\ Cardinality(At(Admitted)) <= MaxClients
  BY Zenon DEF Inv, AdmissionSound, At
<1>2. /\ Cardinality(At(Counted)) \in Nat /\ Cardinality(At(Admitted)) \in Nat
      /\ Cardinality(At(Admitted)) <= Cardinality(At(Counted)) /\ MaxClients \in Nat
  BY <1>1, AdmittedCounted, ServerAssumption, Zenon
<1>3. SUFFICES /\ n' \in Nat /\ n' = Cardinality(At(Counted)')
               /\ Cardinality(At(Admitted)') <= MaxClients
  BY Zenon DEF AdmissionSound, At
<1>4. ASSUME NEW c \in Conns, Count(c)
      PROVE  /\ n' \in Nat /\ n' = Cardinality(At(Counted)')
             /\ Cardinality(At(Admitted)') <= MaxClients
  <2> DEFINE to == IF n >= MaxClients THEN "full" ELSE "allocate4"
  <2>1. Go(c, "count", to) /\ n' = n + 1
    BY <1>4, Zenon DEF Count
  <2>2. "count" \notin Counted /\ to \in Counted
    BY Zenon DEF Counted, Admitted
  <2>3. Cardinality(At(Counted)') = Cardinality(At(Counted)) + 1
    BY <1>1, <2>1, <2>2, MovesCount, Zenon
  <2>4. CASE n >= MaxClients
    <3>1. "count" \notin Admitted /\ to \notin Admitted
      BY <2>4, Zenon DEF Admitted
    <3>2. Cardinality(At(Admitted)') = Cardinality(At(Admitted))
      BY <1>1, <2>1, <3>1, MovesCount, Zenon
    <3> QED
      BY <1>1, <1>2, <2>1, <2>3, <3>2
  <2>5. CASE ~(n >= MaxClients)
    <3>1. "count" \notin Admitted /\ to \in Admitted
      BY <2>5, Zenon DEF Admitted
    <3>2. Cardinality(At(Admitted)') = Cardinality(At(Admitted)) + 1
      BY <1>1, <2>1, <3>1, MovesCount, Zenon
    <3> QED
      BY <1>1, <1>2, <2>1, <2>3, <2>5, <3>2
  <2> QED
    BY <2>4, <2>5, Zenon
<1>5. ASSUME NEW c \in Conns, RejectFull(c)
      PROVE  /\ n' \in Nat /\ n' = Cardinality(At(Counted)')
             /\ Cardinality(At(Admitted)') <= MaxClients
  <2>1. Go(c, "full", "done") /\ n' = n - 1
    BY <1>5, Zenon DEF RejectFull
  <2>2. /\ "full" \in Counted /\ "done" \notin Counted
        /\ "full" \notin Admitted /\ "done" \notin Admitted
    BY Zenon DEF Counted, Admitted
  <2>3. /\ Cardinality(At(Counted)') = Cardinality(At(Counted)) - 1
        /\ Cardinality(At(Counted)) > 0
        /\ Cardinality(At(Admitted)') = Cardinality(At(Admitted))
    BY <1>1, <2>1, <2>2, MovesCount
  <2> QED
    BY <1>1, <1>2, <2>1, <2>3
<1>6. ASSUME NEW c \in Conns, Leave(c)
      PROVE  /\ n' \in Nat /\ n' = Cardinality(At(Counted)')
             /\ Cardinality(At(Admitted)') <= MaxClients
  <2>1. Go(c, "leave", "done") /\ n' = n - 1
    BY <1>6, Zenon DEF Leave
  <2>2. /\ "leave" \in Counted /\ "done" \notin Counted
        /\ "leave" \in Admitted /\ "done" \notin Admitted
    BY Zenon DEF Counted, Admitted
  <2>3. /\ Cardinality(At(Counted)') = Cardinality(At(Counted)) - 1
        /\ Cardinality(At(Counted)) > 0
        /\ Cardinality(At(Admitted)') = Cardinality(At(Admitted)) - 1
    BY <1>1, <2>1, <2>2, MovesCount
  <2> QED
    BY <1>1, <1>2, <2>1, <2>3
<1>7. ASSUME NEW c \in Conns, NEW from, NEW to, Go(c, from, to), n' = n,
             from \in Counted <=> to \in Counted, from \in Admitted <=> to \in Admitted
      PROVE  /\ n' \in Nat /\ n' = Cardinality(At(Counted)')
             /\ Cardinality(At(Admitted)') <= MaxClients
  <2>1. /\ Cardinality(At(Counted)') = Cardinality(At(Counted))
        /\ Cardinality(At(Admitted)') = Cardinality(At(Admitted))
    <3>1. Cardinality(At(Counted)') = Cardinality(At(Counted))
      BY <1>1, <1>7, MovesCount, Zenon
    <3>2. Cardinality(At(Admitted)') = Cardinality(At(Admitted))
      BY <1>1, <1>7, MovesCount, Zenon
    <3> QED
      BY <3>1, <3>2, Zenon
  <2> QED
    BY <1>1, <1>2, <1>7, <2>1, Zenon
<1>8. ASSUME NEW c \in Conns,
             HandshakeFails(c) \/ \E k \in Keys : Accept(c, k)
      PROVE  /\ n' \in Nat /\ n' = Cardinality(At(Counted)')
             /\ Cardinality(At(Admitted)') <= MaxClients
  <2>1. n' = n /\ (Go(c, "idle", "done") \/ Go(c, "idle", "count"))
    BY <1>8, Zenon DEF HandshakeFails, Accept, counters
  <2>2. {"idle", "done", "count"} \cap (Counted \cup Admitted) = {}
    BY Zenon DEF Counted, Admitted
  <2> QED
    BY <2>1, <2>2, <1>7, Zenon
<1>9. ASSUME NEW c \in Conns,
             \/ SessionEnds(c) \/ Allocate4(c) \/ Allocate6(c) \/ Respond(c)
             \/ RespondFails(c)
             \/ TakeSessionId(c) \/ InsertClient(c) \/ Map4(c) \/ Map6(c)
             \/ RemoveClient(c) \/ Unmap4(c) \/ Unmap6(c) \/ Release4(c) \/ Release6(c)
      PROVE  /\ n' \in Nat /\ n' = Cardinality(At(Counted)')
             /\ Cardinality(At(Admitted)') <= MaxClients
  <2>1. n' = n /\ \E from, to \in Admitted : Go(c, from, to)
    BY <1>9, Zenon
       DEF SessionEnds, Allocate4, Allocate6, Respond, RespondFails,
           TakeSessionId, InsertClient,
                Map4, Map6, RemoveClient, Unmap4, Unmap6, Release4, Release6, counters,
                Admitted
  <2>2. PICK from \in Admitted, to \in Admitted : Go(c, from, to)
    BY <2>1, Zenon
  <2> QED
    BY <2>1, <2>2, <1>7, Zenon DEF Counted
<1>10. CASE Finished
  <2>1. n' = n /\ At(Counted)' = At(Counted) /\ At(Admitted)' = At(Admitted)
    BY <1>10, Zenon DEF Finished, vars, At
  <2> QED
    BY <1>1, <1>2, <2>1, Zenon
<1> QED
  BY <1>4, <1>5, <1>6, <1>8, <1>9, <1>10, Zenon DEF Next, Handler

-----------------------------------------------------------------------------
(* Types. *)

\* A handler that sets one of its locals, other than its key, keeps their types.
LEMMA LocalsKept ==
  ASSUME NEW f \in [Conns -> Locals], NEW g, NEW c \in Conns,
         \/ \E a \in Nat \cup {NoIp} : g = [f EXCEPT ![c].assigned_ip = a]
         \/ \E a \in Nat \cup {NoIp} : g = [f EXCEPT ![c].assigned_ip6 = a]
         \/ \E a \in Nat : g = [f EXCEPT ![c].session_id = a]
         \/ \E a \in Responses : g = [f EXCEPT ![c].response = a]
  PROVE  g \in [Conns -> Locals] /\ \A d \in Conns : g[d].key = f[d].key
<1>1. CASE \E a \in Nat \cup {NoIp} : g = [f EXCEPT ![c].assigned_ip = a]
  BY <1>1 DEF Locals
<1>2. CASE \E a \in Nat \cup {NoIp} : g = [f EXCEPT ![c].assigned_ip6 = a]
  BY <1>2 DEF Locals
<1>3. CASE \E a \in Nat : g = [f EXCEPT ![c].session_id = a]
  BY <1>3 DEF Locals
<1>4. CASE \E a \in Responses : g = [f EXCEPT ![c].response = a]
  BY <1>4 DEF Locals
<1> QED
  BY <1>1, <1>2, <1>3, <1>4, Zenon

\* What the pools hold is what allocate returned, so every handler's addresses,
\* every registration and every routing entry keep their types.
LEMMA TypeStep ==
  ASSUME Inv, Next, PoolInv(ip_pool'), PoolInv(ip6_pool'), active_connections' \in Nat
  PROVE  TypeOK'
<1> USE DEF Counted, Admitted, Steps, Locals, Responses, ClientState
<1>1. TypeOK /\ ip_pool' \in PoolType /\ ip6_pool' \in PoolType
  BY Zenon DEF Inv, PoolInv
<1>2. ASSUME NEW c \in Conns, NEW from, NEW to \in Steps, Go(c, from, to)
      PROVE  /\ pc' \in [Conns -> Steps] /\ pc[c] = from /\ pc'[c] = to
             /\ \A d \in Conns : d # c => pc'[d] = pc[d]
  BY <1>1, <1>2, Zenon DEF TypeOK, Go
<1>3. ASSUME NEW c \in Conns, Allocate4(c)
      PROVE  TypeOK'
  <2>1. ip_pool'.in_use[h[c].key] \in Nat \cup {NoIp}
    BY <1>1, <1>3, Zenon DEF PoolType, TypeOK, Allocate4, Go
  <2> DEFINE ip == ip_pool'.in_use[h[c].key]
  <2>2. h' = [h EXCEPT ![c].assigned_ip = ip]
    BY <1>3, Zenon DEF Allocate4
  <2> HIDE DEF ip
  <2>3. h' \in [Conns -> Locals] /\ \A d \in Conns : h'[d].key = h[d].key
    <3> HIDE DEF Counted, Admitted, Steps, Locals, Responses, ClientState
    <3>1. h \in [Conns -> Locals]
      BY <1>1, Zenon DEF TypeOK
    <3>2. \E a \in Nat \cup {NoIp} : h' = [h EXCEPT ![c].assigned_ip = a]
      BY <2>1, <2>2, Zenon DEF ip
    <3> QED
      BY ONLY <3>1, <3>2, c \in Conns, LocalsKept
  <2>4. pc' \in [Conns -> Steps] /\ \A d \in Conns : pc'[d] \in Counted \cup {"count"} =>
                                                    pc[d] \in Counted \cup {"count"}
    BY <1>1, <1>3, Zenon DEF Allocate4, Go, TypeOK
  <2> QED
    BY <1>1, <1>3, <2>3, <2>4, Zenon DEF TypeOK, Allocate4, maps, counters
<1>4. ASSUME NEW c \in Conns, Allocate6(c)
      PROVE  TypeOK'
  <2>1. ip6_pool'.in_use[h[c].key] \in Nat \cup {NoIp}
    BY <1>1, <1>4, Zenon DEF PoolType, TypeOK, Allocate6, Go
  <2> DEFINE ip == ip6_pool'.in_use[h[c].key]
  <2>2. h' = [h EXCEPT ![c].assigned_ip6 = ip]
    BY <1>4, Zenon DEF Allocate6
  <2> HIDE DEF ip
  <2>3. h' \in [Conns -> Locals] /\ \A d \in Conns : h'[d].key = h[d].key
    <3> HIDE DEF Counted, Admitted, Steps, Locals, Responses, ClientState
    <3>1. h \in [Conns -> Locals]
      BY <1>1, Zenon DEF TypeOK
    <3>2. \E a \in Nat \cup {NoIp} : h' = [h EXCEPT ![c].assigned_ip6 = a]
      BY <2>1, <2>2, Zenon DEF ip
    <3> QED
      BY ONLY <3>1, <3>2, c \in Conns, LocalsKept
  <2>4. pc' \in [Conns -> Steps] /\ \A d \in Conns : pc'[d] \in Counted \cup {"count"} =>
                                                    pc[d] \in Counted \cup {"count"}
    BY <1>1, <1>4, Zenon DEF Allocate6, Go, TypeOK
  <2> QED
    BY <1>1, <1>4, <2>3, <2>4, Zenon DEF TypeOK, Allocate6, maps, counters
<1>5. ASSUME NEW c \in Conns, NEW k \in Keys, Accept(c, k)
      PROVE  TypeOK'
  <2>1. h' \in [Conns -> Locals] /\ \A d \in Conns : d # c => h'[d].key = h[d].key
    BY <1>1, <1>5 DEF TypeOK, Accept
  <2>2. h'[c].key \in Keys
    BY <1>1, <1>5, Zenon DEF TypeOK, Accept
  <2>3. /\ pc' = [pc EXCEPT ![c] = "count"]
        /\ UNCHANGED <<maps, next_session_id>>
    BY <1>5, Zenon DEF Accept, Go, counters
  <2> QED
    BY <1>1, <2>1, <2>2, <2>3, Zenon DEF TypeOK, maps
<1>6. ASSUME NEW c \in Conns, HandshakeFails(c) \/ RejectFull(c)
      PROVE  TypeOK'
  <2>1. pc' = [pc EXCEPT ![c] = "done"] /\ UNCHANGED <<maps, next_session_id, h>>
    BY <1>6, Zenon DEF HandshakeFails, RejectFull, Go, counters
  <2> QED
    BY <1>1, <2>1, Zenon DEF TypeOK, maps
<1>7. ASSUME NEW c \in Conns, Count(c) \/ SessionEnds(c)
      PROVE  TypeOK'
  BY <1>1, <1>7, Zenon DEF TypeOK, Count, SessionEnds, Go, maps, counters
<1>7a. ASSUME NEW c \in Conns, Leave(c)
       PROVE  TypeOK'
  <2>1. h' \in [Conns -> Locals] /\ \A d \in Conns : h'[d].key = h[d].key
    BY <1>1, <1>7a, Zenon DEF TypeOK, Leave
  <2>2. pc' = [pc EXCEPT ![c] = "done"] /\ UNCHANGED <<maps, next_session_id>>
    BY <1>7a, Zenon DEF Leave, Go
  <2> QED
    BY <1>1, <2>1, <2>2, Zenon DEF TypeOK, maps
<1>8. ASSUME NEW c \in Conns, Respond(c) \/ RespondFails(c)
      PROVE  TypeOK'
  <2>1. PICK r \in Responses : h' = [h EXCEPT ![c].response = r]
    BY <1>8, Zenon DEF Respond, RespondFails
  <2>2. h' \in [Conns -> Locals] /\ \A d \in Conns : h'[d].key = h[d].key
    <3> HIDE DEF Counted, Admitted, Steps, Locals, Responses, ClientState
    <3>1. h \in [Conns -> Locals]
      BY <1>1, Zenon DEF TypeOK
    <3>2. \E a \in Responses : h' = [h EXCEPT ![c].response = a]
      BY <2>1, Zenon
    <3> QED
      BY ONLY <3>1, <3>2, c \in Conns, LocalsKept
  <2>3. PICK to \in {"take_id", "leave"} : pc' = [pc EXCEPT ![c] = to]
    BY <1>8, Zenon DEF Respond, RespondFails, Go
  <2>4. pc[c] = "respond" /\ UNCHANGED <<maps, counters>>
    BY <1>8, Zenon DEF Respond, RespondFails, Go
  <2> QED
    BY <1>1, <2>2, <2>3, <2>4, Zenon DEF TypeOK, maps, counters
<1>8a. ASSUME NEW c \in Conns, TakeSessionId(c)
       PROVE  TypeOK'
  <2>1. h' \in [Conns -> Locals] /\ \A d \in Conns : h'[d].key = h[d].key
    <3> HIDE DEF Counted, Admitted, Steps, Locals, Responses, ClientState
    <3>1. h \in [Conns -> Locals] /\ next_session_id \in Nat
      BY <1>1, Zenon DEF TypeOK
    <3>2. \E a \in Nat : h' = [h EXCEPT ![c].session_id = a]
      BY <1>8a, <3>1, Zenon DEF TakeSessionId
    <3> QED
      BY ONLY <3>1, <3>2, c \in Conns, LocalsKept
  <2>2. next_session_id' \in Nat
    BY <1>1, <1>8a DEF TypeOK, TakeSessionId
  <2>3. /\ pc' = [pc EXCEPT ![c] = "insert"] /\ pc[c] = "take_id"
        /\ UNCHANGED maps
    BY <1>8a, Zenon DEF TakeSessionId, Go
  <2> QED
    BY <1>1, <2>1, <2>2, <2>3, Zenon DEF TypeOK, maps
<1>9. ASSUME NEW c \in Conns, InsertClient(c)
      PROVE  TypeOK'
  BY <1>1, <1>9 DEF TypeOK, InsertClient, Go, counters, pools
<1>10. ASSUME NEW c \in Conns, Map4(c) \/ Map6(c)
       PROVE  TypeOK'
  <2>1. CASE Map4(c)
    BY <1>1, <2>1, Zenon DEF TypeOK, Map4, SetEntry, Go, counters
  <2>2. CASE Map6(c)
    BY <1>1, <2>2, Zenon DEF TypeOK, Map6, SetEntry, Go, counters
  <2> QED
    BY <1>10, <2>1, <2>2, Zenon
<1>11. ASSUME NEW c \in Conns, RemoveClient(c)
       PROVE  TypeOK'
  BY <1>1, <1>11, Zenon DEF TypeOK, RemoveClient, Go, counters
<1>12. ASSUME NEW c \in Conns, Unmap4(c) \/ Unmap6(c)
       PROVE  TypeOK'
  <2>1. CASE Unmap4(c)
    BY <1>1, <2>1, Zenon DEF TypeOK, Unmap4, DropEntry, Go, counters
  <2>2. CASE Unmap6(c)
    BY <1>1, <2>2, Zenon DEF TypeOK, Unmap6, DropEntry, Go, counters
  <2> QED
    BY <1>12, <2>1, <2>2, Zenon
<1>13. ASSUME NEW c \in Conns, Release4(c) \/ Release6(c)
       PROVE  TypeOK'
  BY <1>1, <1>13, Zenon DEF TypeOK, Release4, Release6, Go, maps, counters
<1>14. CASE Finished
  BY <1>1, <1>14, Zenon DEF Finished, TypeOK, vars
<1>15. ASSUME NEW c \in Conns, Handler(c)
       PROVE  TypeOK'
  <2> HIDE DEF Counted, Admitted, Steps, Locals, Responses, ClientState
  <2> QED
    BY ONLY Handler(c), c \in Conns, <1>3, <1>4, <1>6, <1>7, <1>7a, <1>8, <1>8a, <1>9, <1>10,
            <1>11,
            <1>12, <1>13, <1>15, Zenon
       DEF Handler
<1> HIDE DEF Counted, Admitted, Steps, Locals, Responses, ClientState
<1> QED
  BY ONLY Next, <1>5, <1>6, <1>7, <1>14, <1>15, Zenon DEF Next

-----------------------------------------------------------------------------

\* Inv holds initially.
LEMMA InvInit ==
  Init => Inv
<1> SUFFICES ASSUME Init PROVE Inv
  BY Zenon
<1>1. PoolInv(ip_pool) /\ PoolInv(ip6_pool)
  BY NewPoolInv, ServerAssumption, Zenon DEF Init, Strategies
<1>2. TypeOK
  BY <1>1, Zenon DEF Init, TypeOK, PoolInv, Steps, Counted, Admitted, Locals, Responses
<1>3. AdmissionSound
  <2>1. /\ {c \in Conns : pc[c] \in Counted} = {}
        /\ {c \in Conns : pc[c] \in Admitted} = {}
    BY Zenon DEF Init, Counted, Admitted
  <2>2. 0 <= MaxClients /\ active_connections = 0
    BY ServerAssumption DEF Init
  <2> QED
    BY <2>1, <2>2, FS_EmptySet, Zenon DEF AdmissionSound
<1> QED
  BY <1>1, <1>2, <1>3, Zenon DEF Inv

\* Every step keeps Inv.
LEMMA InvNext ==
  Inv /\ [Next]_vars => Inv'
<1> SUFFICES ASSUME Inv, [Next]_vars PROVE Inv'
  BY Zenon
<1>1. CASE Next
  <2>1. PoolInv(ip_pool') /\ PoolInv(ip6_pool')
    BY <1>1, PoolSteps, PoolStepInv, Zenon DEF Inv
  <2>2. AdmissionSound' /\ active_connections' \in Nat
    BY <1>1, AdmissionStep, Zenon
  <2>3. TypeOK'
    BY <1>1, <2>1, <2>2, TypeStep, Zenon
  <2> QED
    BY <2>1, <2>2, <2>3, Zenon DEF Inv
<1>2. CASE UNCHANGED vars
  BY <1>2, Zenon DEF Inv, vars, TypeOK, AdmissionSound
<1> QED
  BY <1>1, <1>2, Zenon

\* Inv holds in every reachable state, whatever the handlers interleave.
THEOREM Invariance ==
  Spec => []Inv
<1> QED
  BY InvInit, InvNext, PTL DEF Spec

\* The state of the server is always well typed; in particular the counter of
\* active connections never wraps below zero.
THEOREM TypeCorrect ==
  Spec => []TypeOK
<1>1. Inv => TypeOK
  BY Zenon DEF Inv
<1> QED
  BY <1>1, Invariance, PTL

\* However the handlers interleave, no pool ever holds an address twice, offers
\* one that is held, hands out the network's or the server's, or loses one.
THEOREM PoolsAlwaysSound ==
  Spec => []PoolsSound
<1>1. Inv => PoolsSound
  BY Zenon DEF Inv, PoolInv, PoolsSound
<1> QED
  BY <1>1, Invariance, PTL

\* At most max_clients handlers are ever past the check, for any max_clients and
\* any number of concurrent connections.
THEOREM AdmissionAlwaysSound ==
  Spec => []AdmissionSound
<1>1. Inv => AdmissionSound
  BY Zenon DEF Inv
<1> QED
  BY <1>1, Invariance, PTL

-----------------------------------------------------------------------------
(* The pools implement AddressLeases. *)

\* The pools keep the configuration they were created with.
PoolsConfigured ==
  /\ PoolOf(ip_pool, "sequential", Size4, Server4)
  /\ PoolOf(ip6_pool, Strategy6, Size6, Server6)

\* PoolsConfigured holds initially and every step keeps it.
LEMMA ConfigStays ==
  /\ Init => PoolsConfigured
  /\ Inv /\ PoolsConfigured /\ [Next]_vars => PoolsConfigured'
<1>1. Init => PoolsConfigured
  BY DEF Init, PoolsConfigured, PoolOf, NewPool
<1>2. ASSUME NEW p, NEW q, PoolInv(p), PoolStep(p, q),
             NEW s, NEW n, NEW v, PoolOf(p, s, n, v)
      PROVE  PoolOf(q, s, n, v)
  BY <1>2, StepKeepsConfig, Zenon DEF PoolStep
<1>3. ASSUME Inv, PoolsConfigured, Next
      PROVE  PoolsConfigured'
  BY <1>2, <1>3, PoolSteps, Zenon DEF Inv, PoolsConfigured
<1>4. ASSUME PoolsConfigured, UNCHANGED vars
      PROVE  PoolsConfigured'
  BY <1>4, Zenon DEF PoolsConfigured, vars
<1> QED
  BY <1>1, <1>3, <1>4, Zenon

\* The tenant of an address is the one key that holds it, if there is one.
LEMMA TenantHolds ==
  ASSUME NEW p, PoolInv(p), NEW A \in SUBSET Nat, NEW a \in A
  PROVE  /\ \A k \in Keys : TenantOf(p, A)[a] = k <=> p.in_use[k] = a
         /\ TenantOf(p, A)[a] = NoKey <=> \A k \in Keys : p.in_use[k] # a
         /\ TenantOf(p, A)[a] \in Keys \cup {NoKey}
<1> DEFINE T == TenantOf(p, A)[a]
<1>1. T = IF \E k \in Keys : p.in_use[k] = a
          THEN CHOOSE k \in Keys : p.in_use[k] = a ELSE NoKey
  BY Zenon DEF TenantOf
<1>2. \A k, l \in Keys : p.in_use[k] = a /\ p.in_use[l] = a => k = l
  <2>1. a # NoIp
    BY NoIpAssumption
  <2> QED
    BY <2>1, Zenon DEF PoolInv, PoolSound, Exclusive
<1> HIDE DEF T
<1>3. CASE \E k \in Keys : p.in_use[k] = a
  <2>1. T \in Keys /\ p.in_use[T] = a
    BY <1>1, <1>3, Zenon
  <2> QED
    BY <1>2, <1>3, <2>1, ServerAssumption, Zenon DEF T
<1>4. CASE ~\E k \in Keys : p.in_use[k] = a
  <2>1. T = NoKey
    BY <1>1, <1>4, Zenon
  <2> QED
    BY <1>4, <2>1, ServerAssumption, Zenon DEF T
<1> QED
  BY <1>3, <1>4, Zenon

\* The tenancies T become U by granting one free address of A that is for clients
\* to a tenant without one, by revoking one, or not at all.
LeaseStepOf(T, U, A, v) ==
  \/ U = T
  \/ \E a \in A : T[a] # NoKey /\ U = [T EXCEPT ![a] = NoKey]
  \/ \E a \in A : \E k \in Keys : /\ T[a] = NoKey /\ a \notin {0, v}
                                  /\ \A b \in A : T[b] # k
                                  /\ U = [T EXCEPT ![a] = k]

\* A step of a pool is a step of AddressLeases (allocate grants, release revokes).
LEMMA LeaseStep ==
  ASSUME NEW p, NEW q, PoolInv(p), PoolInv(q), PoolStep(p, q),
         NEW s, NEW n \in Nat, NEW v \in Nat, PoolOf(p, s, n, v), PoolOf(q, s, n, v)
  PROVE  LeaseStepOf(TenantOf(p, 0..(n - 1)), TenantOf(q, 0..(n - 1)), 0..(n - 1), v)
<1> USE NoIpAssumption
<1> DEFINE A == 0..(n - 1)
           T == TenantOf(p, A)
           U == TenantOf(q, A)
<1>0. SUFFICES LeaseStepOf(T, U, A, v)
  BY Zenon
<1>1. A \in SUBSET Nat /\ \A d \in Nat : d # NoIp
  OBVIOUS
<1>2. /\ T = [a \in A |-> T[a]] /\ U = [a \in A |-> U[a]]
      /\ p.in_use \in [Keys -> Nat \cup {NoIp}]
  BY Zenon DEF TenantOf, PoolInv, PoolType
<1>3. \A a \in A : /\ \A k \in Keys : T[a] = k <=> p.in_use[k] = a
                   /\ T[a] = NoKey <=> \A k \in Keys : p.in_use[k] # a
                   /\ T[a] \in Keys \cup {NoKey}
  BY <1>1, TenantHolds, Zenon
<1>4. \A a \in A : /\ \A k \in Keys : U[a] = k <=> q.in_use[k] = a
                   /\ U[a] = NoKey <=> \A k \in Keys : q.in_use[k] # a
                   /\ U[a] \in Keys \cup {NoKey}
  BY <1>1, TenantHolds, Zenon
<1>5. ASSUME q.in_use = p.in_use
      PROVE  LeaseStepOf(T, U, A, v)
  BY <1>5, Zenon DEF TenantOf, LeaseStepOf
<1>6. \A k \in Keys : /\ p.in_use[k] # NoIp => p.in_use[k] \in A \ {0, v}
                      /\ q.in_use[k] # NoIp => q.in_use[k] \in A \ {0, v}
  BY HeldInNetwork, Zenon
<1> HIDE DEF A, T, U
<1>7. ASSUME NEW k \in Keys, NEW a \in Nat, p.in_use[k] = NoIp,
             \A l \in Keys : p.in_use[l] # a, q.in_use = [p.in_use EXCEPT ![k] = a]
      PROVE  LeaseStepOf(T, U, A, v)
  <2>1. q.in_use[k] = a /\ \A l \in Keys : l # k => q.in_use[l] = p.in_use[l]
    BY <1>2, <1>7, Zenon
  <2>2. a \in A \ {0, v}
    BY <1>1, <1>6, <2>1, Zenon
  <2>3. T[a] = NoKey /\ \A d \in A : T[d] # k
    <3>1. \A l \in Keys : p.in_use[l] # a
      BY <1>7, Zenon
    <3>2. T[a] = NoKey
      BY <1>3, <2>2, <3>1, Zenon
    <3>3. ASSUME NEW d \in A PROVE T[d] # k
      <4>1. T[d] = k <=> p.in_use[k] = d
        BY <1>3, Zenon
      <4>2. p.in_use[k] # d
        <5>1. p.in_use[k] = NoIp
          BY <1>7, Zenon
        <5>2. d # NoIp
          BY <1>1, Zenon
        <5> QED
          BY <5>1, <5>2, Zenon
      <4> QED
        BY <4>1, <4>2, Zenon
    <3> QED
      BY <3>2, <3>3, Zenon
  <2>4. ASSUME NEW d \in A PROVE U[d] = IF d = a THEN k ELSE T[d]
    <3>1. CASE d = a
      BY <1>4, <2>1, <3>1
    <3>2. CASE d # a /\ U[d] = NoKey
      <4>1. \A l \in Keys : p.in_use[l] # d
        BY <1>1, <1>4, <1>7, <2>1, <3>2
      <4> QED
        BY <1>3, <3>2, <4>1, Zenon
    <3>3. CASE d # a /\ U[d] \in Keys
      <4>1. q.in_use[U[d]] = d
        BY <1>4, <3>3, Zenon
      <4>2. U[d] # k
        BY <2>1, <3>3, <4>1, Zenon
      <4>3. p.in_use[U[d]] = d
        BY <2>1, <3>3, <4>1, <4>2
      <4> QED
        BY <1>3, <3>3, <4>3, Zenon
    <3> QED
      BY <1>4, <3>1, <3>2, <3>3, Zenon
  <2>5. U = [T EXCEPT ![a] = k]
    BY <1>2, <2>4, Zenon
  <2> QED
    BY <2>2, <2>3, <2>5, Zenon DEF LeaseStepOf
<1>8. ASSUME NEW k \in Keys, p.in_use[k] # NoIp, q.in_use = [p.in_use EXCEPT ![k] = NoIp]
      PROVE  LeaseStepOf(T, U, A, v)
  <2> DEFINE a == p.in_use[k]
  <2>a. a = p.in_use[k] /\ a # NoIp
    BY <1>8, Zenon
  <2> HIDE DEF a
  <2>1. q.in_use[k] = NoIp /\ \A l \in Keys : l # k => q.in_use[l] = p.in_use[l]
    BY <1>2, <1>8, Zenon
  <2>2. a \in A /\ T[a] = k
    BY <1>3, <1>6, <2>a, Zenon
  <2>3. T[a] # NoKey
    BY <2>2, ServerAssumption, Zenon
  <2>4. ASSUME NEW d \in A PROVE U[d] = IF d = a THEN NoKey ELSE T[d]
    <3>1. CASE d = a
      <4>1. ASSUME NEW l \in Keys PROVE q.in_use[l] # a
        <5>1. CASE l = k
          BY <2>1, <2>a, <5>1, Zenon
        <5>2. CASE l # k
          <6>1. T[a] = l <=> p.in_use[l] = a
            BY <1>3, <2>2, Zenon
          <6> QED
            BY <2>1, <2>2, <5>2, <6>1, Zenon
        <5> QED
          BY <5>1, <5>2, Zenon
      <4> QED
        BY <1>4, <2>2, <3>1, <4>1, Zenon
    <3>2. CASE d # a /\ U[d] = NoKey
      <4>1. \A l \in Keys : p.in_use[l] # d
        BY <1>4, <2>1, <2>a, <3>2
      <4> QED
        BY <1>3, <3>2, <4>1, Zenon
    <3>3. CASE d # a /\ U[d] \in Keys
      <4>1. q.in_use[U[d]] = d /\ d # NoIp
        BY <1>1, <1>4, <3>3, Zenon
      <4>2. U[d] # k
        BY <2>1, <4>1, Zenon
      <4>3. p.in_use[U[d]] = d
        BY <2>1, <3>3, <4>1, <4>2, Zenon
      <4> QED
        BY <1>3, <3>3, <4>3, Zenon
    <3> QED
      BY <1>4, <3>1, <3>2, <3>3, Zenon
  <2>5. U = [T EXCEPT ![a] = NoKey]
    BY <1>2, <2>4, Zenon
  <2> QED
    BY <2>2, <2>3, <2>5, Zenon DEF LeaseStepOf
<1>9. CASE \E k \in Keys : q = Allocate(p, k)
  <2>1. PICK k \in Keys : q = Allocate(p, k)
    BY <1>9, Zenon
  <2>2. CASE q = p
    BY <1>5, <2>2, Zenon
  <2>3. CASE q # p
    <3>a. \E a \in Nat : /\ q.in_use = [p.in_use EXCEPT ![k] = a]
                         /\ \A l \in Keys : p.in_use[l] # a
                         /\ p.strategy = "node_id" => a < p.size
      BY <2>1, <2>3, AllocateGrants, Zenon
    <3>1. PICK a \in Nat : /\ q.in_use = [p.in_use EXCEPT ![k] = a]
                           /\ \A l \in Keys : p.in_use[l] # a
      BY <3>a, Zenon
    <3>2. p.in_use[k] = NoIp
      BY <2>1, <2>3, AllocateGrants, Zenon
    <3> QED
      BY <1>7, <3>1, <3>2, Zenon
  <2> QED
    BY <2>2, <2>3, Zenon
<1>10. CASE \E k \in Keys : q = Release(p, k)
  <2>1. PICK k \in Keys : q = Release(p, k)
    BY <1>10, Zenon
  <2>2. q.in_use = [p.in_use EXCEPT ![k] = NoIp]
    BY <2>1, ReleaseRevokes, Zenon
  <2>3. CASE p.in_use[k] = NoIp
    <3>1. q.in_use = p.in_use
      BY <1>2, <2>2, <2>3, Zenon
    <3> QED
      BY <1>5, <3>1, Zenon
  <2>4. CASE p.in_use[k] # NoIp
    BY <1>8, <2>2, <2>4, Zenon
  <2> QED
    BY <2>3, <2>4, Zenon
<1> QED
  BY <1>5, <1>9, <1>10, Zenon DEF PoolStep

\* Driven by any number of concurrent handlers, overlapping or not, each pool
\* implements AddressLeases (IpPool and Ip6Pool behind their locks).
THEOREM LeasesImplemented ==
  Spec => ImplementsLeases
<1>1. Init => Leases4!LeaseInit /\ Leases6!LeaseInit
  BY NoIpAssumption DEF Init, Leases4!LeaseInit, Leases6!LeaseInit, TenantOf, NewPool,
                        Addr4, Addr6
<1>2. ASSUME Inv, PoolsConfigured, Inv', PoolsConfigured', Next
      PROVE  /\ Leases4!LeaseNext \/ UNCHANGED TenantOf(ip_pool, Addr4)
             /\ Leases6!LeaseNext \/ UNCHANGED TenantOf(ip6_pool, Addr6)
  <2>1. Leases4!LeaseNext \/ UNCHANGED TenantOf(ip_pool, Addr4)
    <3>1. PoolInv(ip_pool) /\ PoolInv(ip_pool') /\ PoolStep(ip_pool, ip_pool')
      BY <1>2, PoolSteps, Zenon DEF Inv
    <3>2. /\ PoolOf(ip_pool, "sequential", Size4, Server4)
          /\ PoolOf(ip_pool', "sequential", Size4, Server4)
      BY <1>2, Zenon DEF PoolsConfigured
    <3>3. Size4 \in Nat /\ Server4 \in Nat
      BY ServerAssumption, Zenon
    <3>4. LeaseStepOf(TenantOf(ip_pool, Addr4), TenantOf(ip_pool', Addr4), Addr4, Server4)
      BY <3>1, <3>2, <3>3, LeaseStep, Zenon DEF Addr4
    <3> QED
      BY <3>4, Zenon DEF Leases4!LeaseNext, Leases4!Revoke, Leases4!Grant, LeaseStepOf
  <2>2. Leases6!LeaseNext \/ UNCHANGED TenantOf(ip6_pool, Addr6)
    <3>1. PoolInv(ip6_pool) /\ PoolInv(ip6_pool') /\ PoolStep(ip6_pool, ip6_pool')
      BY <1>2, PoolSteps, Zenon DEF Inv
    <3>2. /\ PoolOf(ip6_pool, Strategy6, Size6, Server6)
          /\ PoolOf(ip6_pool', Strategy6, Size6, Server6)
      BY <1>2, Zenon DEF PoolsConfigured
    <3>3. Size6 \in Nat /\ Server6 \in Nat
      BY ServerAssumption, Zenon
    <3>4. LeaseStepOf(TenantOf(ip6_pool, Addr6), TenantOf(ip6_pool', Addr6), Addr6, Server6)
      BY <3>1, <3>2, <3>3, LeaseStep, Zenon DEF Addr6
    <3> QED
      BY <3>4, Zenon DEF Leases6!LeaseNext, Leases6!Revoke, Leases6!Grant, LeaseStepOf
  <2> QED
    BY <2>1, <2>2, Zenon
<1>3. UNCHANGED vars => UNCHANGED <<TenantOf(ip_pool, Addr4), TenantOf(ip6_pool, Addr6)>>
  BY Zenon DEF vars, TenantOf
<1>4. Inv /\ PoolsConfigured /\ Inv' /\ PoolsConfigured' /\ [Next]_vars =>
        /\ [Leases4!LeaseNext]_(TenantOf(ip_pool, Addr4))
        /\ [Leases6!LeaseNext]_(TenantOf(ip6_pool, Addr6))
  BY <1>2, <1>3, Zenon
<1>5. Spec => [](Inv /\ PoolsConfigured)
  BY InvInit, InvNext, ConfigStays, PTL DEF Spec
<1> QED
  BY <1>1, <1>4, <1>5, PTL DEF Spec, ImplementsLeases, Leases4!LeaseSpec, Leases6!LeaseSpec

-----------------------------------------------------------------------------
(* Without overlapping reconnects. *)

\* The steps at which a handler's addresses are those of its key in the pools.
Has4 == {"allocate6", "respond", "take_id", "insert", "map4", "map6", "live", "remove",
         "unmap4", "unmap6", "release4"}
Has6 == {"respond", "take_id", "insert", "map4", "map6", "live", "remove", "unmap4",
         "unmap6", "release4", "release6"}

\* The steps at which its key is registered, and at which its addresses are in
\* the reverse maps.
Up == {"map4", "map6", "live", "remove"}
Routed4 == {"map6", "live", "remove", "unmap4"}
Routed6 == {"live", "remove", "unmap4", "unmap6"}

\* A key has one handler at a time; one that has read no handshake has no key.
Alone ==
  /\ \A c \in Conns : pc[c] = "idle" => h[c].key = NoKey
  /\ \A c, d \in Conns : h[c].key = h[d].key /\ h[c].key \in Keys =>
                           pc[c] = "done" \/ pc[d] = "done" \/ c = d

\* What the shared state says of handler c at its step.
HandlerOK(c) ==
  /\ pc[c] \in Has4 => h[c].assigned_ip = ip_pool.in_use[h[c].key]
  /\ pc[c] = "release6" => ip_pool.in_use[h[c].key] = NoIp
  /\ pc[c] \in Has6 => h[c].assigned_ip6 = ip6_pool.in_use[h[c].key]
  /\ pc[c] \in Up => clients[h[c].key] = [session_id |-> h[c].session_id,
                                          assigned_ip |-> h[c].assigned_ip,
                                          assigned_ip6 |-> h[c].assigned_ip6]
  /\ pc[c] \in Routed4 /\ h[c].assigned_ip # NoIp =>
       ip_to_endpoint[h[c].assigned_ip] = h[c].key
  /\ pc[c] \in Routed6 /\ h[c].assigned_ip6 # NoIp =>
       ip6_to_endpoint[h[c].assigned_ip6] = h[c].key

\* Some handler will release what key k holds, or could not answer its client.
Kept(k) == \E c \in Conns : /\ h[c].key = k
                            /\ pc[c] \in Holding \/ h[c].response = "write_failed"

\* Nothing is held by, or registered under, a key without a handler for it.
KeyOK(k) ==
  /\ ip_pool.in_use[k] # NoIp \/ ip6_pool.in_use[k] # NoIp => Kept(k)
  /\ clients[k] # NoSession => \E c \in Conns : h[c].key = k /\ pc[c] \in Up

\* No routing entry is without a handler that will remove it.
EntriesOK ==
  /\ \A a \in Addr4 : ip_to_endpoint[a] # NoKey =>
       \E c \in Conns : /\ pc[c] \in Routed4 /\ h[c].key = ip_to_endpoint[a]
                        /\ h[c].assigned_ip = a
  /\ \A a \in Addr6 : ip6_to_endpoint[a] # NoKey =>
       \E c \in Conns : /\ pc[c] \in Routed6 /\ h[c].key = ip6_to_endpoint[a]
                        /\ h[c].assigned_ip6 = a

SoloInv ==
  /\ Alone
  /\ \A c \in Conns : HandlerOK(c)
  /\ \A k \in Keys : KeyOK(k)
  /\ EntriesOK

-----------------------------------------------------------------------------
(* What a step of one handler leaves alone. *)

\* A step of connection c.
StepOf(c) == \/ HandshakeFails(c) \/ SessionEnds(c) \/ Handler(c)
             \/ \E k \in Keys : Accept(c, k)

\* A handler changes its own locals, what is held by and registered under its own
\* key, and nothing else of other handlers' or keys'.
LEMMA Frame ==
  ASSUME Inv, NEW c \in Conns, StepOf(c)
  PROVE  /\ \A d \in Conns : d # c => pc'[d] = pc[d] /\ h'[d] = h[d]
         /\ pc[c] # "done" /\ pc'[c] # "idle"
         /\ pc[c] # "idle" => h'[c].key = h[c].key
         /\ \A k \in Keys : k # h[c].key => /\ ip_pool'.in_use[k] = ip_pool.in_use[k]
                                            /\ ip6_pool'.in_use[k] = ip6_pool.in_use[k]
                                            /\ clients'[k] = clients[k]
<1>1. TypeOK /\ PoolInv(ip_pool) /\ PoolInv(ip6_pool)
  BY Zenon DEF Inv
<1>2. /\ pc \in [Conns -> Steps] /\ h \in [Conns -> Locals]
      /\ clients \in [Keys -> ClientState \cup {NoSession}]
      /\ ip_pool.in_use \in [Keys -> Nat \cup {NoIp}]
      /\ ip6_pool.in_use \in [Keys -> Nat \cup {NoIp}]
      /\ pc[c] \in Counted => h[c].key \in Keys
  BY <1>1, Zenon DEF TypeOK, PoolInv, PoolType
<1>3. /\ \A d \in Conns : d # c => pc'[d] = pc[d]
      /\ pc[c] # "done" /\ pc'[c] # "idle"
  BY <1>2, Zenon
     DEF StepOf, HandshakeFails, SessionEnds, Handler, Accept, Count, RejectFull,
              Allocate4, Allocate6, Respond, RespondFails,
              TakeSessionId, InsertClient, Map4,
              Map6, RemoveClient, Unmap4, Unmap6, Release4, Release6, Leave, Go
<1>4. /\ \A d \in Conns : d # c => h'[d] = h[d]
      /\ pc[c] # "idle" => h'[c].key = h[c].key
  <2>1. CASE h' = h
    BY <2>1, Zenon
  <2>2. CASE \E k \in Keys : Accept(c, k)
    BY <1>2, <2>2, Zenon DEF Accept, Go
  <2>3. CASE \/ Allocate4(c) \/ Allocate6(c) \/ Respond(c) \/ RespondFails(c)
             \/ TakeSessionId(c) \/ InsertClient(c) \/ Leave(c)
    BY <1>2, <2>3
       DEF Allocate4, Allocate6, Respond, RespondFails,
           TakeSessionId, InsertClient, Leave, Locals
  <2> QED
    BY <2>1, <2>2, <2>3, Zenon
       DEF StepOf, HandshakeFails, SessionEnds, Handler, Count, RejectFull,
              Map4, Map6, RemoveClient, Unmap4, Unmap6, Release4, Release6
<1>5. \A k \in Keys : k # h[c].key => clients'[k] = clients[k]
  <2>1. CASE clients' = clients
    BY <2>1, Zenon
  <2>2. CASE InsertClient(c) \/ RemoveClient(c)
    BY <1>2, <2>2, Zenon DEF InsertClient, RemoveClient
  <2> QED
    BY <2>1, <2>2, Zenon
       DEF StepOf, HandshakeFails, SessionEnds, Handler, Accept, Count, RejectFull,
              Allocate4, Allocate6, Respond, RespondFails, TakeSessionId, Map4, Map6,
              Unmap4, Unmap6, Release4, Release6, Leave, maps
<1>6. ASSUME NEW p, PoolInv(p), NEW l \in Keys, NEW q \in {Allocate(p, l), Release(p, l)},
             NEW k \in Keys, k # l
      PROVE  q.in_use[k] = p.in_use[k]
  <2>1. p.in_use \in [Keys -> Nat \cup {NoIp}]
    BY <1>6, Zenon DEF PoolInv, PoolType
  <2>2. CASE q = Allocate(p, l)
    <3>1. \/ Allocate(p, l) = p
          \/ \E a \in Nat : Allocate(p, l).in_use = [p.in_use EXCEPT ![l] = a]
      <4>1. PoolInv(p) /\ l \in Keys
        BY <1>6, Zenon
      <4>2. \/ Allocate(p, l) = p
            \/ \E a \in Nat : /\ Allocate(p, l).in_use = [p.in_use EXCEPT ![l] = a]
                              /\ \A k1 \in Keys : p.in_use[k1] # a
                              /\ p.strategy = "node_id" => a < p.size
        BY <4>1, AllocateGrants, Zenon
      <4> QED
        BY <4>2, Zenon
    <3> QED
      BY <1>6, <2>1, <2>2, <3>1, Zenon
  <2>3. CASE q = Release(p, l)
    <3>1. q.in_use = [p.in_use EXCEPT ![l] = NoIp]
      BY <1>6, <2>3, ReleaseRevokes, Zenon
    <3> QED
      BY <1>6, <2>1, <3>1, Zenon
  <2> QED
    BY <1>6, <2>2, <2>3, Zenon
<1>7. \A k \in Keys : k # h[c].key => /\ ip_pool'.in_use[k] = ip_pool.in_use[k]
                                      /\ ip6_pool'.in_use[k] = ip6_pool.in_use[k]
  <2>1. CASE ip_pool' = ip_pool /\ ip6_pool' = ip6_pool
    BY <2>1, Zenon
  <2>2. CASE Allocate4(c) \/ Release4(c)
    <3>1. pc[c] \in Counted
      BY <2>2, Zenon DEF Allocate4, Release4, Go, Counted, Admitted
    <3>2. /\ ip_pool' = ip_pool \/ ip_pool' \in {Allocate(ip_pool, h[c].key),
                                                 Release(ip_pool, h[c].key)}
          /\ ip6_pool' = ip6_pool
      BY <2>2, Zenon DEF Allocate4, Release4
    <3> QED
      BY <1>1, <1>2, <1>6, <3>1, <3>2, Zenon
  <2>3. CASE Allocate6(c) \/ Release6(c)
    <3>1. pc[c] \in Counted
      BY <2>3, Zenon DEF Allocate6, Release6, Go, Counted, Admitted
    <3>2. /\ ip6_pool' = ip6_pool \/ ip6_pool' \in {Allocate(ip6_pool, h[c].key),
                                                    Release(ip6_pool, h[c].key)}
          /\ ip_pool' = ip_pool
      BY <2>3, Zenon DEF Allocate6, Release6
    <3> QED
      BY <1>1, <1>2, <1>6, <3>1, <3>2, Zenon
  <2> QED
    BY <2>1, <2>2, <2>3, Zenon
       DEF StepOf, HandshakeFails, SessionEnds, Handler, Accept, Count,
              RejectFull, Respond, RespondFails,
              TakeSessionId, InsertClient, Map4, Map6, RemoveClient,
              Unmap4, Unmap6, Leave, pools
<1> QED
  BY <1>3, <1>4, <1>5, <1>7, Zenon

-----------------------------------------------------------------------------
(* Who may remove a registration, whether reconnects overlap or not. *)

\* Session ids: those taken lie below the next, no two handlers have one in
\* common, and a handler has one from fetch_add to the end of its cleanup.
SessionIds ==
  /\ 0 < next_session_id
  /\ \A c \in Conns : h[c].session_id < next_session_id
  /\ \A c, d \in Conns : c # d /\ h[c].session_id = h[d].session_id => h[c].session_id = 0
  /\ \A c \in Conns : pc[c] \in {"insert"} \cup Up => h[c].session_id # 0

\* fetch_add returns an id that no handler has, and Leave gives it up.
LEMMA SessionIdsStep ==
  ASSUME Inv, SessionIds, NEW c \in Conns, StepOf(c)
  PROVE  SessionIds'
<1>1. /\ h \in [Conns -> Locals] /\ h[c] \in Locals /\ pc \in [Conns -> Steps]
      /\ next_session_id \in Nat /\ \A d \in Conns : h[d].session_id \in Nat
  BY Zenon DEF Inv, TypeOK, Locals
<1>2. \A d \in Conns : d # c => pc'[d] = pc[d] /\ h'[d] = h[d]
  BY Frame, Zenon
<1>3. CASE TakeSessionId(c)
  <2>1. h'[c].session_id = next_session_id /\ next_session_id' = next_session_id + 1
    BY <1>1, <1>3, Zenon DEF TakeSessionId, Locals
  <2> QED
    BY <1>1, <1>2, <2>1 DEF SessionIds
<1>4. ASSUME h'[c].session_id \in {0, h[c].session_id}, next_session_id' = next_session_id,
             pc'[c] \in {"insert"} \cup Up => /\ pc[c] \in {"insert"} \cup Up
                                              /\ h'[c].session_id = h[c].session_id
      PROVE  SessionIds'
  BY <1>1, <1>2, <1>4 DEF SessionIds
<1>5. CASE Leave(c)
  <2>1. h'[c].session_id = 0 /\ next_session_id' = next_session_id /\ pc'[c] = "done"
    BY <1>1, <1>5, Zenon DEF Leave, Go
  <2> QED
    BY <1>4, <2>1, Zenon DEF Up
<1>6. ASSUME \/ Allocate4(c) \/ Allocate6(c) \/ Respond(c) \/ RespondFails(c)
             \/ \E k \in Keys : Accept(c, k)
      PROVE  /\ h'[c].session_id = h[c].session_id /\ next_session_id' = next_session_id
             /\ pc'[c] \notin {"insert"} \cup Up
  <2>1. h'[c].session_id = h[c].session_id
    <3>1. CASE Allocate4(c) \/ Allocate6(c)
      BY <1>1, <3>1 DEF Allocate4, Allocate6, Locals
    <3>2. CASE Respond(c) \/ RespondFails(c)
      BY <1>1, <3>2 DEF Respond, RespondFails, Locals
    <3>3. CASE \E k \in Keys : Accept(c, k)
      BY <1>1, <3>3 DEF Accept, Locals
    <3> QED
      BY <1>6, <3>1, <3>2, <3>3, Zenon
  <2>2. next_session_id' = next_session_id
    BY <1>6, Zenon DEF Allocate4, Allocate6, Respond, RespondFails, Accept, counters
  <2>3. \E to \in {"allocate6", "respond", "take_id", "leave", "count"} :
           pc' = [pc EXCEPT ![c] = to]
    BY <1>6, Zenon DEF Allocate4, Allocate6, Respond, RespondFails, Accept, Go
  <2>4. pc'[c] \in {"allocate6", "respond", "take_id", "leave", "count"}
    BY <1>1, <2>3, Zenon
  <2> QED
    BY <2>1, <2>2, <2>4, Zenon DEF Up
<1>7. ASSUME \/ HandshakeFails(c) \/ Count(c) \/ RejectFull(c) \/ RemoveClient(c)
             \/ Unmap4(c) \/ Unmap6(c) \/ Release4(c) \/ Release6(c)
      PROVE  h' = h /\ next_session_id' = next_session_id /\ pc'[c] \notin {"insert"} \cup Up
  BY <1>1, <1>7, Zenon
     DEF HandshakeFails, Count, RejectFull, RemoveClient, Unmap4, Unmap6, Release4, Release6,
         Go, counters, Up
<1>8. ASSUME InsertClient(c) \/ Map4(c) \/ Map6(c) \/ SessionEnds(c)
      PROVE  h' = h /\ next_session_id' = next_session_id /\ pc[c] \in {"insert"} \cup Up
  BY <1>1, <1>8, Zenon DEF InsertClient, Map4, Map6, SessionEnds, Go, counters, Up
<1>9. CASE \/ Allocate4(c) \/ Allocate6(c) \/ Respond(c) \/ RespondFails(c)
           \/ \E k \in Keys : Accept(c, k)
  BY <1>4, <1>6, <1>9, Zenon
<1>10. CASE \/ HandshakeFails(c) \/ Count(c) \/ RejectFull(c) \/ RemoveClient(c)
            \/ Unmap4(c) \/ Unmap6(c) \/ Release4(c) \/ Release6(c)
  BY <1>4, <1>7, <1>10, Zenon
<1>11. CASE InsertClient(c) \/ Map4(c) \/ Map6(c) \/ SessionEnds(c)
  BY <1>4, <1>8, <1>11, Zenon
<1> QED
  BY <1>3, <1>5, <1>9, <1>10, <1>11, Zenon DEF StepOf, Handler

\* A handler that serves its session stays registered and goes on, until it cleans up.
LEMMA UpStep ==
  ASSUME Inv, NEW c \in Conns, StepOf(c), pc[c] \in Up
  PROVE  RemoveClient(c) \/ (h' = h /\ pc'[c] \in Up)
<1>1. pc \in [Conns -> Steps]
  BY Zenon DEF Inv, TypeOK
<1>2. Map4(c) \/ Map6(c) \/ SessionEnds(c) \/ RemoveClient(c)
  BY Zenon DEF StepOf, HandshakeFails, Handler, Accept, Count, RejectFull, Allocate4,
              Allocate6, Respond, RespondFails, TakeSessionId, InsertClient, Unmap4,
              Unmap6, Release4, Release6, Leave, Go, Up
<1>3. CASE Map4(c) \/ Map6(c) \/ SessionEnds(c)
  <2>1. h' = h /\ \/ pc' = [pc EXCEPT ![c] = "map6"]
                  \/ pc' = [pc EXCEPT ![c] = "live"]
                  \/ pc' = [pc EXCEPT ![c] = "remove"]
    BY <1>3, Zenon DEF Map4, Map6, SessionEnds, Go
  <2>2. pc'[c] \in {"map6", "live", "remove"}
    BY <1>1, <2>1, Zenon
  <2> QED
    BY <2>1, <2>2, Zenon DEF Up
<1> QED
  BY <1>2, <1>3, Zenon

\* A registration changes only when its key's handler inserts or removes it.
LEMMA ChangeOfRegistration ==
  ASSUME Inv, NEW c \in Conns, StepOf(c), NEW k \in Keys, clients'[k] # clients[k]
  PROVE  /\ k = h[c].key /\ h' = h
         /\ \/ /\ pc[c] = "insert" /\ pc'[c] = "map4" /\ clients'[k] # NoSession
               /\ clients'[k].session_id = h[c].session_id
            \/ /\ pc[c] = "remove" /\ pc'[c] = "unmap4" /\ clients'[k] = NoSession
               /\ clients[k].session_id = h[c].session_id
<1>1. /\ pc \in [Conns -> Steps] /\ clients \in [Keys -> ClientState \cup {NoSession}]
      /\ h[c] \in Locals
  BY Zenon DEF Inv, TypeOK
<1>2. k = h[c].key
  BY Frame, Zenon
<1>3. InsertClient(c) \/ RemoveClient(c)
  BY Zenon
     DEF StepOf, HandshakeFails, SessionEnds, Handler, Accept, Count, RejectFull,
         Allocate4, Allocate6, Respond, RespondFails, TakeSessionId, Map4, Map6, Unmap4,
         Unmap6, Release4, Release6, Leave, maps
<1>4. CASE InsertClient(c)
  <2> DEFINE s == [session_id |-> h[c].session_id, assigned_ip |-> h[c].assigned_ip,
                   assigned_ip6 |-> h[c].assigned_ip6]
  <2>1. s \in ClientState /\ s.session_id = h[c].session_id
    BY <1>1, Zenon DEF ClientState, Locals
  <2>2. s # NoSession
    BY <2>1, SessionAssumption, Zenon
  <2>3. clients' = [clients EXCEPT ![k] = s]
    BY <1>2, <1>4, Zenon DEF InsertClient
  <2>4. clients'[k] = s
    BY <1>1, <2>3, Zenon
  <2>5. h' = h /\ pc[c] = "insert" /\ pc'[c] = "map4"
    BY <1>1, <1>4, Zenon DEF InsertClient, Go
  <2> QED
    BY <1>2, <2>1, <2>2, <2>4, <2>5, Zenon
<1>5. CASE RemoveClient(c)
  <2>1. Registered(c)
    BY <1>5, Zenon DEF RemoveClient
  <2> QED
    BY <1>1, <1>2, <1>5, <2>1, Zenon DEF RemoveClient, Registered, Go
<1> QED
  BY <1>3, <1>4, <1>5, Zenon

\* A registration that a step does not touch keeps the handler that made it; one that
\* it removes was made by the handler that removes it; one that it writes is made
\* by the handler whose id no other has.
LEMMA RegistrationSteps ==
  ASSUME Inv, SessionIds, RegistrationsOwned, NEW c \in Conns, StepOf(c)
  PROVE  RegistrationsOwned' /\ \A k \in Keys : RegistrationStep(k)
<1>1. SessionIds'
  BY SessionIdsStep, Zenon
<1>2. \A k \in Keys : clients[k] # NoSession => \E d \in Conns : MadeBy(k, d) /\ pc[d] \in Up
  BY Zenon DEF RegistrationsOwned, Up
<1>3. \A d \in Conns : d # c => pc'[d] = pc[d] /\ h'[d] = h[d]
  BY Frame, Zenon
<1>4. ASSUME NEW k \in Keys, clients'[k] = clients[k], clients[k] # NoSession
      PROVE  \E d \in Conns : MadeBy(k, d)' /\ pc'[d] \in Up
  <2>1. PICK d \in Conns : MadeBy(k, d) /\ pc[d] \in Up
    BY <1>2, <1>4, Zenon
  <2>2. h'[d] = h[d] /\ pc'[d] \in Up
    <3>1. CASE d # c
      BY <1>3, <2>1, <3>1, Zenon
    <3>2. CASE d = c
      <4>1. ~RemoveClient(c)
        <5>1. SUFFICES ASSUME RemoveClient(c)
                       PROVE  FALSE
          BY Zenon
        <5>2. Registered(c) /\ h[c].key = k
          BY <1>4, <2>1, <3>2, Zenon DEF MadeBy, Registered
        <5>3. clients \in [Keys -> ClientState \cup {NoSession}]
          BY Zenon DEF Inv, TypeOK
        <5>4. clients'[k] = NoSession
          BY <5>1, <5>2, <5>3, Zenon DEF RemoveClient
        <5> QED
          BY <1>4, <5>4, Zenon
      <4> QED
        BY <2>1, <3>2, <4>1, UpStep, Zenon
    <3> QED
      BY <3>1, <3>2, Zenon
  <2>3. \A e \in Conns \ {d} : h'[e].session_id # h'[d].session_id
    BY <1>1, <2>2, Zenon DEF SessionIds
  <2> QED
    BY <1>4, <2>1, <2>2, <2>3, Zenon DEF MadeBy
<1>5. ASSUME NEW k \in Keys, clients'[k] # clients[k], clients'[k] # NoSession
      PROVE  /\ pc[c] = "insert" /\ pc'[c] = "map4" /\ MadeBy(k, c)'
             /\ clients[k] # NoSession => clients'[k].session_id # clients[k].session_id
  <2>1. /\ k = h[c].key /\ h' = h /\ pc[c] = "insert" /\ pc'[c] = "map4"
        /\ clients'[k].session_id = h[c].session_id
    BY <1>5, ChangeOfRegistration, Zenon
  <2>2. \A e \in Conns \ {c} : h[e].session_id # h[c].session_id
    BY <2>1, Zenon DEF SessionIds
  <2>3. MadeBy(k, c)'
    BY <2>1, <2>2, Zenon DEF MadeBy
  <2>4. ASSUME clients[k] # NoSession
        PROVE  clients'[k].session_id # clients[k].session_id
    <3>1. PICK d \in Conns : MadeBy(k, d) /\ pc[d] \in Up
      BY <1>2, <2>4, Zenon
    <3>2. d # c
      BY <2>1, <3>1, Zenon DEF Up
    <3> QED
      BY <2>1, <2>2, <3>1, <3>2, Zenon DEF MadeBy
  <2> QED
    BY <2>1, <2>3, <2>4, Zenon
<1>6. ASSUME NEW k \in Keys, clients'[k] # clients[k], clients'[k] = NoSession
      PROVE  pc[c] = "remove" /\ pc'[c] = "unmap4" /\ MadeBy(k, c)
  <2>1. /\ k = h[c].key /\ pc[c] = "remove" /\ pc'[c] = "unmap4"
        /\ clients[k].session_id = h[c].session_id
    BY <1>6, ChangeOfRegistration, Zenon
  <2>2. \A e \in Conns \ {c} : h[e].session_id # h[c].session_id
    BY <2>1, Zenon DEF SessionIds, Up
  <2> QED
    BY <2>1, <2>2, Zenon DEF MadeBy
<1>7. \A k \in Keys : RegistrationStep(k)
  BY <1>5, <1>6, Zenon DEF RegistrationStep
<1>8. ASSUME NEW k \in Keys, clients'[k] # NoSession
      PROVE  \E d \in Conns : MadeBy(k, d)' /\ pc'[d] \in Up
  <2>1. CASE clients'[k] = clients[k]
    BY <1>4, <1>8, <2>1, Zenon
  <2>2. CASE clients'[k] # clients[k]
    BY <1>5, <1>8, <2>2, Zenon DEF Up
  <2> QED
    BY <2>1, <2>2, Zenon
<1> QED
  BY <1>7, <1>8, Zenon DEF RegistrationsOwned, Up

\* What registrations and session ids rest on, in every reachable state.
OwnedInv == Inv /\ SessionIds /\ RegistrationsOwned

\* OwnedInv holds before any connection and is kept by every step, and every step
\* changes registrations as RegistrationStep says.
LEMMA OwnedInvHolds ==
  /\ Init => OwnedInv
  /\ OwnedInv /\ [Next]_vars => OwnedInv'
  /\ OwnedInv /\ [Next]_vars => [\A k \in Keys : RegistrationStep(k)]_vars
<1>1. Init => OwnedInv
  <2>1. Init => Inv
    BY InvInit, Zenon
  <2>2. Init => RegistrationsOwned
    BY Zenon DEF Init, RegistrationsOwned
  <2>3. Init => SessionIds
    BY DEF Init, SessionIds, Up
  <2> QED
    BY <2>1, <2>2, <2>3, Zenon DEF OwnedInv
<1>2. ASSUME OwnedInv, NEW c \in Conns, StepOf(c)
      PROVE  SessionIds' /\ RegistrationsOwned' /\ \A k \in Keys : RegistrationStep(k)
  BY <1>2, SessionIdsStep, RegistrationSteps, Zenon DEF OwnedInv
<1>3. ASSUME OwnedInv, UNCHANGED vars
      PROVE  SessionIds' /\ RegistrationsOwned'
  <2>1. clients' = clients /\ h' = h /\ pc' = pc /\ next_session_id' = next_session_id
    BY <1>3, Zenon DEF vars
  <2>2. SessionIds'
    BY <1>3, <2>1 DEF OwnedInv, SessionIds
  <2>3. RegistrationsOwned'
    BY <1>3, <2>1 DEF OwnedInv, RegistrationsOwned, MadeBy
  <2> QED
    BY <2>2, <2>3, Zenon
<1>4. Next => UNCHANGED vars \/ \E c \in Conns : StepOf(c)
  BY Zenon DEF Next, StepOf, Finished
<1>5. OwnedInv /\ [Next]_vars => Inv'
  BY InvNext, Zenon DEF OwnedInv
<1> QED
  BY <1>1, <1>2, <1>3, <1>4, <1>5, Zenon DEF OwnedInv

\* Even when clients reconnect before their old handlers have ended, and insert in
\* any order, an old handler's cleanup never removes another session's registration
\* (remove_if on the session id).
THEOREM OnlyOwnersUnregister ==
  Spec => OnlyOwnerUnregisters
BY OwnedInvHolds, PTL DEF Spec, OnlyOwnerUnregisters

\* Every registration has the one handler that made it and will remove it: none is
\* left behind by clients.insert and remove_if, however reconnects overlap.
THEOREM RegistrationsAlwaysOwned ==
  Spec => []RegistrationsOwned
<1>1. OwnedInv => RegistrationsOwned
  BY Zenon DEF OwnedInv
<1> QED
  BY <1>1, OwnedInvHolds, PTL DEF Spec

\* A step keeps one handler per key: a connection is only given a key all of whose
\* handlers have ended.
LEMMA AloneStep ==
  ASSUME ~Overlapping, Inv, Alone, NEW c \in Conns, StepOf(c)
  PROVE  Alone'
<1>1. TypeOK
  BY Zenon DEF Inv
<1>2. \A d \in Conns : pc'[d] = "idle" => h'[d].key = NoKey
  BY Frame, Zenon DEF Alone
<1>3. CASE h'[c].key = h[c].key
  BY <1>2, <1>3, Frame DEF Alone
<1>4. CASE h'[c].key # h[c].key
  <2>1. pc[c] = "idle"
    BY <1>4, Frame, Zenon
  <2>2. PICK k \in Keys : Accept(c, k)
    BY <1>4, <2>1, Zenon
       DEF StepOf, HandshakeFails, SessionEnds, Handler, Count, RejectFull,
              Allocate4, Allocate6, Respond, RespondFails,
              TakeSessionId, InsertClient, Map4,
              Map6, RemoveClient, Unmap4, Unmap6, Release4, Release6, Leave, Go
  <2>3. h'[c].key = k /\ \A d \in Conns : h[d].key = k => pc[d] = "done"
    BY <1>1, <2>2, Zenon DEF Accept, TypeOK, Locals
  <2>4. \A d \in Conns : d # c /\ h'[d].key = k => pc'[d] = "done"
    BY <2>3, Frame, Zenon
  <2> QED
    BY <1>2, <2>3, <2>4, Frame DEF Alone
<1> QED
  BY <1>3, <1>4, Zenon

\* A routing entry changes only when a handler maps or unmaps its own address, and
\* is removed only if it points to the handler's key.
LEMMA RoutesFrame ==
  ASSUME TypeOK, NEW c \in Conns, StepOf(c)
  PROVE  /\ \A a \in Addr4 : \/ ip_to_endpoint'[a] = ip_to_endpoint[a]
                             \/ Map4(c) /\ a = h[c].assigned_ip
                             \/ /\ Unmap4(c) /\ a = h[c].assigned_ip
                                /\ ip_to_endpoint[a] = h[c].key
         /\ \A a \in Addr6 : \/ ip6_to_endpoint'[a] = ip6_to_endpoint[a]
                             \/ Map6(c) /\ a = h[c].assigned_ip6
                             \/ /\ Unmap6(c) /\ a = h[c].assigned_ip6
                                /\ ip6_to_endpoint[a] = h[c].key
<1>1. DOMAIN ip_to_endpoint = Addr4 /\ DOMAIN ip6_to_endpoint = Addr6
  BY Zenon DEF TypeOK
<1>2. CASE Map4(c) \/ Unmap4(c)
  BY <1>1, <1>2, Zenon DEF Map4, Unmap4, SetEntry, DropEntry
<1>3. CASE Map6(c) \/ Unmap6(c)
  BY <1>1, <1>3, Zenon DEF Map6, Unmap6, SetEntry, DropEntry
<1>4. CASE UNCHANGED <<ip_to_endpoint, ip6_to_endpoint>>
  BY <1>4, Zenon
<1> QED
  BY <1>2, <1>3, <1>4, Zenon
     DEF StepOf, HandshakeFails, SessionEnds, Handler, Accept, Count,
        RejectFull, Allocate4, Allocate6, Respond, RespondFails,
        TakeSessionId, InsertClient, RemoveClient,
        Release4, Release6, Leave, maps

\* A handler's address, while its key holds it, is an address of the network.
LEMMA AssignedInNetwork ==
  ASSUME Inv, PoolsConfigured, NEW c \in Conns, HandlerOK(c)
  PROVE  /\ pc[c] \in Has4 /\ h[c].assigned_ip # NoIp => h[c].assigned_ip \in Addr4
         /\ pc[c] \in Has6 /\ h[c].assigned_ip6 # NoIp => h[c].assigned_ip6 \in Addr6
<1>1. pc[c] \in Has4 \cup Has6 => h[c].key \in Keys
  BY Zenon DEF Inv, TypeOK, Has4, Has6, Counted, Admitted
<1>2. Size4 \in Nat /\ Size6 \in Nat /\ Server4 \in Nat /\ Server6 \in Nat
  BY ServerAssumption, Zenon
<1>3. \A k \in Keys : /\ ip_pool.in_use[k] # NoIp => ip_pool.in_use[k] \in Addr4
                      /\ ip6_pool.in_use[k] # NoIp => ip6_pool.in_use[k] \in Addr6
  <2> TAKE k \in Keys
  <2>1. /\ PoolInv(ip_pool) /\ PoolOf(ip_pool, "sequential", Size4, Server4)
        /\ PoolInv(ip6_pool) /\ PoolOf(ip6_pool, Strategy6, Size6, Server6)
    BY Zenon DEF Inv, PoolsConfigured
  <2>2. ip_pool.in_use[k] # NoIp => ip_pool.in_use[k] \in (0..(Size4 - 1)) \ {0, Server4}
    BY <1>2, <2>1, HeldInNetwork, Zenon
  <2>3. ip6_pool.in_use[k] # NoIp => ip6_pool.in_use[k] \in (0..(Size6 - 1)) \ {0, Server6}
    BY <1>2, <2>1, HeldInNetwork, Zenon
  <2> QED
    BY <2>2, <2>3, Zenon DEF Addr4, Addr6
<1> QED
  BY <1>1, <1>3, Zenon DEF HandlerOK

\* What is known of one handler is not disturbed by a step of another: they work
\* for different keys, and so on different addresses.
LEMMA OthersUndisturbed ==
  ASSUME Inv, PoolsConfigured, Alone, NEW c \in Conns, HandlerOK(c), StepOf(c),
         NEW d \in Conns, d # c, HandlerOK(d)
  PROVE  HandlerOK(d)'
<1> DEFINE k == h[d].key
<1>1. pc'[d] = pc[d] /\ h'[d] = h[d] /\ pc[c] # "done"
  BY Frame, Zenon
<1>2. CASE pc[d] \notin Counted
  BY <1>1, <1>2, Zenon DEF HandlerOK, Has4, Has6, Up, Routed4, Routed6, Counted, Admitted
<1>3. CASE pc[d] \in Counted
  <2>1. k \in Keys /\ k # h[c].key
    BY <1>1, <1>3, Zenon DEF Inv, TypeOK, Alone, Counted, Admitted
  <2>2. /\ ip_pool'.in_use[k] = ip_pool.in_use[k] /\ ip6_pool'.in_use[k] = ip6_pool.in_use[k]
        /\ clients'[k] = clients[k]
    BY <2>1, Frame, Zenon
  <2>3. ASSUME pc[d] \in Routed4, h[d].assigned_ip # NoIp
        PROVE  ip_to_endpoint'[h[d].assigned_ip] = k
    <3> DEFINE a == h[d].assigned_ip
    <3>1. /\ a \in Addr4 /\ ip_to_endpoint[a] = k /\ ip_pool.in_use[k] = a
      <4>1. pc[d] \in Has4
        BY <2>3, Zenon DEF Routed4, Has4
      <4> QED
        BY <2>3, <4>1, AssignedInNetwork, Zenon DEF HandlerOK
    <3>2. ASSUME Map4(c), a = h[c].assigned_ip
          PROVE  FALSE
      <4>1. pc[c] \in Has4 /\ h[c].key \in Keys
        BY <3>2, Zenon DEF Map4, Go, Has4, Inv, TypeOK, Counted, Admitted
      <4>2. ip_pool.in_use[h[c].key] = ip_pool.in_use[k]
        BY <3>1, <3>2, <4>1, Zenon DEF HandlerOK
      <4> QED
        BY <2>1, <2>3, <3>1, <4>1, <4>2, Zenon DEF Inv, PoolInv, PoolSound, Exclusive
    <3>3. TypeOK
      BY Zenon DEF Inv
    <3> QED
      BY <2>1, <3>1, <3>2, <3>3, RoutesFrame, Zenon
  <2>4. ASSUME pc[d] \in Routed6, h[d].assigned_ip6 # NoIp
        PROVE  ip6_to_endpoint'[h[d].assigned_ip6] = k
    <3> DEFINE a == h[d].assigned_ip6
    <3>1. /\ a \in Addr6 /\ ip6_to_endpoint[a] = k /\ ip6_pool.in_use[k] = a
      <4>1. pc[d] \in Has6
        BY <2>4, Zenon DEF Routed6, Has6
      <4> QED
        BY <2>4, <4>1, AssignedInNetwork, Zenon DEF HandlerOK
    <3>2. ASSUME Map6(c), a = h[c].assigned_ip6
          PROVE  FALSE
      <4>1. pc[c] \in Has6 /\ h[c].key \in Keys
        BY <3>2, Zenon DEF Map6, Go, Has6, Inv, TypeOK, Counted, Admitted
      <4>2. ip6_pool.in_use[h[c].key] = ip6_pool.in_use[k]
        BY <3>1, <3>2, <4>1, Zenon DEF HandlerOK
      <4> QED
        BY <2>1, <2>4, <3>1, <4>1, <4>2, Zenon DEF Inv, PoolInv, PoolSound, Exclusive
    <3>3. TypeOK
      BY Zenon DEF Inv
    <3> QED
      BY <2>1, <3>1, <3>2, <3>3, RoutesFrame, Zenon
  <2> QED
    BY <1>1, <2>2, <2>3, <2>4, Zenon DEF HandlerOK
<1> QED
  BY <1>2, <1>3, Zenon

-----------------------------------------------------------------------------
(* Each step of a handler leaves the shared state as its next step expects it. *)

\* A handler's own step keeps HandlerOK.
LEMMA OwnStep ==
  ASSUME Inv, PoolsConfigured, NEW c \in Conns, HandlerOK(c), StepOf(c)
  PROVE  HandlerOK(c)'
<1> DEFINE k == h[c].key
<1>1. /\ pc \in [Conns -> Steps] /\ h \in [Conns -> Locals] /\ h[c] \in Locals
      /\ clients \in [Keys -> ClientState \cup {NoSession}]
      /\ DOMAIN ip_to_endpoint = Addr4 /\ DOMAIN ip6_to_endpoint = Addr6
      /\ pc[c] \in Counted => k \in Keys
      /\ PoolInv(ip_pool) /\ PoolInv(ip6_pool)
  BY Zenon DEF Inv, TypeOK
<1>2. /\ ip_pool.in_use \in [Keys -> Nat \cup {NoIp}]
      /\ ip6_pool.in_use \in [Keys -> Nat \cup {NoIp}]
  BY <1>1, Zenon DEF PoolInv, PoolType
<1>3. ASSUME pc'[c] \notin Holding
      PROVE  HandlerOK(c)'
  BY <1>3, Zenon DEF HandlerOK, Has4, Has6, Up, Routed4, Routed6, Holding
<1> USE DEF HandlerOK, Has4, Has6, Up, Routed4, Routed6
<1>4. CASE Allocate4(c)
  <2>1. /\ pc'[c] = "allocate6" \/ pc'[c] = "leave"
        /\ h'[c].assigned_ip = ip_pool'.in_use[k] /\ h'[c].key = k
    BY <1>1, <1>4, Zenon DEF Allocate4, Go, Locals
  <2> QED
    BY <2>1, Zenon
<1>5. CASE Allocate6(c)
  <2>1. /\ pc[c] = "allocate6" /\ pc'[c] \in {"respond", "leave"}
        /\ h'[c].assigned_ip6 = ip6_pool'.in_use[k] /\ h'[c].key = k
        /\ h'[c].assigned_ip = h[c].assigned_ip /\ ip_pool' = ip_pool
    BY <1>1, <1>5, Zenon DEF Allocate6, Go, Locals
  <2> QED
    BY <2>1, Zenon
<1>6. CASE Respond(c)
  <2>1. /\ pc[c] = "respond" /\ pc'[c] = "take_id" /\ h'[c].key = k
        /\ h'[c].assigned_ip = h[c].assigned_ip /\ h'[c].assigned_ip6 = h[c].assigned_ip6
        /\ ip_pool' = ip_pool /\ ip6_pool' = ip6_pool
    BY <1>1, <1>6, Zenon DEF Respond, Go, Locals, pools
  <2> QED
    BY <2>1, Zenon
<1>6a. CASE TakeSessionId(c)
  <2>1. /\ pc[c] = "take_id" /\ pc'[c] = "insert" /\ h'[c].key = k
        /\ h'[c].assigned_ip = h[c].assigned_ip /\ h'[c].assigned_ip6 = h[c].assigned_ip6
        /\ ip_pool' = ip_pool /\ ip6_pool' = ip6_pool
    BY <1>1, <1>6a, Zenon DEF TakeSessionId, Go, Locals, pools
  <2> QED
    BY <2>1, Zenon
<1>7. CASE InsertClient(c)
  <2>1. /\ pc[c] = "insert" /\ pc'[c] = "map4" /\ h' = h /\ k \in Keys
        /\ ip_pool' = ip_pool /\ ip6_pool' = ip6_pool
    BY <1>1, <1>7, Zenon DEF InsertClient, Go, pools, Counted, Admitted
  <2>2. clients'[k] = [session_id |-> h[c].session_id, assigned_ip |-> h[c].assigned_ip,
                       assigned_ip6 |-> h[c].assigned_ip6]
    BY <1>1, <1>7, <2>1, Zenon DEF InsertClient
  <2> QED
    BY <2>1, <2>2, Zenon
<1>8. CASE Map4(c)
  <2>1. /\ pc[c] = "map4" /\ pc'[c] = "map6" /\ h' = h /\ clients' = clients
        /\ ip_pool' = ip_pool /\ ip6_pool' = ip6_pool
        /\ ip_to_endpoint' = SetEntry(ip_to_endpoint, h[c].assigned_ip, k)
    BY <1>1, <1>8, Zenon DEF Map4, Go, pools
  <2>2. h[c].assigned_ip # NoIp => h[c].assigned_ip \in Addr4
    BY <2>1, AssignedInNetwork, Zenon
  <2>3. h[c].assigned_ip # NoIp => ip_to_endpoint'[h[c].assigned_ip] = k
    BY <1>1, <2>1, <2>2, Zenon DEF SetEntry
  <2> QED
    BY <2>1, <2>3, Zenon
<1>9. CASE Map6(c)
  <2>1. /\ pc[c] = "map6" /\ pc'[c] = "live" /\ h' = h /\ clients' = clients
        /\ ip_pool' = ip_pool /\ ip6_pool' = ip6_pool /\ ip_to_endpoint' = ip_to_endpoint
        /\ ip6_to_endpoint' = SetEntry(ip6_to_endpoint, h[c].assigned_ip6, k)
    BY <1>1, <1>9, Zenon DEF Map6, Go, pools
  <2>2. h[c].assigned_ip6 # NoIp => h[c].assigned_ip6 \in Addr6
    BY <2>1, AssignedInNetwork, Zenon
  <2>3. h[c].assigned_ip6 # NoIp => ip6_to_endpoint'[h[c].assigned_ip6] = k
    BY <1>1, <2>1, <2>2, Zenon DEF SetEntry
  <2> QED
    BY <2>1, <2>3, Zenon
<1>10. CASE SessionEnds(c)
  <2>1. /\ pc[c] = "live" /\ pc'[c] = "remove" /\ h' = h /\ UNCHANGED <<maps, pools>>
    BY <1>1, <1>10, Zenon DEF SessionEnds, Go
  <2> QED
    BY <2>1, Zenon DEF maps, pools
<1>11. CASE RemoveClient(c)
  <2>1. /\ pc[c] = "remove" /\ pc'[c] \in {"unmap4", "leave"} /\ h' = h
        /\ UNCHANGED <<ip_to_endpoint, ip6_to_endpoint, pools>>
    BY <1>1, <1>11, Zenon DEF RemoveClient, Go
  <2> QED
    BY <2>1, Zenon DEF pools
<1>12. CASE Unmap4(c)
  <2>1. /\ pc[c] = "unmap4" /\ pc'[c] = "unmap6" /\ h' = h
        /\ UNCHANGED <<ip6_to_endpoint, pools>>
    BY <1>1, <1>12, Zenon DEF Unmap4, Go
  <2> QED
    BY <2>1, Zenon DEF pools
<1>13. CASE Unmap6(c)
  <2>1. pc[c] = "unmap6" /\ pc'[c] = "release4" /\ h' = h /\ UNCHANGED pools
    BY <1>1, <1>13, Zenon DEF Unmap6, Go
  <2> QED
    BY <2>1, Zenon DEF pools
<1>14. CASE Release4(c)
  <2>1. /\ pc[c] = "release4" /\ pc'[c] = "release6" /\ h' = h /\ ip6_pool' = ip6_pool
        /\ ip_pool' = IF h[c].assigned_ip # NoIp THEN Release(ip_pool, k) ELSE ip_pool
        /\ k \in Keys
    BY <1>1, <1>14, Zenon DEF Release4, Go, Counted, Admitted
  <2>2. ip_pool'.in_use[k] = NoIp
    <3>1. CASE h[c].assigned_ip = NoIp
      BY <2>1, <3>1, Zenon
    <3>2. CASE h[c].assigned_ip # NoIp
      <4>1. ip_pool'.in_use = [ip_pool.in_use EXCEPT ![k] = NoIp]
        BY <1>1, <2>1, <3>2, ReleaseRevokes, Zenon
      <4> QED
        BY <1>2, <2>1, <4>1, Zenon
    <3> QED
      BY <3>1, <3>2, Zenon
  <2> QED
    BY <2>1, <2>2, Zenon
<1>15. CASE \/ HandshakeFails(c) \/ Count(c) \/ RejectFull(c) \/ RespondFails(c)
            \/ Release6(c) \/ Leave(c) \/ \E l \in Keys : Accept(c, l)
  <2>1. pc'[c] \notin Holding
    BY <1>1, <1>15, Zenon
       DEF HandshakeFails, Count, RejectFull, RespondFails, Release6, Leave,
                       Accept, Go, Holding
  <2> QED
    BY <1>3, <2>1, Zenon
<1> HIDE DEF HandlerOK
<1> QED
  BY ONLY StepOf(c), <1>4, <1>5, <1>6, <1>6a, <1>7, <1>8, <1>9, <1>10, <1>11, <1>12, <1>13, <1>14,
          <1>15, Zenon
     DEF StepOf, Handler

\* The session a handler has registered is still there when it cleans up.
LEMMA StillRegistered ==
  ASSUME Inv, NEW c \in Conns, HandlerOK(c), pc[c] = "remove"
  PROVE  Registered(c)
<1> DEFINE s == [session_id |-> h[c].session_id, assigned_ip |-> h[c].assigned_ip,
                 assigned_ip6 |-> h[c].assigned_ip6]
<1>1. s \in ClientState /\ s.session_id = h[c].session_id
  BY Zenon DEF Inv, TypeOK, Locals, ClientState
<1>2. clients[h[c].key] = s
  BY Zenon DEF HandlerOK, Up
<1> HIDE DEF s
<1> QED
  BY <1>1, <1>2, SessionAssumption, Zenon DEF Registered

\* Whatever a key holds in the pools after a step is kept by one of its handlers: the
\* paths that end a handler have released it, allocated nothing, or failed to answer.
LEMMA PoolsKept ==
  ASSUME Inv, Alone, NEW c \in Conns, HandlerOK(c), StepOf(c), NEW k \in Keys, KeyOK(k),
         (ip_pool'.in_use[k] # NoIp \/ ip6_pool'.in_use[k] # NoIp)
  PROVE  Kept(k)'
<1>1. /\ pc \in [Conns -> Steps] /\ h \in [Conns -> Locals] /\ h[c] \in Locals
      /\ PoolInv(ip_pool) /\ PoolInv(ip6_pool)
  BY Zenon DEF Inv, TypeOK
<1>2. /\ ip_pool.in_use \in [Keys -> Nat \cup {NoIp}]
      /\ ip6_pool.in_use \in [Keys -> Nat \cup {NoIp}]
  BY <1>1, Zenon DEF PoolInv, PoolType
<1>3. ASSUME NEW e \in Conns, e # c, h[e].key = k,
             pc[e] \in Holding \/ h[e].response = "write_failed"
      PROVE  Kept(k)'
  BY <1>3, Frame, Zenon DEF Kept
<1>4. CASE k # h[c].key
  <2>1. Kept(k)
    BY <1>4, Frame, Zenon DEF KeyOK
  <2> QED
    BY <1>3, <1>4, <2>1, Zenon DEF Kept
<1>5. CASE k = h[c].key
  <2>1. pc[c] # "idle" /\ h'[c].key = k
    BY <1>5, Frame, ServerAssumption, Zenon DEF Alone
  <2>2. SUFFICES ASSUME pc'[c] \notin Holding, h'[c].response # "write_failed"
                 PROVE  Kept(k)'
    BY <2>1, Zenon DEF Kept
  <2>3. ASSUME pc[c] \notin Holding, h'[c].response = h[c].response,
               ip_pool.in_use[k] # NoIp \/ ip6_pool.in_use[k] # NoIp
        PROVE  Kept(k)'
    <3>1. PICK e \in Conns : /\ h[e].key = k
                             /\ pc[e] \in Holding \/ h[e].response = "write_failed"
      BY <2>3, Zenon DEF KeyOK, Kept
    <3>2. e # c
      BY <2>2, <2>3, <3>1, Zenon
    <3> QED
      BY <1>3, <3>1, <3>2, Zenon
  <2>4. CASE Count(c) \/ RejectFull(c) \/ Leave(c)
    <3>1. /\ pc[c] \in {"count", "full", "leave"} /\ h'[c].response = h[c].response
          /\ UNCHANGED pools
      BY <1>1, <2>4 DEF Count, RejectFull, Leave, Go
    <3> QED
      BY <2>3, <3>1, Zenon DEF Holding, pools
  <2>5. CASE Allocate4(c)
    <3>1. /\ pc[c] = "allocate4" /\ h'[c].response = h[c].response /\ ip6_pool' = ip6_pool
          /\ ip_pool'.in_use[k] = NoIp
      BY <1>1, <1>5, <2>2, <2>5, Zenon DEF Allocate4, Go, Locals, Holding
    <3> QED
      BY <2>3, <3>1, Zenon DEF Holding
  <2>6. CASE Allocate6(c)
    <3>1. /\ pc[c] = "allocate6" /\ ip_pool' = ip_pool /\ ip6_pool'.in_use[k] = NoIp
          /\ h[c].assigned_ip = NoIp
      BY <1>1, <1>5, <2>2, <2>6, Zenon DEF Allocate6, Go, Holding
    <3> QED
      BY <1>5, <3>1, Zenon DEF HandlerOK, Has4
  <2>7. CASE RemoveClient(c)
    <3>1. pc[c] = "remove" /\ pc'[c] = IF Registered(c) THEN "unmap4" ELSE "leave"
      BY <1>1, <2>7, Zenon DEF RemoveClient, Go
    <3> QED
      BY <2>2, <3>1, StillRegistered, Zenon DEF Holding
  <2>8. CASE Release6(c)
    <3>1. /\ pc[c] = "release6" /\ ip_pool' = ip_pool
          /\ ip6_pool' = IF h[c].assigned_ip6 # NoIp THEN Release(ip6_pool, k) ELSE ip6_pool
      BY <1>5, <2>8, Zenon DEF Release6, Go
    <3>2. ip_pool.in_use[k] = NoIp /\ h[c].assigned_ip6 = ip6_pool.in_use[k]
      BY <1>5, <3>1, Zenon DEF HandlerOK, Has6
    <3>3. ip6_pool'.in_use[k] = NoIp
      <4>1. CASE h[c].assigned_ip6 = NoIp
        BY <3>1, <3>2, <4>1, Zenon
      <4>2. CASE h[c].assigned_ip6 # NoIp
        <5>1. ip6_pool'.in_use = [ip6_pool.in_use EXCEPT ![k] = NoIp]
          BY <1>1, <3>1, <4>2, ReleaseRevokes, Zenon
        <5> QED
          BY <1>2, <5>1, Zenon
      <4> QED
        BY <4>1, <4>2, Zenon
    <3> QED
      BY <3>1, <3>2, <3>3, Zenon
  <2>9. CASE RespondFails(c)
    BY <1>1, <2>2, <2>9, Zenon DEF RespondFails, Locals
  <2>10. CASE \/ SessionEnds(c) \/ Respond(c)
              \/ TakeSessionId(c) \/ InsertClient(c) \/ Map4(c) \/ Map6(c)
              \/ Unmap4(c) \/ Unmap6(c) \/ Release4(c)
    BY <1>1, <2>2, <2>10, Zenon
       DEF SessionEnds, Respond, TakeSessionId, InsertClient, Map4, Map6, Unmap4, Unmap6,
                             Release4, Go, Holding
  <2>11. CASE HandshakeFails(c) \/ \E l \in Keys : Accept(c, l)
    BY <2>1, <2>11, Zenon DEF HandshakeFails, Accept, Go
  <2> QED
    BY ONLY StepOf(c), <2>4, <2>5, <2>6, <2>7, <2>8, <2>9, <2>10, <2>11, Zenon
       DEF StepOf, Handler
<1> QED
  BY <1>4, <1>5, Zenon

\* A registration has its handler after every step: the cleanup removes it before the
\* handler goes on.
LEMMA RegistrationsKept ==
  ASSUME Inv, Alone, NEW c \in Conns, HandlerOK(c), StepOf(c), NEW k \in Keys, KeyOK(k),
         clients'[k] # NoSession
  PROVE  \E e \in Conns : h'[e].key = k /\ pc'[e] \in Up
<1>1. /\ pc \in [Conns -> Steps] /\ h \in [Conns -> Locals] /\ h[c] \in Locals
      /\ clients \in [Keys -> ClientState \cup {NoSession}]
  BY Zenon DEF Inv, TypeOK
<1>2. CASE InsertClient(c) /\ k = h[c].key
  BY <1>1, <1>2, Zenon DEF InsertClient, Go, Locals, Up
<1>3. CASE RemoveClient(c) /\ k = h[c].key
  <2>1. pc[c] = "remove"
    BY <1>3, Zenon DEF RemoveClient, Go
  <2> QED
    BY <1>1, <1>3, <2>1, StillRegistered, Zenon DEF RemoveClient
<1>4. CASE ~((InsertClient(c) \/ RemoveClient(c)) /\ k = h[c].key)
  <2>1. clients'[k] = clients[k]
    <3>1. CASE k # h[c].key
      BY <3>1, Frame, Zenon
    <3>2. CASE ~(InsertClient(c) \/ RemoveClient(c))
      BY <3>2, Zenon
         DEF StepOf, HandshakeFails, SessionEnds, Handler, Accept, Count, RejectFull,
              Allocate4, Allocate6, Respond, RespondFails, TakeSessionId, Map4, Map6,
              Unmap4, Unmap6, Release4, Release6, Leave, maps
    <3> QED
      BY <1>4, <3>1, <3>2, Zenon
  <2>2. PICK e \in Conns : h[e].key = k /\ pc[e] \in Up
    BY <2>1, Zenon DEF KeyOK
  <2>3. CASE e # c
    BY <2>2, <2>3, Frame, Zenon
  <2>4. CASE e = c
    <3>1. pc[c] \in Up /\ k = h[c].key
      BY <2>2, <2>4, Zenon
    <3>2. Map4(c) \/ Map6(c) \/ SessionEnds(c)
      BY <1>4, <3>1, Zenon DEF StepOf, HandshakeFails, Handler, Accept, Count, RejectFull,
              Allocate4, Allocate6, Respond, RespondFails,
              TakeSessionId, InsertClient, RemoveClient, Unmap4,
              Unmap6, Release4, Release6, Leave, Go, Up
    <3>3. pc'[c] \in Up /\ h' = h
      BY <1>1, <3>2, Zenon DEF Map4, Map6, SessionEnds, Go, Up
    <3> QED
      BY <3>1, <3>3, Zenon
  <2> QED
    BY <2>3, <2>4, Zenon
<1> QED
  BY <1>2, <1>3, <1>4, Zenon

\* A routing entry has its handler after every step: unmap removes it because it still
\* points to the handler's key.
LEMMA EntriesKept ==
  ASSUME Inv, NEW c \in Conns, HandlerOK(c), StepOf(c), EntriesOK
  PROVE  EntriesOK'
<1>1. /\ TypeOK /\ pc \in [Conns -> Steps] /\ h[c] \in Locals
      /\ DOMAIN ip_to_endpoint = Addr4 /\ DOMAIN ip6_to_endpoint = Addr6
  BY Zenon DEF Inv, TypeOK
<1>2. ASSUME pc[c] = "remove"
      PROVE  pc'[c] = "unmap4" /\ h' = h
  <2>1. RemoveClient(c)
    BY <1>2, Zenon
       DEF StepOf, HandshakeFails, SessionEnds, Handler, Accept, Count, RejectFull,
              Allocate4, Allocate6, Respond, RespondFails,
              TakeSessionId, InsertClient, Map4, Map6, Unmap4,
              Unmap6, Release4, Release6, Leave, Go
  <2> QED
    BY <1>1, <1>2, <2>1, StillRegistered, Zenon DEF RemoveClient, Go
<1>3. ASSUME pc[c] \in {"map6", "live"}
      PROVE  pc'[c] \in {"live", "remove"} /\ h' = h
  <2>1. Map6(c) \/ SessionEnds(c)
    BY <1>3, Zenon DEF StepOf, HandshakeFails, Handler, Accept, Count, RejectFull,
              Allocate4, Allocate6, Respond, RespondFails,
              TakeSessionId, InsertClient, Map4, RemoveClient,
              Unmap4, Unmap6, Release4, Release6, Leave, Go
  <2> QED
    BY <1>1, <2>1, Zenon DEF Map6, SessionEnds, Go
<1>4. ASSUME pc[c] = "unmap4"
      PROVE  Unmap4(c) /\ pc'[c] = "unmap6" /\ h' = h
  <2>1. Unmap4(c)
    BY <1>4, Zenon
       DEF StepOf, HandshakeFails, SessionEnds, Handler, Accept, Count, RejectFull,
              Allocate4, Allocate6, Respond, RespondFails,
              TakeSessionId, InsertClient, Map4,
              Map6, RemoveClient, Unmap6, Release4, Release6, Leave, Go
  <2> QED
    BY <1>1, <2>1, Zenon DEF Unmap4, Go
<1>5. ASSUME pc[c] = "unmap6"
      PROVE  Unmap6(c) /\ h' = h
  <2>1. Unmap6(c)
    BY <1>5, Zenon
       DEF StepOf, HandshakeFails, SessionEnds, Handler, Accept, Count, RejectFull,
              Allocate4, Allocate6, Respond, RespondFails,
              TakeSessionId, InsertClient, Map4,
              Map6, RemoveClient, Unmap4, Release4, Release6, Leave, Go
  <2> QED
    BY <2>1, Zenon DEF Unmap6
<1>6. ASSUME NEW a \in Addr4, ip_to_endpoint'[a] # NoKey
      PROVE  \E e \in Conns : /\ pc'[e] \in Routed4 /\ h'[e].key = ip_to_endpoint'[a]
                              /\ h'[e].assigned_ip = a
  <2>1. CASE Map4(c) /\ a = h[c].assigned_ip
    BY <1>1, <2>1, Zenon DEF Map4, Go, SetEntry, Routed4
  <2>2. ASSUME Unmap4(c), a = h[c].assigned_ip, ip_to_endpoint[a] = h[c].key
        PROVE  FALSE
    BY <1>1, <1>6, <2>2, Zenon DEF Unmap4, DropEntry
  <2>3. CASE ip_to_endpoint'[a] = ip_to_endpoint[a]
    <3>1. PICK e \in Conns : /\ pc[e] \in Routed4 /\ h[e].key = ip_to_endpoint[a]
                             /\ h[e].assigned_ip = a
      BY <1>6, <2>3, Zenon DEF EntriesOK
    <3>2. CASE e # c
      <4>1. pc'[e] = pc[e] /\ h'[e] = h[e]
        BY <3>2, Frame, Zenon
      <4> QED
        BY <2>3, <3>1, <4>1, Zenon
    <3>3. CASE e = c
      <4>1. pc[c] # "unmap4"
        BY <1>4, <2>2, <3>1, <3>3, Zenon
      <4>2. pc'[c] \in Routed4 /\ h' = h
        BY <1>2, <1>3, <3>1, <3>3, <4>1, Zenon DEF Routed4
      <4> QED
        BY <2>3, <3>1, <3>3, <4>2, Zenon
    <3> QED
      BY <3>2, <3>3, Zenon
  <2> QED
    BY <1>1, <2>1, <2>2, <2>3, RoutesFrame, Zenon
<1>7. ASSUME NEW a \in Addr6, ip6_to_endpoint'[a] # NoKey
      PROVE  \E e \in Conns : /\ pc'[e] \in Routed6 /\ h'[e].key = ip6_to_endpoint'[a]
                              /\ h'[e].assigned_ip6 = a
  <2>1. CASE Map6(c) /\ a = h[c].assigned_ip6
    BY <1>1, <2>1, Zenon DEF Map6, Go, SetEntry, Routed6
  <2>2. ASSUME Unmap6(c), a = h[c].assigned_ip6, ip6_to_endpoint[a] = h[c].key
        PROVE  FALSE
    BY <1>1, <1>7, <2>2, Zenon DEF Unmap6, DropEntry
  <2>3. CASE ip6_to_endpoint'[a] = ip6_to_endpoint[a]
    <3>1. PICK e \in Conns : /\ pc[e] \in Routed6 /\ h[e].key = ip6_to_endpoint[a]
                             /\ h[e].assigned_ip6 = a
      BY <1>7, <2>3, Zenon DEF EntriesOK
    <3>2. CASE e # c
      <4>1. pc'[e] = pc[e] /\ h'[e] = h[e]
        BY <3>2, Frame, Zenon
      <4> QED
        BY <2>3, <3>1, <4>1, Zenon
    <3>3. CASE e = c
      <4>1. pc[c] # "unmap6"
        BY <1>5, <2>2, <3>1, <3>3, Zenon
      <4>2. pc'[c] \in Routed6 /\ h' = h
        BY <1>2, <1>3, <1>4, <3>1, <3>3, <4>1, Zenon DEF Routed6
      <4> QED
        BY <2>3, <3>1, <3>3, <4>2, Zenon
    <3> QED
      BY <3>2, <3>3, Zenon
  <2> QED
    BY <1>1, <2>1, <2>2, <2>3, RoutesFrame, Zenon
<1> QED
  BY <1>6, <1>7, Zenon DEF EntriesOK

-----------------------------------------------------------------------------

\* All that is known of the sessions.
Base == Inv /\ PoolsConfigured /\ SoloInv

\* Base holds initially.
LEMMA BaseInit ==
  Init => Base
<1> SUFFICES ASSUME Init PROVE Base
  BY Zenon
<1>1. Inv /\ PoolsConfigured
  BY InvInit, ConfigStays, Zenon
<1>2. Alone /\ \A c \in Conns : HandlerOK(c)
  <2>1. \A c \in Conns : pc[c] = "idle" /\ h[c].key = NoKey
    BY Zenon DEF Init
  <2> QED
    BY <2>1, ServerAssumption, Zenon DEF Alone, HandlerOK, Has4, Has6, Up, Routed4, Routed6
<1>3. (\A k \in Keys : KeyOK(k)) /\ EntriesOK
  BY Zenon DEF Init, KeyOK, EntriesOK, NewPool
<1> QED
  BY <1>1, <1>2, <1>3, Zenon DEF Base, SoloInv

\* Every step keeps Base, as long as no client overlaps its old handler.
LEMMA BaseNext ==
  ASSUME ~Overlapping
  PROVE  Base /\ [Next]_vars => Base'
<1> SUFFICES ASSUME Base, [Next]_vars PROVE Base'
  BY Zenon
<1>1. Inv' /\ PoolsConfigured'
  BY InvNext, ConfigStays, Zenon DEF Base
<1>2. ASSUME NEW c \in Conns, StepOf(c)
      PROVE  SoloInv'
  <2>1. Inv /\ PoolsConfigured /\ Alone /\ EntriesOK
    BY Zenon DEF Base, SoloInv
  <2>2. (\A d \in Conns : HandlerOK(d)) /\ \A k \in Keys : KeyOK(k)
    BY Zenon DEF Base, SoloInv
  <2>3. Alone'
    BY <1>2, <2>1, AloneStep, Zenon
  <2>4. \A d \in Conns : HandlerOK(d)'
    BY <1>2, <2>1, <2>2, OwnStep, OthersUndisturbed, Zenon
  <2>5. \A k \in Keys : KeyOK(k)'
    BY <1>2, <2>1, <2>2, PoolsKept, RegistrationsKept, Zenon DEF KeyOK
  <2>6. EntriesOK'
    BY <1>2, <2>1, <2>2, EntriesKept, Zenon
  <2> QED
    BY <2>3, <2>4, <2>5, <2>6, Zenon DEF SoloInv
<1>3. ASSUME UNCHANGED vars
      PROVE  SoloInv'
  <2>1. /\ ip_pool' = ip_pool /\ ip6_pool' = ip6_pool /\ clients' = clients
        /\ ip_to_endpoint' = ip_to_endpoint /\ ip6_to_endpoint' = ip6_to_endpoint
        /\ pc' = pc /\ h' = h
    BY <1>3, Zenon DEF vars
  <2>2. Alone'
    BY <2>1, Zenon DEF Base, SoloInv, Alone
  <2>3. ASSUME NEW c \in Conns
        PROVE  HandlerOK(c)'
    <3>1. HandlerOK(c)
      BY Zenon DEF Base, SoloInv
    <3> QED
      BY <2>1, <3>1, Zenon DEF HandlerOK
  <2>4. ASSUME NEW k \in Keys
        PROVE  KeyOK(k)'
    <3>1. KeyOK(k)
      BY Zenon DEF Base, SoloInv
    <3>2. Kept(k)' <=> Kept(k)
      BY <2>1, Zenon DEF Kept
    <3> QED
      BY <2>1, <3>1, <3>2, Zenon DEF KeyOK
  <2>5. EntriesOK'
    BY <2>1, Zenon DEF Base, SoloInv, EntriesOK
  <2> QED
    BY <2>2, <2>3, <2>4, <2>5, Zenon DEF SoloInv
<1>4. SoloInv'
  <2>1. (\E c \in Conns : StepOf(c)) \/ UNCHANGED vars
    BY Zenon DEF Next, StepOf, Finished
  <2> QED
    BY <1>2, <1>3, <2>1, Zenon
<1> QED
  BY <1>1, <1>4, Zenon DEF Base

\* What UniqueClientIps and NothingLeaks need of Base: a registered client's addresses
\* are those its key holds in the pools.
LEMMA BaseImplies ==
  Base => UniqueClientIps /\ NothingLeaks
<1> SUFFICES ASSUME Base PROVE UniqueClientIps /\ NothingLeaks
  BY Zenon
<1>1. \A k \in Keys : clients[k] # NoSession =>
        /\ clients[k].assigned_ip = ip_pool.in_use[k]
        /\ clients[k].assigned_ip6 = ip6_pool.in_use[k]
  <2> SUFFICES ASSUME NEW k \in Keys, clients[k] # NoSession
               PROVE  /\ clients[k].assigned_ip = ip_pool.in_use[k]
                      /\ clients[k].assigned_ip6 = ip6_pool.in_use[k]
    BY Zenon
  <2>1. PICK c \in Conns : h[c].key = k /\ pc[c] \in Up
    BY Zenon DEF Base, SoloInv, KeyOK
  <2>2. HandlerOK(c) /\ pc[c] \in Has4 /\ pc[c] \in Has6
    BY <2>1, Zenon DEF Base, SoloInv, Up, Has4, Has6
  <2>3. /\ h[c].assigned_ip = ip_pool.in_use[k]
        /\ h[c].assigned_ip6 = ip6_pool.in_use[k]
    BY <2>1, <2>2, Zenon DEF HandlerOK
  <2>4. clients[k] = [session_id |-> h[c].session_id, assigned_ip |-> h[c].assigned_ip,
                      assigned_ip6 |-> h[c].assigned_ip6]
    BY <2>1, <2>2, Zenon DEF HandlerOK
  <2> QED
    BY <2>3, <2>4
<1>2. UniqueClientIps
  <2>1. Exclusive(ip_pool) /\ Exclusive(ip6_pool)
    BY Zenon DEF Base, Inv, PoolInv, PoolSound
  <2>2. ASSUME NEW k \in Keys, NEW l \in Keys, k # l,
               clients[k] # NoSession, clients[l] # NoSession
        PROVE  /\ \/ clients[k].assigned_ip = NoIp
                  \/ clients[k].assigned_ip # clients[l].assigned_ip
               /\ \/ clients[k].assigned_ip6 = NoIp
                  \/ clients[k].assigned_ip6 # clients[l].assigned_ip6
    <3>1. /\ clients[k].assigned_ip = ip_pool.in_use[k]
          /\ clients[l].assigned_ip = ip_pool.in_use[l]
          /\ clients[k].assigned_ip6 = ip6_pool.in_use[k]
          /\ clients[l].assigned_ip6 = ip6_pool.in_use[l]
      BY <1>1, <2>2, Zenon
    <3>2. /\ ~(ip_pool.in_use[k] = ip_pool.in_use[l] /\ ip_pool.in_use[k] # NoIp)
          /\ ~(ip6_pool.in_use[k] = ip6_pool.in_use[l] /\ ip6_pool.in_use[k] # NoIp)
      BY <2>1, <2>2, Zenon DEF Exclusive
    <3> QED
      BY <3>1, <3>2, Zenon
  <2> QED
    BY <2>2, Zenon DEF UniqueClientIps
<1>3. ASSUME \A c \in Conns : pc[c] \in {"idle", "done"}
      PROVE  /\ active_connections = 0
             /\ \A k \in Keys : clients[k] = NoSession
             /\ \A a \in Addr4 : ip_to_endpoint[a] = NoKey
             /\ \A a \in Addr6 : ip6_to_endpoint[a] = NoKey
  <2>1. {c \in Conns : pc[c] \in Counted} = {}
    BY <1>3, Zenon DEF Counted, Admitted
  <2>2. active_connections = 0
    BY <2>1, FS_EmptySet, Zenon DEF Base, Inv, AdmissionSound
  <2>3. \A k \in Keys : clients[k] = NoSession
    BY <1>3, Zenon DEF Base, SoloInv, KeyOK, Up
  <2>4. /\ \A a \in Addr4 : ip_to_endpoint[a] = NoKey
        /\ \A a \in Addr6 : ip6_to_endpoint[a] = NoKey
    BY <1>3, Zenon DEF Base, SoloInv, EntriesOK, Routed4, Routed6
  <2> QED
    BY <2>2, <2>3, <2>4, Zenon
<1>4. NothingLeaks
  BY <1>3, Zenon DEF NothingLeaks, Base, SoloInv, KeyOK, Kept
<1> QED
  BY <1>2, <1>4, Zenon

\* Registered clients never share an address (handle_connection_inner), whatever their
\* number, the sizes of the networks and the interleaving.  The hypothesis is needed:
\* with overlapping reconnects two clients can (the run ServerSessions_duplicate).
THEOREM ClientIpsUnique ==
  ASSUME ~Overlapping
  PROVE  Spec => []UniqueClientIps
<1> QED
  BY BaseInit, BaseNext, BaseImplies, PTL DEF Spec

\* The cleanup of handle_connection_inner gives back everything but what the failed
\* write of a response keeps.
THEOREM NeverLeaks ==
  ASSUME ~Overlapping
  PROVE  Spec => []NothingLeaks
<1> QED
  BY BaseInit, BaseNext, BaseImplies, PTL DEF Spec

-----------------------------------------------------------------------------
(* The data plane. *)

ReaderType ==
  [at : {"idle", "lookup", "client"}, fam : {4, 6}, dst : Nat \cup {Outside},
   key : Keys \cup {NoKey}, holder : Conns \cup {NoConn},
   outcome : {"none", "no_route", "queued"}, to : Nat]

\* What the reader knows of the packet in hand while its holder stays up: the address
\* is the holder's, then the key is, and at the end the session is.
ReaderInv ==
  /\ reader \in ReaderType
  /\ reader.at # "idle" => reader.outcome = "none" /\ reader.dst \in Addr(reader.fam)
  /\ reader.at = "client" => reader.key \in Keys
  /\ reader.holder # NoConn =>
       /\ pc[reader.holder] = "live"
       /\ reader.at # "idle" => Assigned(reader.holder, reader.fam) = reader.dst
       /\ reader.at = "client" => reader.key = h[reader.holder].key
  /\ LiveReachable

\* The sessions and the data plane over them.
RoutingInv == Base /\ ReaderInv /\ OwnTrafficAccepted

\* The owner of a live session's address is that session's key.
LEMMA OwnerOfLive ==
  ASSUME Base, NEW c \in Conns, pc[c] = "live", NEW fam \in {4, 6},
         Assigned(c, fam) # NoIp
  PROVE  Owner(fam, Assigned(c, fam)) = h[c].key /\ h[c].key \in Keys
<1>1. HandlerOK(c) /\ h[c].key \in Keys
  BY Zenon DEF Base, SoloInv, Inv, TypeOK, Counted, Admitted
<1>2. /\ h[c].assigned_ip # NoIp => h[c].assigned_ip \in Nat
      /\ h[c].assigned_ip6 # NoIp => h[c].assigned_ip6 \in Nat
  BY Zenon DEF Base, Inv, TypeOK, Locals
<1>3. CASE fam = 4
  <2>1. h[c].assigned_ip # Outside /\ Assigned(c, fam) = h[c].assigned_ip
    BY <1>2, <1>3, RoutingAssumption DEF Assigned
  <2> QED
    BY <1>1, <1>3, <2>1, Zenon DEF Owner, HandlerOK, Routed4
<1>4. CASE fam = 6
  <2>1. h[c].assigned_ip6 # Outside /\ Assigned(c, fam) = h[c].assigned_ip6
    BY <1>2, <1>4, RoutingAssumption DEF Assigned
  <2> QED
    BY <1>1, <1>4, <2>1 DEF Owner, HandlerOK, Routed6
<1> QED
  BY <1>3, <1>4, Zenon

\* The registration of a live session's key is that session's.
LEMMA ClientOfLive ==
  ASSUME Base, NEW c \in Conns, pc[c] = "live"
  PROVE  /\ clients[h[c].key] # NoSession
         /\ clients[h[c].key].session_id = h[c].session_id
<1> DEFINE s == [session_id |-> h[c].session_id, assigned_ip |-> h[c].assigned_ip,
                 assigned_ip6 |-> h[c].assigned_ip6]
<1>1. s \in ClientState /\ s.session_id = h[c].session_id
  BY Zenon DEF Base, Inv, TypeOK, Locals, ClientState
<1>2. clients[h[c].key] = s
  BY Zenon DEF Base, SoloInv, HandlerOK, Up
<1> HIDE DEF s
<1> QED
  BY <1>1, <1>2, SessionAssumption, Zenon

\* A session that stays up keeps its locals.
LEMMA LiveUnchanged ==
  ASSUME Inv, Next, NEW d \in Conns, pc[d] = "live", pc'[d] = "live"
  PROVE  h'[d] = h[d]
<1>1. CASE \E c \in Conns : StepOf(c)
  <2>1. PICK c \in Conns : StepOf(c)
    BY <1>1, Zenon
  <2>2. CASE c # d
    BY <2>1, <2>2, Frame, Zenon
  <2>3. CASE c = d
    BY <2>1, <2>3, Zenon
       DEF StepOf, HandshakeFails, SessionEnds, Handler, Accept, Count, RejectFull,
          Allocate4, Allocate6, Respond, RespondFails,
          TakeSessionId, InsertClient, Map4, Map6, RemoveClient,
          Unmap4, Unmap6, Release4, Release6, Leave, Go
  <2> QED
    BY <2>2, <2>3, Zenon
<1>2. CASE UNCHANGED vars
  BY <1>2, Zenon DEF vars
<1> QED
  BY <1>1, <1>2, Zenon DEF Next, StepOf, Finished

\* Every step of the sessions, the reader and the inbound tasks keeps RoutingInv.
LEMMA RoutingStep ==
  ASSUME ~Overlapping
  PROVE  RoutingInv /\ [RoutingNext]_allvars => RoutingInv'
<1> SUFFICES ASSUME RoutingInv, [RoutingNext]_allvars PROVE RoutingInv'
  BY Zenon
<1>1. Base /\ ReaderInv /\ OwnTrafficAccepted /\ reader \in ReaderType
  BY Zenon DEF RoutingInv, ReaderInv
<1>2. Base'
  <2>1. [Next]_vars
    BY Zenon DEF RoutingNext, Sessions, ReadFrame, LookupEndpoint, LookupClient, CheckDest,
           CheckSource, allvars
  <2> QED
    BY <1>1, <2>1, BaseNext, Zenon
<1>3. ASSUME UNCHANGED vars, UNCHANGED reader
      PROVE  ReaderInv'
  BY <1>1, <1>3, Zenon DEF ReaderInv, LiveReachable, Assigned, vars
<1>4. ASSUME UNCHANGED inbound
      PROVE  OwnTrafficAccepted'
  BY <1>1, <1>4, Zenon DEF OwnTrafficAccepted
<1>5. CASE Sessions
  <2> DEFINE d == reader.holder
  <2>1. OwnTrafficAccepted'
    BY <1>1, <1>5, Zenon DEF Sessions, OwnTrafficAccepted, InboundDone
  <2>2. ASSUME d = NoConn
        PROVE  ReaderInv'
    <3>1. reader' = reader
      BY <1>5, <2>2, Zenon DEF Sessions
    <3> QED
      BY <1>1, <2>2, <3>1, Zenon DEF ReaderInv, LiveReachable
  <2>3. ASSUME d # NoConn, pc'[d] = "live"
        PROVE  ReaderInv'
    <3>1. d \in Conns /\ pc[d] = "live" /\ reader' = reader /\ Next
      BY <1>1, <1>5, <2>3, Zenon DEF Sessions, ReaderInv, ReaderType
    <3>2. h'[d] = h[d]
      BY <1>1, <2>3, <3>1, LiveUnchanged, Zenon DEF Base
    <3> QED
      BY <1>1, <2>3, <3>1, <3>2, Zenon DEF ReaderInv, LiveReachable, Assigned
  <2>4. ASSUME d # NoConn, pc'[d] # "live"
        PROVE  ReaderInv'
    <3>1. reader' = [reader EXCEPT !.holder = NoConn, !.to = 0]
      BY <1>5, <2>4, Zenon DEF Sessions
    <3>2. /\ reader' \in ReaderType /\ reader'.holder = NoConn
          /\ reader'.at = reader.at /\ reader'.outcome = reader.outcome
          /\ reader'.fam = reader.fam /\ reader'.dst = reader.dst /\ reader'.key = reader.key
      BY <1>1, <3>1, Zenon DEF ReaderType
    <3> QED
      BY <1>1, <3>2, Zenon DEF ReaderInv, LiveReachable
  <2> QED
    BY <1>2, <2>1, <2>2, <2>3, <2>4, Zenon DEF RoutingInv
<1>6. CASE ReadFrame
  <2>0. PICK fam \in Families : \E a \in Addr(fam) :
          reader' = [at |-> "lookup", fam |-> fam, dst |-> a, key |-> NoKey,
                     holder |-> Holder(fam, a), outcome |-> "none", to |-> 0]
    BY <1>6, Zenon DEF ReadFrame
  <2>1. PICK a \in Addr(fam) :
          reader' = [at |-> "lookup", fam |-> fam, dst |-> a, key |-> NoKey,
                     holder |-> Holder(fam, a), outcome |-> "none", to |-> 0]
    BY <2>0, Zenon
  <2>2. fam \in {4, 6} /\ a \in Nat
    BY DEF Families, Addr, Addr4, Addr6
  <2>3. /\ Holder(fam, a) \in Conns \cup {NoConn}
        /\ Holder(fam, a) # NoConn => /\ pc[Holder(fam, a)] = "live"
                                      /\ Assigned(Holder(fam, a), fam) = a
    BY Zenon DEF Holder
  <2>4. UNCHANGED vars
    BY <1>6, Zenon DEF ReadFrame
  <2>5. ReaderInv'
    BY <2>1, <2>2, <2>3, <2>4, Zenon
       DEF ReaderInv, ReaderType, LiveReachable, Assigned, vars
  <2> QED
    BY <1>2, <1>4, <1>6, <2>5, Zenon DEF RoutingInv, ReadFrame
<1>7. CASE LookupEndpoint
  <2> DEFINE k == Owner(reader.fam, reader.dst)
             d == reader.holder
  <2>1. /\ reader.at = "lookup" /\ UNCHANGED vars /\ UNCHANGED inbound
        /\ reader' = IF k = NoKey THEN ReaderDone("no_route", 0, d)
                     ELSE [reader EXCEPT !.at = "client", !.key = k]
    BY <1>7, Zenon DEF LookupEndpoint
  <2>2. reader.fam \in {4, 6} /\ reader.dst \in Addr(reader.fam) /\ d \in Conns \cup {NoConn}
    BY <1>1, <2>1, Zenon DEF ReaderInv, ReaderType
  <2>3. k \in Keys \cup {NoKey}
    BY <1>1, <2>2, Zenon DEF Owner, Addr, Base, Inv, TypeOK
  <2>4. d # NoConn => d \in Conns /\ pc[d] = "live" /\ k = h[d].key /\ k # NoKey
    <3> SUFFICES ASSUME d # NoConn
                 PROVE  d \in Conns /\ pc[d] = "live" /\ k = h[d].key /\ k # NoKey
      BY Zenon
    <3>1. d \in Conns /\ pc[d] = "live" /\ Assigned(d, reader.fam) = reader.dst
      BY <1>1, <2>1, <2>2, Zenon DEF ReaderInv
    <3>2. reader.dst # NoIp
      BY <2>2, NoIpAssumption, ServerAssumption DEF Addr, Addr4, Addr6
    <3>3. k = h[d].key /\ k \in Keys
      BY <1>1, <2>2, <3>1, <3>2, OwnerOfLive, Zenon
    <3> QED
      BY <3>1, <3>3, ServerAssumption, Zenon
  <2> HIDE DEF k
  <2>5. CASE k = NoKey
    <3>1. reader' = ReaderDone("no_route", 0, NoConn)
      BY <2>1, <2>2, <2>4, <2>5, Zenon
    <3>2. ReaderInv'
      BY <3>1, Zenon DEF ReaderDone, ReaderInv, ReaderType, LiveReachable
    <3> QED
      BY <1>2, <1>4, <2>1, <3>2, Zenon DEF RoutingInv
  <2>6. CASE k # NoKey
    <3>1. /\ reader' \in ReaderType /\ reader'.at = "client" /\ reader'.key = k
          /\ reader'.holder = d /\ reader'.fam = reader.fam /\ reader'.dst = reader.dst
          /\ reader'.outcome = reader.outcome
      BY <1>1, <2>1, <2>3, <2>6, Zenon DEF ReaderType
    <3>2. ReaderInv'
      BY <1>1, <2>1, <2>2, <2>3, <2>4, <2>6, <3>1, Zenon
         DEF ReaderInv, LiveReachable, Assigned, vars
    <3> QED
      BY <1>2, <1>4, <2>1, <3>2, Zenon DEF RoutingInv
  <2> QED
    BY <2>5, <2>6, Zenon
<1>8. CASE LookupClient
  <2> DEFINE s == clients[reader.key]
             d == reader.holder
  <2>1. /\ reader.at = "client" /\ UNCHANGED vars /\ UNCHANGED inbound
        /\ reader' = IF s = NoSession THEN ReaderDone("no_route", 0, d)
                     ELSE ReaderDone("queued", s.session_id, d)
    BY <1>8, Zenon DEF LookupClient
  <2>2. d \in Conns \cup {NoConn} /\ (s # NoSession => s.session_id \in Nat)
    BY <1>1, <2>1, Zenon DEF ReaderInv, ReaderType, Base, Inv, TypeOK, ClientState
  <2>3. d # NoConn => /\ pc[d] = "live" /\ s # NoSession /\ s.session_id = h[d].session_id
    BY <1>1, <2>1, <2>2, ClientOfLive, Zenon DEF ReaderInv
  <2> HIDE DEF s
  <2>4. ReaderInv'
    BY <2>1, <2>2, <2>3, Zenon DEF ReaderDone, ReaderInv, ReaderType, LiveReachable, vars
  <2> QED
    BY <1>2, <1>4, <2>1, <2>4, Zenon DEF RoutingInv
<1>9. ASSUME NEW c \in Conns, CheckSource(c)
      PROVE  RoutingInv'
  <2>1. ASSUME NEW fam \in {4, 6}, NEW src \in {Outside, Assigned(c, fam)} \ {NoIp}
        PROVE  Owner(fam, src) \in {NoKey, h[c].key}
    <3>1. pc[c] = "live"
      BY <1>9, Zenon DEF CheckSource
    <3>2. CASE src = Outside
      BY <3>2, Zenon DEF Owner
    <3>3. CASE src = Assigned(c, fam)
      BY <1>1, <2>1, <3>1, <3>3, OwnerOfLive, Zenon
    <3> QED
      BY <2>1, <3>2, <3>3, Zenon
  <2>2. Families \subseteq {4, 6}
    BY Zenon DEF Families
  <2>3. inbound'.outcome = "none"
    <3>1. PICK fam \in Families :
            \E src \in {Outside, Assigned(c, fam)} \ {NoIp}, dst \in {Outside} \cup Addr(fam) :
              inbound' = IF Owner(fam, src) \in {NoKey, h[c].key}
                         THEN [at |-> "dest", conn |-> c, fam |-> fam, dst |-> dst,
                               outcome |-> "none"]
                         ELSE InboundDone("spoofed", dst)
      BY <1>9, Zenon DEF CheckSource
    <3>2. PICK src \in {Outside, Assigned(c, fam)} \ {NoIp}, dst \in {Outside} \cup Addr(fam) :
            inbound' = IF Owner(fam, src) \in {NoKey, h[c].key}
                       THEN [at |-> "dest", conn |-> c, fam |-> fam, dst |-> dst,
                             outcome |-> "none"]
                       ELSE InboundDone("spoofed", dst)
      BY <3>1, Zenon
    <3>3. Owner(fam, src) \in {NoKey, h[c].key}
      BY <2>1, <2>2, <3>2, Zenon
    <3> QED
      BY <3>2, <3>3, Zenon
  <2> QED
    BY <1>2, <1>3, <1>9, <2>3, Zenon DEF RoutingInv, OwnTrafficAccepted, CheckSource
<1>10. CASE CheckDest
  <2>1. inbound'.outcome # "spoofed" /\ (inbound'.outcome = "blocked" => inbound'.dst # Outside)
    BY <1>10, Zenon DEF CheckDest, InboundDone, Owner
  <2> QED
    BY <1>2, <1>3, <1>10, <2>1, Zenon DEF RoutingInv, OwnTrafficAccepted, CheckDest
<1>11. CASE UNCHANGED allvars
  BY <1>2, <1>3, <1>4, <1>11, Zenon DEF RoutingInv, allvars, rvars
<1> QED
  BY <1>5, <1>6, <1>7, <1>8, <1>9, <1>10, <1>11, Zenon DEF RoutingNext

\* RoutingInv holds initially.
LEMMA RoutingStart ==
  RoutingInit => RoutingInv
<1> SUFFICES ASSUME RoutingInit PROVE RoutingInv
  BY Zenon
<1>1. Base
  BY BaseInit, Zenon DEF RoutingInit
<1>2. reader = [at |-> "idle", fam |-> 4, dst |-> Outside, key |-> NoKey,
                holder |-> NoConn, outcome |-> "none", to |-> 0]
  BY Zenon DEF RoutingInit, ReaderDone
<1>3. reader \in ReaderType
  BY <1>2, Zenon DEF ReaderType
<1>4. ReaderInv
  BY <1>2, <1>3, Zenon DEF ReaderInv, LiveReachable
<1>5. OwnTrafficAccepted
  BY Zenon DEF RoutingInit, InboundDone, OwnTrafficAccepted
<1> QED
  BY <1>1, <1>4, <1>5, Zenon DEF RoutingInv

\* A packet for a session that stays up is queued for exactly that session
\* (run_tun_reader), whatever other sessions do between its two lookups.
THEOREM LiveAlwaysReachable ==
  ASSUME ~Overlapping
  PROVE  RoutingSpec => []LiveReachable
<1>1. RoutingInv => LiveReachable
  BY Zenon DEF RoutingInv, ReaderInv
<1> QED
  BY <1>1, RoutingStart, RoutingStep, PTL DEF RoutingSpec

\* A client's own packets to the outside are always passed on (handle_client_data): no
\* entry of an earlier tenant of its address makes them look like another's.
THEOREM OwnTrafficAlwaysAccepted ==
  ASSUME ~Overlapping
  PROVE  RoutingSpec => []OwnTrafficAccepted
<1>1. RoutingInv => OwnTrafficAccepted
  BY Zenon DEF RoutingInv
<1> QED
  BY <1>1, RoutingStart, RoutingStep, PTL DEF RoutingSpec
=============================================================================
