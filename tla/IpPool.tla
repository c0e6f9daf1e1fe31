------------------------------- MODULE IpPool -------------------------------
(***************************************************************************)
(* The server's address pools (tunnel/server.rs, IpPool and Ip6Pool) as     *)
(* pure operators on a pool value.  An address is its offset from the       *)
(* network address: 0 is the network address, size - 1 the last one.        *)
(*                                                                          *)
(* `allocate` returns exactly what it leaves in `in_use` under the key, so  *)
(* Allocate only returns the new pool and callers read in_use[k].  The      *)
(* `reserved` set of the IPv4 pool is filled by tests only and is left out; *)
(* without it the IPv4 pool and the sequential IPv6 pool are one algorithm. *)
(***************************************************************************)
EXTENDS Integers, Sequences

CONSTANTS
  Endpoints,      \* iroh node ids of clients
  Devices,        \* device ids
  DerivedSuffix,  \* the hash suffix of each node id (derive_ip6_suffix)
  NoIp            \* "no address": absent from in_use, or Option::None

ASSUME SuffixAssumption == DerivedSuffix \in [Endpoints -> Nat]
ASSUME NoIpAssumption == NoIp \notin Int

\* A client is known by its node id and its device id.
Keys == Endpoints \X Devices

Strategies == {"sequential", "node_id"}

PoolType ==
  [strategy : Strategies, size : Nat, server_ip : Nat, next_ip : Nat,
   max_ip : Int, released : Seq(Nat), in_use : [Keys -> Nat \cup {NoIp}]]

\* `server` is the configured server address, by default offset 1; in node-id
\* mode it is the address derived from the server's own node id.
NewPool(strategy, size, server) ==
  [strategy |-> strategy, size |-> size, server_ip |-> server,
   next_ip |-> server + 1, max_ip |-> size - 2, released |-> <<>>,
   in_use |-> [k \in Keys |-> NoIp]]

InUse(p) == {p.in_use[k] : k \in Keys} \ {NoIp}

\* The address of a node id in node-id mode: its suffix masked to the host bits.
DerivedIp(p, k) == DerivedSuffix[k[1]] % p.size

\* A slip: the bound on fresh addresses is off by one.
AllocatePastEnd(p, k) ==
  IF p.in_use[k] # NoIp \/ p.released # <<>> \/ p.next_ip > p.max_ip + 1 THEN p
  ELSE [p EXCEPT !.in_use = [@ EXCEPT ![k] = p.next_ip], !.next_ip = @ + 1]

AllocateSequential(p, k) ==
  CASE p.in_use[k] # NoIp -> p
    [] p.in_use[k] = NoIp /\ p.released # <<>> ->
         [p EXCEPT !.in_use = [@ EXCEPT ![k] = p.released[Len(p.released)]],
                   !.released = SubSeq(@, 1, Len(@) - 1)]
    [] p.in_use[k] = NoIp /\ p.released = <<>> /\ p.next_ip <= p.max_ip ->
         [p EXCEPT !.in_use = [@ EXCEPT ![k] = p.next_ip],
                   !.next_ip = @ + 1]
    [] OTHER -> p

\* A slip: duplicates of a derived address are not rejected.
AllocateDuplicate(p, k) ==
  IF p.in_use[k] # NoIp \/ DerivedIp(p, k) \in {0, p.server_ip} THEN p
  ELSE [p EXCEPT !.in_use = [@ EXCEPT ![k] = DerivedIp(p, k)]]

\* Refused: the subnet-router anycast address, the server's own address, and an
\* address another key holds (the second device of one node id derives the same).
AllocateNodeId(p, k) ==
  IF \/ p.in_use[k] # NoIp
     \/ DerivedIp(p, k) \in {0, p.server_ip} \cup InUse(p)
  THEN p
  ELSE [p EXCEPT !.in_use = [@ EXCEPT ![k] = DerivedIp(p, k)]]

Allocate(p, k) ==
  IF p.strategy = "sequential" THEN AllocateSequential(p, k)
                               ELSE AllocateNodeId(p, k)

\* A slip: the address goes back on the free list, but the key keeps it.
ReleaseKeepsEntry(p, k) ==
  IF p.in_use[k] = NoIp THEN p
  ELSE [p EXCEPT !.released = IF p.strategy = "sequential"
                              THEN Append(@, p.in_use[k]) ELSE @]

Release(p, k) ==
  IF p.in_use[k] = NoIp THEN p
  ELSE [p EXCEPT !.in_use = [@ EXCEPT ![k] = NoIp],
                 !.released = IF p.strategy = "sequential"
                              THEN Append(@, p.in_use[k]) ELSE @]

-----------------------------------------------------------------------------
(* What a pool promises. *)

\* No two keys hold the same address.
Exclusive(p) ==
  \A k, l \in Keys : p.in_use[k] = p.in_use[l] /\ p.in_use[k] # NoIp => k = l

\* A free address is free once, and no key holds it.
FreeListSound(p) ==
  \A i \in 1..Len(p.released) :
     /\ \A k \in Keys : p.in_use[k] # p.released[i]
     /\ \A j \in 1..Len(p.released) : p.released[i] = p.released[j] => i = j

\* a is an address the pool may hand out: never the network address nor the
\* server's own, and in sequential mode never the last one of the network.
HandsOut(p, a) ==
  IF p.strategy = "sequential"
  THEN p.server_ip < a /\ a < p.next_ip /\ a <= p.max_ip
  ELSE a # 0 /\ a # p.server_ip

InRange(p) ==
  /\ \A k \in Keys : p.in_use[k] # NoIp => HandsOut(p, p.in_use[k])
  /\ \A i \in 1..Len(p.released) : HandsOut(p, p.released[i])

\* The pool never loses an address: each one it ever handed out is held or free.
NothingLost(p) ==
  p.strategy = "sequential" =>
    \A a \in (p.server_ip + 1)..(p.next_ip - 1) :
       \/ \E k \in Keys : p.in_use[k] = a
       \/ \E i \in 1..Len(p.released) : p.released[i] = a

PoolSound(p) ==
  Exclusive(p) /\ FreeListSound(p) /\ InRange(p) /\ NothingLost(p)
=============================================================================
