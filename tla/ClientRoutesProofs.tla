-------------------------- MODULE ClientRoutesProofs ------------------------
(***************************************************************************)
(* Proofs about ClientRoutes for any routes, addresses and host table.      *)
(*                                                                          *)
(* Off the tunnel the table is at all times the host's own routes, those    *)
(* left behind and those the manager's guards own, each of them there once  *)
(* and of one owner; into the tunnel lead routes of the VPN only (TableInv).*)
(* What the manager holds or is about to hold leads off the tunnel          *)
(* (PinInv), and what was promised before the VPN routes went up is kept    *)
(* (SetupInv).                                                              *)
(***************************************************************************)
EXTENDS ClientRoutes, ProofFacts

Route == [dst : Seq({0, 1}), dev : Devices \cup {"tun"}]

\* The addresses of the transport that need a bypass.
Needed == Required(Bootstrap \cup Published)

Guard == [dst : Needed, dev : Devices, owned : BOOLEAN]

\* The guards there are, that of a command that has just returned included.
Guards == active \cup (IF mgr = "commit" THEN {cur} ELSE {})

Owned(G) == {g \in G : g.owned}

Pins == {Pin(g) : g \in Owned(Guards)}

\* The routes add_routes installs, as a set.
Wanted == ToSet(VpnRoutes)

\* The routes that do not lead into the tunnel.
Off(routeset) == {r \in routeset : r.dev # "tun"}

\* Every route in the table has one owner.
TableInv ==
  /\ Off(table) = SysRoutes \cup orphaned \cup Pins
  /\ table \subseteq Route
  /\ \A r, q \in table : r.dst = q.dst => r = q
  /\ SysRoutes \cap (orphaned \cup Pins) = {} /\ orphaned \cap Pins = {}
  /\ \A r \in table : r.dev = "tun" => r.dst \in Wanted
  /\ \A r \in added : r.dev = "tun"
  /\ added \subseteq Route
  /\ \A r \in orphaned \cup Pins : r.dst \in Needed

\* The manager pins addresses that need it, off the tunnel.
PinInv ==
  /\ mgr \in {"none", "idle", "work", "add", "commit"}
  /\ todo \subseteq Needed /\ chan \in Seq(SUBSET Published)
  /\ active \subseteq Guard
  /\ mgr \in {"add", "commit"} => cur \in Guard
  /\ mgr = "add" => ~cur.owned
  /\ \A g \in Guards : (~g.owned /\ g.dst \in Wanted)
                         \/ \E r \in Off(table) : r.dst = g.dst

\* Setup goes through the bootstrap addresses and then through the routes.
SetupInv ==
  /\ pc \in {"down", "exited"} => mgr = "none" /\ table = Off(table)
  /\ mgr = "none" => active = {}
  /\ routes \in Configurations
  /\ vtodo \in Seq(Seq({0, 1})) /\ ToSet(vtodo) \subseteq Wanted
  /\ pc = "boot" => mgr \in {"work", "add", "commit"} /\ Wanted \subseteq ToSet(vtodo)
  /\ pc \in {"install", "running"} => \A d \in Wanted : d \in ToSet(vtodo) \/ Exists(d)
  /\ pc = "running" => vtodo = <<>>
  /\ pc \in {"boot", "install", "running"} =>
       \A a \in Required(Bootstrap) :
         \/ a \in failed \/ \E g \in active : g.dst = a
         \/ pc = "boot" /\ a \in todo
-----------------------------------------------------------------------------
(* Sequences. *)

\* A prefix of a sequence is its beginning.
LEMMA PrefixBits ==
  ASSUME NEW s \in Seq({0, 1}), NEW t \in Seq({0, 1})
  PROVE  IsPrefix(s, t) <=> Len(s) <= Len(t) /\ \A i \in 1..Len(s) : s[i] = t[i]
<1>1. SubSeq(s, 1, Len(s)) = [i \in 1..Len(s) |-> s[i]]
  OBVIOUS
<1>2. ASSUME Len(s) <= Len(t)
      PROVE  SubSeq(t, 1, Len(s)) = [i \in 1..Len(s) |-> t[i]]
  BY <1>2
<1>3. ASSUME Len(s) <= Len(t)
      PROVE  SubSeq(s, 1, Len(s)) = SubSeq(t, 1, Len(s)) <=>
               \A i \in 1..Len(s) : s[i] = t[i]
  BY <1>1, <1>2, <1>3, Zenon
<1> QED
  BY <1>3, Zenon DEF IsPrefix

\* A concatenation has the elements of both its parts.
LEMMA ToSetConcat ==
  ASSUME NEW X, NEW s \in Seq(X), NEW t \in Seq(X)
  PROVE  ToSet(s \o t) = ToSet(s) \cup ToSet(t)
<1>1. ASSUME NEW x \in ToSet(s \o t)
      PROVE  x \in ToSet(s) \cup ToSet(t)
  <2>1. PICK i \in 1..(Len(s) + Len(t)) : x = (s \o t)[i]
    BY <1>1 DEF ToSet
  <2>2. CASE i <= Len(s)
    BY <2>1, <2>2 DEF ToSet
  <2>3. CASE i > Len(s)
    <3>1. x = t[i - Len(s)] /\ i - Len(s) \in 1..Len(t)
      BY <2>1, <2>3
    <3> QED
      BY <3>1 DEF ToSet
  <2> QED
    BY <2>1, <2>2, <2>3
<1>2. ASSUME NEW x \in ToSet(s)
      PROVE  x \in ToSet(s \o t)
  <2>1. PICK i \in 1..Len(s) : x = s[i]
    BY <1>2 DEF ToSet
  <2>2. x = (s \o t)[i] /\ i \in 1..Len(s \o t)
    BY <2>1
  <2> QED
    BY <2>2 DEF ToSet
<1>3. ASSUME NEW x \in ToSet(t)
      PROVE  x \in ToSet(s \o t)
  <2>1. PICK i \in 1..Len(t) : x = t[i]
    BY <1>3 DEF ToSet
  <2>2. x = (s \o t)[i + Len(s)] /\ i + Len(s) \in 1..Len(s \o t)
    BY <2>1
  <2> QED
    BY <2>2 DEF ToSet
<1> QED
  BY <1>1, <1>2, <1>3, Zenon

\* What flattening a sequence of sequences computes, as a recursive function.
Flattens(f, s) ==
  f = [i \in 1..Len(s) |-> IF i = 1 THEN s[i] ELSE f[i-1] \o s[i]]

\* There is such a function, by extending the one for a shorter sequence.
LEMMA FlattenExists ==
  ASSUME NEW X, NEW s \in Seq(Seq(X)), Len(s) > 0
  PROVE  \E f : Flattens(f, s)
<1> DEFINE Steps(f, n) ==
             /\ f \in [1..n -> Seq(X)]
             /\ \A i \in 1..n : f[i] = IF i = 1 THEN s[i] ELSE f[i-1] \o s[i]
           Bad == {n \in 1..Len(s) : ~ \E f : Steps(f, n)}
<1>1. Steps([i \in 1..1 |-> s[1]], 1)
  OBVIOUS
<1>2. ASSUME NEW n \in 1..Len(s), n # 1, NEW g, Steps(g, n - 1)
      PROVE  \E f : Steps(f, n)
  <2> DEFINE h == [i \in 1..n |-> IF i = n THEN g[n-1] \o s[n] ELSE g[i]]
  <2>1. n \in 1..n /\ n - 1 \in 1..n /\ n - 1 # n /\ s[n] \in Seq(X) /\ g[n-1] \in Seq(X)
    BY <1>2
  <2>2. h \in [1..n -> Seq(X)]
    BY <1>2, <2>1
  <2>3. ASSUME NEW i \in 1..n
        PROVE  h[i] = IF i = 1 THEN s[i] ELSE h[i-1] \o s[i]
    <3>1. CASE i = n
      <4>0. h[n] = g[n-1] \o s[n]
        BY <2>1, Zenon
      <4>1. h[n-1] = g[n-1]
        BY <2>1, Zenon
      <4>2. n # 1
        BY <1>2, Zenon
      <4> HIDE DEF h, Steps
      <4> QED
        BY <3>1, <4>0, <4>1, <4>2, Zenon
    <3>2. CASE i # n
      <4>1. i \in 1..(n-1) /\ h[i] = g[i]
        BY <1>2, <3>2
      <4>2. i # 1 => i - 1 \in 1..n /\ i - 1 # n
        BY <1>2
      <4>3. i # 1 => h[i-1] = g[i-1]
        BY <4>2, Zenon
      <4> QED
        BY <1>2, <4>1, <4>3, Zenon
    <3> QED
      BY <3>1, <3>2, Zenon
  <2>4. Steps(h, n)
    BY <2>2, <2>3, Zenon
  <2> HIDE DEF h, Steps
  <2> QED
    BY <2>4, Zenon
<1>3. Steps([i \in 1..1 |-> s[1]], 1) => \E f : Steps(f, 1)
  <2> HIDE DEF Steps
  <2> QED
    BY Zenon
<1>4. \E f : Steps(f, Len(s))
  <2> SUFFICES ASSUME ~ \E f : Steps(f, Len(s)) PROVE FALSE
    BY Zenon
  <2> HIDE DEF Steps
  <2>1. Bad \subseteq Nat /\ Len(s) \in Bad
    OBVIOUS
  <2>2. \A n : n \in Bad <=> n \in 1..Len(s) /\ ~ \E f : Steps(f, n)
    BY Zenon
  <2> HIDE DEF Bad
  <2>3. PICK n \in Bad : \A m \in Bad : n <= m
    BY <2>1, LeastExists, Zenon
  <2>4. n \in 1..Len(s) /\ n # 1
    BY <1>1, <1>3, <2>2, <2>3, Zenon
  <2>5. n - 1 \in 1..Len(s) /\ ~(n <= n - 1)
    BY <2>4
  <2>6. \E f : Steps(f, n - 1)
    BY <2>2, <2>3, <2>5, Zenon
  <2> QED
    BY <1>2, <2>2, <2>3, <2>4, <2>6, Zenon
<1>5. PICK f : Steps(f, Len(s))
  BY <1>4, Zenon
<1>6. f = [i \in 1..Len(s) |-> f[i]]
  BY <1>5, Zenon
<1>7. \A i \in 1..Len(s) : f[i] = IF i = 1 THEN s[i] ELSE f[i-1] \o s[i]
  BY <1>5, Zenon
<1>8. Flattens(f, s)
  BY <1>6, <1>7, Zenon DEF Flattens
<1> QED
  BY <1>8, Zenon

\* FlattenSeq is a sequence of exactly the elements of the sequences it is given.
LEMMA FlattenIs ==
  ASSUME NEW X, NEW s \in Seq(Seq(X))
  PROVE  /\ FlattenSeq(s) \in Seq(X)
         /\ ToSet(FlattenSeq(s)) = UNION {ToSet(s[i]) : i \in 1..Len(s)}
<1> DEFINE All(n) == UNION {ToSet(s[i]) : i \in 1..n}
<1>1. CASE Len(s) = 0
  BY <1>1 DEF FlattenSeq, ToSet
<1>2. CASE Len(s) > 0
  <2> DEFINE F == CHOOSE f : Flattens(f, s)
             Good(n) == F[n] \in Seq(X) /\ ToSet(F[n]) = All(n)
             Bad == {n \in 1..Len(s) : ~Good(n)}
  <2>1. Flattens(F, s)
    BY <1>2, FlattenExists, Zenon
  <2>2. \A i \in 1..Len(s) : F[i] = IF i = 1 THEN s[i] ELSE F[i-1] \o s[i]
    BY <2>1, Zenon DEF Flattens
  <2>3. FlattenSeq(s) = F[Len(s)]
    BY <1>2 DEF FlattenSeq, Flattens
  <2> HIDE DEF F
  <2>4. \A i \in 1..Len(s) : s[i] \in Seq(X)
    OBVIOUS
  <2>5. Good(1)
    <3>1. 1 \in 1..Len(s) /\ 1..1 = {1}
      BY <1>2
    <3>2. F[1] = s[1] /\ All(1) = ToSet(s[1])
      BY <2>2, <3>1, Zenon
    <3> QED
      BY <2>4, <3>1, <3>2, Zenon
  <2>6. ASSUME NEW n \in 1..Len(s), n # 1, Good(n - 1)
        PROVE  Good(n)
    <3>1. F[n] = F[n-1] \o s[n] /\ s[n] \in Seq(X) /\ F[n-1] \in Seq(X)
      BY <2>2, <2>4, <2>6, Zenon
    <3>2. 1..n = (1..(n-1)) \cup {n}
      OBVIOUS
    <3>3. All(n) = All(n-1) \cup ToSet(s[n])
      BY <3>2, Zenon
    <3>4. ToSet(F[n]) = ToSet(F[n-1]) \cup ToSet(s[n])
      BY <3>1, ToSetConcat
    <3>5. F[n] \in Seq(X)
      BY <3>1
    <3> QED
      BY <2>6, <3>3, <3>4, <3>5, Zenon
  <2> HIDE DEF Good
  <2>7. Good(Len(s))
    <3> SUFFICES ASSUME ~Good(Len(s)) PROVE FALSE
      BY Zenon
    <3>1. Bad \subseteq Nat /\ Len(s) \in Bad
      BY <1>2
    <3>2. \A n : n \in Bad <=> n \in 1..Len(s) /\ ~Good(n)
      BY Zenon
    <3> HIDE DEF Bad
    <3>3. PICK n \in Bad : \A m \in Bad : n <= m
      BY <3>1, LeastExists, Zenon
    <3>4. n \in 1..Len(s) /\ n # 1
      BY <2>5, <3>2, <3>3, Zenon
    <3>5. n - 1 \in 1..Len(s) /\ ~(n <= n - 1)
      BY <3>4
    <3>6. Good(n - 1)
      BY <3>2, <3>3, <3>5, Zenon
    <3> QED
      BY <2>6, <3>2, <3>3, <3>4, <3>6, Zenon
  <2> QED
    BY <2>3, <2>7, Zenon DEF Good
<1> QED
  BY <1>1, <1>2

-----------------------------------------------------------------------------
(* The kernel's table. *)

\* A prefix of the same length is the address itself.
LEMMA PrefixSame ==
  ASSUME NEW s \in Seq({0, 1}), NEW t \in Seq({0, 1}), IsPrefix(s, t), Len(t) <= Len(s)
  PROVE  s = t
<1>1. Len(s) = Len(t) /\ \A i \in 1..Len(s) : s[i] = t[i]
  BY PrefixBits
<1> QED
  BY <1>1

\* Two prefixes of one address that are of the same length are equal.
LEMMA PrefixBoth ==
  ASSUME NEW s \in Seq({0, 1}), NEW t \in Seq({0, 1}), NEW a \in Seq({0, 1}),
         IsPrefix(s, a), IsPrefix(t, a), Len(s) <= Len(t), Len(t) <= Len(s)
  PROVE  s = t
<1>1. Len(s) = Len(t)
  OBVIOUS
<1>2. \A i \in 1..Len(s) : s[i] = t[i]
  BY <1>1, PrefixBits
<1> QED
  BY <1>1, <1>2

\* Every address is a prefix of itself, and the empty prefix one of every address.
LEMMA PrefixSelf ==
  ASSUME NEW s \in Seq({0, 1})
  PROVE  IsPrefix(s, s) /\ IsPrefix(<<>>, s)
<1>1. IsPrefix(s, s)
  BY DEF IsPrefix
<1>2. SubSeq(<<>>, 1, 0) = <<>> /\ SubSeq(s, 1, 0) = <<>> /\ Len(<<>>) = 0
  OBVIOUS
<1>3. IsPrefix(<<>>, s)
  BY <1>2 DEF IsPrefix
<1> QED
  BY <1>1, <1>3, Zenon

\* The lookup finds a longest prefix, if the table has one at all.
LEMMA LookupIs ==
  ASSUME table \subseteq Route, NEW a \in Seq({0, 1}),
         \E r \in table : IsPrefix(r.dst, a)
  PROVE  /\ Lookup(a) \in table /\ IsPrefix(Lookup(a).dst, a)
         /\ \A q \in table : IsPrefix(q.dst, a) => Len(q.dst) <= Len(Lookup(a).dst)
<1> DEFINE Hits == {r \in table : IsPrefix(r.dst, a)}
           Gaps == {Len(a) - Len(r.dst) : r \in Hits}
<1>1. \A r \in Hits : Len(r.dst) \in Nat /\ Len(r.dst) <= Len(a)
  BY DEF Route, IsPrefix
<1>2. Len(a) \in Nat
  OBVIOUS
<1>3. Gaps \subseteq Nat /\ Gaps # {}
  BY <1>1, <1>2
<1> HIDE DEF Gaps
<1>4. PICK x \in Gaps : \A y \in Gaps : x <= y
  BY <1>3, LeastExists, Zenon
<1>5. PICK r \in Hits : x = Len(a) - Len(r.dst)
  BY <1>4, Zenon DEF Gaps
<1>6. ASSUME NEW q \in Hits
      PROVE  Len(q.dst) <= Len(r.dst)
  <2>1. Len(a) - Len(r.dst) <= Len(a) - Len(q.dst)
    BY <1>4, <1>5, Zenon DEF Gaps
  <2> QED
    BY <1>1, <1>2, <1>5, <2>1
<1>7. r \in table /\ IsPrefix(r.dst, a)
      /\ \A q \in table : IsPrefix(q.dst, a) => Len(q.dst) <= Len(r.dst)
  BY <1>5, <1>6, Zenon
<1> HIDE DEF Hits
<1> QED
  BY <1>7, Zenon DEF Lookup

\* An address with a host route of its own is looked up there.
LEMMA LookupOwn ==
  ASSUME table \subseteq Route, \A r, q \in table : r.dst = q.dst => r = q,
         NEW r \in table
  PROVE  Lookup(r.dst) = r
<1>1. r.dst \in Seq({0, 1}) /\ IsPrefix(r.dst, r.dst)
  BY PrefixSelf, Zenon DEF Route
<1>2. /\ Lookup(r.dst) \in table /\ IsPrefix(Lookup(r.dst).dst, r.dst)
      /\ Len(r.dst) <= Len(Lookup(r.dst).dst)
  BY <1>1, LookupIs, Zenon
<1>3. Lookup(r.dst).dst \in Seq({0, 1})
  BY <1>2, Zenon DEF Route
<1>4. Lookup(r.dst).dst = r.dst
  BY <1>1, <1>2, <1>3, PrefixSame, Zenon
<1> QED
  BY <1>2, <1>4, Zenon

-----------------------------------------------------------------------------
(* Every step keeps the owners of the routes. *)

\* What add_routes is asked for: the gateways, and what expanding the configured
\* routes gives.
LEMMA Expanded ==
  ASSUME routes \in Configurations
  PROVE  /\ VpnRoutes \in Seq(Seq({0, 1})) /\ ToSet(Gateways) \subseteq Wanted
         /\ \A i \in 1..Len(routes) : ToSet(expand_default_route(routes[i])) \subseteq Wanted
<1> DEFINE ex == [i \in 1..Len(routes) |-> expand_default_route(routes[i])]
           Bits == Seq({0, 1})
<1>1. routes \in Seq(Bits) /\ Gateways \in Seq(Bits)
  BY RoutesAssumption, AddressAssumption, Zenon
<1>2. <<0>> \in Bits /\ <<1>> \in Bits
  OBVIOUS
<1> HIDE DEF Bits
<1>3. ASSUME NEW i \in 1..Len(routes)
      PROVE  expand_default_route(routes[i]) \in Seq(Bits)
  <2>1. routes[i] \in Bits
    BY <1>1
  <2> QED
    BY <1>2, <2>1 DEF expand_default_route
<1>4. ex \in Seq(Seq(Bits)) /\ Len(ex) = Len(routes)
  BY <1>1, <1>3
<1>5. \A i \in 1..Len(routes) : ex[i] = expand_default_route(routes[i])
  BY Zenon
<1>6. VpnRoutes = Gateways \o FlattenSeq(ex)
  BY Zenon DEF VpnRoutes
<1> HIDE DEF ex
<1>7. FlattenSeq(ex) \in Seq(Bits) /\ ToSet(FlattenSeq(ex)) = UNION {ToSet(ex[i]) : i \in 1..Len(ex)}
  BY <1>4, FlattenIs, Zenon
<1>8. VpnRoutes \in Seq(Bits)
  BY <1>1, <1>6, <1>7
<1>9. Wanted = ToSet(Gateways) \cup ToSet(FlattenSeq(ex))
  BY <1>1, <1>6, <1>7, ToSetConcat DEF Wanted
<1> QED
  BY <1>4, <1>5, <1>7, <1>8, <1>9, Zenon DEF Bits

\* The configuration is fixed, and so is what follows from it.
LEMMA Fixed ==
  ASSUME [Next]_vars
  PROVE  /\ UNCHANGED routes /\ Bootstrap' = Bootstrap /\ Published' = Published
         /\ Required(Bootstrap)' = Required(Bootstrap) /\ Needed' = Needed
         /\ Wanted' = Wanted /\ Guard' = Guard
<1>1. UNCHANGED routes
  BY Zenon DEF Next, Manager, QueryRoute, AddRoute, Commit, UpdateDone, Recv, Start,
         InstallRoute, RunTunnel, Publish, TunnelEnds, Shutdown, ManagerDropped,
         ManagerDroppedMidAdd, ConnectReturns, Exits, Done, vars, fixed
<1>2. Bootstrap' = Bootstrap /\ Published' = Published
  BY Zenon DEF Bootstrap, Published, server_candidate_addrs, ip_in_overlay,
               is_routable_underlay
<1>3. Required(Bootstrap)' = Required(Bootstrap) /\ Needed' = Needed
  BY <1>1, <1>2, Zenon DEF Needed, Required, ip_covered_by_vpn_routes
<1>4. Wanted' = Wanted
  BY <1>1, Zenon DEF Wanted, VpnRoutes, expand_default_route
<1> QED
  BY <1>1, <1>2, <1>3, <1>4, Zenon DEF Guard

\* A transport address that needs a bypass is an address outside the VPN.
LEMMA NeededIs == Needed \subseteq {a \in Addresses : ~ip_in_overlay(a)}
BY AddressAssumption, Zenon
   DEF Needed, Required, Bootstrap, Published, server_candidate_addrs, ip_in_overlay

\* What a guard stands for is a route off the tunnel to an address that needs it.
LEMMA PinIs ==
  ASSUME NEW g \in Guard
  PROVE  Pin(g) \in Route /\ Pin(g).dst = g.dst /\ Pin(g).dev # "tun" /\ g.dst \in Needed
<1>1. g.dst \in Needed /\ g.dev \in Devices
  BY Zenon DEF Guard
<1>2. g.dst \in Seq({0, 1})
  BY <1>1, NeededIs, AddressAssumption, Zenon
<1> QED
  BY <1>1, <1>2, SysAssumption, Zenon DEF Route, Pin

\* A step that changes neither the table nor who owns what keeps TableInv.
LEMMA TableSame ==
  ASSUME TableInv, [Next]_vars, UNCHANGED <<table, orphaned, added>>, Pins' = Pins
  PROVE  TableInv'
<1>1. Needed' = Needed /\ Wanted' = Wanted
  BY Fixed, Zenon
<1> QED
  BY <1>1, Zenon DEF TableInv, Off

\* A step that adds or takes away routes into the tunnel alone keeps TableInv, when
\* what it adds are routes of the VPN with a destination of their own.
LEMMA TunnelOnly ==
  ASSUME TableInv, [Next]_vars, UNCHANGED orphaned, Pins' = Pins,
         Off(table') = Off(table), \A r \in added' : r \in Route /\ r.dev = "tun",
         \A r \in table' : r \in table \/ /\ r \in Route /\ r.dst \in Wanted
                                          /\ \A q \in table' : q.dst = r.dst => q = r
  PROVE  TableInv'
<1>1. Needed' = Needed /\ Wanted' = Wanted
  BY Fixed, Zenon
<1>2. table' \subseteq Route /\ \A r \in table' : r.dev = "tun" => r.dst \in Wanted
  BY Zenon DEF TableInv
<1>3. \A r, q \in table' : r.dst = q.dst => r = q
  BY Zenon DEF TableInv
<1>4. Off(table)' = Off(table)
  BY Zenon DEF Off
<1> QED
  BY <1>1, <1>2, <1>3, <1>4, Zenon DEF TableInv

\* The owners of the routes, over every step.
LEMMA TableStep ==
  ASSUME TableInv, PinInv, SetupInv, [Next]_vars
  PROVE  TableInv'
<1>1. CASE QueryRoute
  <2>1. UNCHANGED <<table, orphaned, added, active>> /\ mgr # "commit" /\ mgr' # "commit"
    BY <1>1, Zenon DEF QueryRoute, Skip, fixed
  <2>2. Pins' = Pins
    BY <2>1, Zenon DEF Pins, Guards, Owned, Pin
  <2> QED
    BY <2>1, <2>2, TableSame, Zenon
<1>2. CASE AddRoute
  <2>0. /\ mgr = "add" /\ UNCHANGED <<orphaned, added, active>>
        /\ cur \in Guard /\ ~cur.owned
    BY <1>2, Zenon DEF AddRoute, fixed, PinInv
  <2>1. CASE mgr' \in {"commit", "work"} /\ UNCHANGED <<table, cur>>
    <3>1. Pins' = Pins
      BY <2>0, <2>1, Zenon DEF Pins, Guards, Owned, Pin
    <3> QED
      BY <2>0, <2>1, <3>1, TableSame, Zenon
  <2>3. CASE /\ ~Exists(cur.dst) /\ table' = table \cup {Pin(cur)}
             /\ cur' = [cur EXCEPT !.owned = TRUE] /\ mgr' = "commit"
    <3>1. cur'.owned /\ Pin(cur') = Pin(cur)
      BY <2>0, <2>3, Zenon DEF Guard, Pin
    <3>2. Guards' = Guards \cup {cur'}
      BY <2>0, <2>3, <3>1, Zenon DEF Guards
    <3>3. Pins' = {Pin(g) : g \in Owned(Guards')}
      BY Zenon DEF Pins, Pin, Owned
    <3>4. Pins' = Pins \cup {Pin(cur)}
      BY <3>1, <3>2, <3>3, Zenon DEF Pins, Owned
    <3>5. /\ Pin(cur) \in Route /\ Pin(cur).dst = cur.dst /\ Pin(cur).dev # "tun"
          /\ cur.dst \in Needed /\ Needed' = Needed /\ Wanted' = Wanted
      BY <2>0, PinIs, Fixed, Zenon
    <3>6. \A r \in table : r.dst # cur.dst
      BY <2>3, Zenon DEF Exists
    <3>7. Off(table)' = Off(table) \cup {Pin(cur)}
      BY <2>3, <3>5, Zenon DEF Off
    <3>8. /\ table' \subseteq Route /\ \A r \in table' : r.dev = "tun" => r.dst \in Wanted
          /\ \A r, q \in table' : r.dst = q.dst => r = q
      BY <2>3, <3>5, <3>6, Zenon DEF TableInv
    <3>9. Pin(cur) \notin SysRoutes \cup orphaned
      BY <3>5, <3>6, Zenon DEF TableInv, Off
    <3>10. Off(table)' = SysRoutes \cup orphaned \cup Pins'
      BY <3>4, <3>7, Zenon DEF TableInv
    <3>11. /\ SysRoutes \cap (orphaned \cup Pins') = {} /\ orphaned \cap Pins' = {}
           /\ \A r \in orphaned \cup Pins' : r.dst \in Needed
      BY <3>4, <3>5, <3>9, Zenon DEF TableInv
    <3> QED
      BY <2>0, <3>5, <3>8, <3>10, <3>11, Zenon DEF TableInv
  <2> QED
    BY <1>2, <2>1, <2>3, Zenon DEF AddRoute, Skip
<1>3. CASE Commit
  <2>1. /\ UNCHANGED <<table, orphaned, added>> /\ mgr = "commit" /\ mgr' = "work"
        /\ active' = active \cup {cur}
    BY <1>3, Zenon DEF Commit, fixed
  <2>2. Pins' = Pins
    BY <2>1, Zenon DEF Pins, Guards, Owned, Pin
  <2> QED
    BY <2>1, <2>2, TableSame, Zenon
<1>4. CASE UpdateDone \/ Recv
  <2>1. UNCHANGED <<table, orphaned, added, active>> /\ mgr # "commit" /\ mgr' # "commit"
    BY <1>4, Zenon DEF UpdateDone, Recv, BeginUpdate, fixed
  <2>2. Pins' = Pins
    BY <2>1, Zenon DEF Pins, Guards, Owned, Pin
  <2> QED
    BY <2>1, <2>2, TableSame, Zenon
<1>4a. CASE Start
  <2>1. /\ UNCHANGED <<orphaned, added, active>> /\ mgr # "commit" /\ mgr' # "commit"
        /\ routes \in Configurations
    BY <1>4a, Zenon DEF Start, BeginUpdate, fixed, SetupInv
  <2>2. Pins' = Pins
    BY <2>1, Zenon DEF Pins, Guards, Owned, Pin
  <2>3. PICK peers \in SUBSET {d \in ToSet(Gateways) : ~Exists(d)} :
          table' = table \cup {[dst |-> d, dev |-> "tun"] : d \in peers}
    BY <1>4a, Zenon DEF Start
  <2>4. \A d \in peers : d \in Seq({0, 1}) /\ d \in Wanted /\ \A r \in table : r.dst # d
    <3>1. ToSet(Gateways) \subseteq Wanted /\ Gateways \in Seq(Seq({0, 1}))
      BY <2>1, Expanded, AddressAssumption, Zenon
    <3>2. ToSet(Gateways) \subseteq Seq({0, 1})
      BY <3>1 DEF ToSet
    <3> QED
      BY <3>1, <3>2, Zenon DEF Exists
  <2>5. \A d \in peers : [dst |-> d, dev |-> "tun"] \in Route
    BY <2>4, Zenon DEF Route
  <2>6. \A r \in table' : r \in table \/ \E d \in peers : r = [dst |-> d, dev |-> "tun"]
    BY <2>3, Zenon
  <2>7. Off(table') = Off(table)
    <3>1. \A d \in peers : [dst |-> d, dev |-> "tun"].dev = "tun"
      BY Zenon
    <3>2. \A r \in table' : r.dev # "tun" => r \in table
      BY <2>6, <3>1, Zenon
    <3>3. table \subseteq table'
      BY <2>3, Zenon
    <3> QED
      BY <3>2, <3>3, Zenon DEF Off
  <2>8. ASSUME NEW r \in table', r \notin table
        PROVE  r \in Route /\ r.dst \in Wanted /\ \A q \in table' : q.dst = r.dst => q = r
    <3>1. PICK d \in peers : r = [dst |-> d, dev |-> "tun"]
      BY <2>6, <2>8, Zenon
    <3>2. r.dst = d /\ r \in Route /\ r.dst \in Wanted
      BY <2>4, <2>5, <3>1, Zenon
    <3>3. ASSUME NEW q \in table', q.dst = r.dst
          PROVE  q = r
      <4>1. q \notin table
        BY <2>4, <3>2, <3>3, Zenon
      <4>2. PICK e \in peers : q = [dst |-> e, dev |-> "tun"]
        BY <2>6, <4>1, Zenon
      <4>3. e = d
        BY <3>2, <3>3, <4>2
      <4> QED
        BY <3>1, <4>2, <4>3, Zenon
    <3> QED
      BY <3>2, <3>3, Zenon
  <2>9. \A r \in added' : r \in Route /\ r.dev = "tun"
    BY <2>1, Zenon DEF TableInv
  <2> QED
    BY <2>1, <2>2, <2>7, <2>8, <2>9, TunnelOnly, Zenon
<1>5. CASE RunTunnel \/ Publish \/ TunnelEnds \/ Shutdown \/ Done \/ UNCHANGED vars
  <2>1. UNCHANGED <<table, orphaned, added, active, cur, mgr>>
    BY <1>5, Zenon DEF RunTunnel, Publish, TunnelEnds, Shutdown, Done, vars, fixed
  <2>2. Pins' = Pins
    BY <2>1, Zenon DEF Pins, Guards, Owned, Pin
  <2> QED
    BY <2>1, <2>2, TableSame, Zenon
<1>6. CASE InstallRoute
  <2>0. UNCHANGED <<orphaned, active, cur, mgr>>
    BY <1>6, Zenon DEF InstallRoute, fixed
  <2>1. Pins' = Pins
    BY <2>0, Zenon DEF Pins, Guards, Owned, Pin
  <2>2. CASE UNCHANGED <<table, added>>
    BY <2>0, <2>1, <2>2, TableSame, Zenon
  <2>3. CASE /\ vtodo # <<>> /\ ~Exists(Head(vtodo))
             /\ table' = table \cup {[dst |-> Head(vtodo), dev |-> "tun"]}
             /\ added' = added \cup {[dst |-> Head(vtodo), dev |-> "tun"]}
    <3>1. Head(vtodo) \in Seq({0, 1}) /\ Head(vtodo) \in Wanted
      <4>1. vtodo \in Seq(Seq({0, 1})) /\ ToSet(vtodo) \subseteq Wanted
        BY Zenon DEF SetupInv
      <4>2. Head(vtodo) = vtodo[1] /\ 1 \in DOMAIN vtodo
        BY <2>3, <4>1
      <4> QED
        BY <4>1, <4>2 DEF ToSet
    <3>2. \A r \in table : r.dst # Head(vtodo)
      BY <2>3, Zenon DEF Exists
    <3> DEFINE n == [dst |-> Head(vtodo), dev |-> "tun"]
    <3>3. n \in Route /\ n.dst = Head(vtodo) /\ n.dev = "tun"
      <4>1. \A d \in Seq({0, 1}) : [dst |-> d, dev |-> "tun"] \in Route
        BY Zenon DEF Route
      <4> QED
        BY <3>1, <4>1, Zenon
    <3>4. table' = table \cup {n} /\ added' = added \cup {n}
      BY <2>3, Zenon
    <3> HIDE DEF n
    <3>5. Off(table') = Off(table)
      BY <3>3, <3>4, Zenon DEF Off
    <3>6. \A r \in added' : r \in Route /\ r.dev = "tun"
      BY <3>3, <3>4, Zenon DEF TableInv
    <3>7. \A r \in table' : r \in table \/ /\ r \in Route /\ r.dst \in Wanted
                                           /\ \A q \in table' : q.dst = r.dst => q = r
      BY <3>1, <3>2, <3>3, <3>4, Zenon
    <3> QED
      BY <2>0, <2>1, <3>5, <3>6, <3>7, TunnelOnly, Zenon
  <2>4. CASE (\E removed \in SUBSET added : table' = Without(removed)) /\ added' = {}
    <3>1. PICK removed \in SUBSET added : table' = Without(removed)
      BY <2>4, Zenon
    <3>2. \A g \in removed : Pin(g).dev = "tun"
      BY Zenon DEF TableInv, Pin
    <3>3. Off(table') = Off(table) /\ table' \subseteq table
      BY <3>1, <3>2, Zenon DEF Off, Without
    <3> QED
      BY <2>0, <2>1, <2>4, <3>3, TunnelOnly, Zenon
  <2> QED
    BY <1>6, <2>2, <2>3, <2>4, Zenon DEF InstallRoute
<1>7. CASE ManagerDropped \/ ManagerDroppedMidAdd
  <2>1. /\ mgr' = "none" /\ active' = {} /\ UNCHANGED added
        /\ Needed' = Needed /\ Wanted' = Wanted
    BY <1>7, Fixed, Zenon DEF ManagerDropped, ManagerDroppedMidAdd
  <2>2. Pins' = {}
    BY <2>1, Zenon DEF Pins, Guards, Owned
  <2> DEFINE Old == {Pin(g) : g \in Owned(active)}
  <2>3. PICK late : /\ DropGuards(late)
                    /\ late \subseteq {Pin(cur)}
                    /\ late # {} => mgr \in {"add", "commit"}
                    /\ IF mgr = "commit" THEN late = {} <=> ~cur.owned
                                         ELSE late # {} => ~Exists(cur.dst)
    BY <1>7, Zenon DEF ManagerDropped, ManagerDroppedMidAdd
  <2>4. PICK stuck \in SUBSET Owned(active) :
          /\ table' = Without(Owned(active) \ stuck) \cup late
          /\ orphaned' = orphaned \cup late \cup {Pin(g) : g \in stuck}
    BY <2>3, Zenon DEF DropGuards, Owned
  <2> DEFINE Stay == {Pin(g) : g \in stuck}
             Gone == {Pin(g) : g \in Owned(active) \ stuck}
  <2>5. table' = (table \ Gone) \cup late /\ orphaned' = orphaned \cup late \cup Stay
    BY <2>4, Zenon DEF Without
  <2>6. Stay \cap Gone = {}
    <3>1. \A g, h \in Owned(active) : Pin(g) = Pin(h) => g = h
      <4>1. \A g \in Owned(active) : g \in Guard /\ g.owned = TRUE
        BY Zenon DEF Owned, PinInv, Guard
      <4>2. ASSUME NEW g \in Owned(active), NEW h \in Owned(active), Pin(g) = Pin(h)
            PROVE  g = h
        <5>1. g.dst = h.dst /\ g.dev = h.dev
          BY <4>2 DEF Pin
        <5> QED
          BY <4>1, <5>1 DEF Guard
      <4> QED
        BY <4>2, Zenon
    <3> QED
      BY <3>1, Zenon
  <2>7. Old = Stay \cup Gone
    BY Zenon
  <2>8. /\ \A p \in late : /\ p \in Route /\ p.dev # "tun" /\ p.dst \in Needed
                           /\ p = Pin(cur) /\ p.dst = cur.dst
    BY <2>3, PinIs, Zenon DEF PinInv
  <2>9. Pins = IF mgr = "commit" THEN Old \cup late ELSE Old
    <3>1. CASE mgr = "commit" /\ cur.owned
      <4>1. late = {Pin(cur)} /\ Owned(Guards) = Owned(active) \cup {cur}
        BY <2>3, <3>1, Zenon DEF Guards, Owned
      <4> QED
        BY <3>1, <4>1, Zenon DEF Pins
    <3>2. CASE mgr = "commit" /\ ~cur.owned
      <4>1. late = {} /\ Owned(Guards) = Owned(active)
        BY <2>3, <3>2, Zenon DEF Guards, Owned
      <4> QED
        BY <3>2, <4>1, Zenon DEF Pins
    <3>3. CASE mgr # "commit"
      BY <3>3, Zenon DEF Pins, Guards
    <3> QED
      BY <3>1, <3>2, <3>3, Zenon
  <2>10. mgr # "commit" => \A p \in late : \A r \in table : r.dst # p.dst
    BY <2>3, <2>8, Zenon DEF Exists
  <2> HIDE DEF Old, Stay, Gone
  <2>11. Off(table)' = (Off(table) \ Gone) \cup late
    BY <2>5, <2>8, Zenon DEF Off
  <2>12. (SysRoutes \cup orphaned) \cap (Old \cup late) = {} /\ Old \subseteq Pins
    <3>1. CASE mgr = "commit"
      BY <2>9, <3>1, Zenon DEF TableInv
    <3>2. CASE mgr # "commit"
      <4>1. \A p \in late : p \notin SysRoutes \cup orphaned
        BY <2>10, <3>2, Zenon DEF TableInv, Off
      <4> QED
        BY <2>9, <3>2, <4>1, Zenon DEF TableInv
    <3> QED
      BY <3>1, <3>2, Zenon
  <2>13. Off(table)' = SysRoutes \cup orphaned'
    <3>1. Off(table) \cup late = SysRoutes \cup orphaned \cup Old \cup late
      BY <2>9, Zenon DEF TableInv
    <3>2. (Off(table) \ Gone) \cup late = SysRoutes \cup orphaned \cup Stay \cup late
      BY <2>6, <2>7, <2>12, <3>1, Zenon
    <3> QED
      BY <2>5, <2>11, <3>2, Zenon
  <2>14. table' \subseteq Route /\ \A r \in table' : r.dev = "tun" => r.dst \in Wanted
    BY <2>5, <2>8, Zenon DEF TableInv
  <2>15. \A r, q \in table' : r.dst = q.dst => r = q
    <3>1. CASE mgr = "commit"
      <4>1. late \subseteq table
        BY <2>9, <3>1, Zenon DEF TableInv, Off
      <4> QED
        BY <2>5, <4>1, Zenon DEF TableInv
    <3>2. CASE mgr # "commit"
      BY <2>5, <2>8, <2>10, <3>2, Zenon DEF TableInv
    <3> QED
      BY <3>1, <3>2, Zenon
  <2>16. SysRoutes \cap orphaned' = {} /\ \A r \in orphaned' : r.dst \in Needed
    BY <2>5, <2>7, <2>8, <2>12, Zenon DEF TableInv
  <2> QED
    BY <2>1, <2>2, <2>13, <2>14, <2>15, <2>16, Zenon DEF TableInv
<1>9. CASE ConnectReturns \/ Exits
  <2>1. /\ UNCHANGED <<orphaned, active, cur, mgr>> /\ added' = {}
        /\ table' = {r \in table : r.dev # "tun"}
    BY <1>9, Zenon DEF ConnectReturns, Exits, DropVpnGuards, fixed
  <2>2. Pins' = Pins
    BY <2>1, Zenon DEF Pins, Guards, Owned, Pin
  <2>3. Off(table') = Off(table) /\ table' \subseteq table
    BY <2>1, Zenon DEF Off
  <2> QED
    BY <2>1, <2>2, <2>3, TunnelOnly, Zenon
<1> QED
  BY <1>1, <1>2, <1>3, <1>4, <1>4a, <1>5, <1>6, <1>7, <1>9, Zenon DEF Next, Manager

-----------------------------------------------------------------------------
(* Every step keeps the pins off the tunnel. *)

\* The device a bypass is put on is one of the host's, never the tunnel.
LEMMA ResolvedDevice ==
  ASSUME TableInv, NEW a \in Needed, NEW gateway \in BOOLEAN,
         resolve_bypass_route_info(Lookup(a).dev, gateway) # "none"
  PROVE  resolve_bypass_route_info(Lookup(a).dev, gateway) \in Devices
<1>1. a \in Seq({0, 1}) /\ IsPrefix(<<>>, a)
  BY NeededIs, AddressAssumption, PrefixSelf, Zenon
<1>2. \E r \in table : r.dst = <<>>
  BY SysAssumption, Zenon DEF TableInv, Off
<1>3. Lookup(a) \in table
  BY <1>1, <1>2, LookupIs DEF TableInv
<1>4. Lookup(a).dev \in Devices \cup {"tun"}
  BY <1>3, Zenon DEF TableInv, Route
<1>5. CASE Lookup(a).dev # "tun" /\ gateway
  BY <1>4, <1>5, Zenon DEF resolve_bypass_route_info
<1>6. CASE ~(Lookup(a).dev # "tun" /\ gateway)
  BY <1>6, SysAssumption, Zenon DEF resolve_bypass_route_info
<1> QED
  BY <1>5, <1>6, Zenon

\* A guard's route stays for as long as the guard does.
LEMMA GuardsKept ==
  ASSUME PinInv, [Next]_vars, Guards' \subseteq Guards, Off(table) \subseteq Off(table')
  PROVE  (\A g \in Guards : (~g.owned /\ g.dst \in Wanted)
                             \/ \E r \in Off(table) : r.dst = g.dst)'
<1>1. Wanted' = Wanted /\ Off(table)' = Off(table')
  BY Fixed, Zenon DEF Off
<1> QED
  BY <1>1, Zenon DEF PinInv

\* So it does in a step that leaves the table alone.
LEMMA TableKept == ASSUME UNCHANGED table PROVE Off(table) \subseteq Off(table')
BY Zenon

\* What the manager pins, over every step.
LEMMA PinStep ==
  ASSUME TableInv, PinInv, SetupInv, [Next]_vars
  PROVE  PinInv'
<1>0. Needed' = Needed /\ Guard' = Guard /\ Published' = Published /\ Wanted' = Wanted
  BY Fixed, Zenon
<1>a. Published \cap Needed = Required(Published) /\ Required(Bootstrap) \subseteq Needed
  BY Zenon DEF Needed, Required
<1>1. CASE QueryRoute
  <2>1. /\ mgr = "work" /\ UNCHANGED <<table, active, chan>>
        /\ mgr' \in {"work", "add"} /\ todo' \subseteq todo
    BY <1>1, Zenon DEF QueryRoute, Skip
  <2>2. ASSUME mgr' = "add"
        PROVE  cur' \in Guard /\ ~cur'.owned
    <3>0. PICK a \in todo : \E route_info \in query_route_for_ip(a) :
            LET dev == resolve_bypass_route_info(route_info.dev, route_info.gateway)
            IN  dev # "none" /\ cur' = [dst |-> a, dev |-> dev, owned |-> FALSE]
      BY <1>1, <2>2, Zenon DEF QueryRoute, Skip
    <3>1. PICK route_info \in query_route_for_ip(a) :
            LET dev == resolve_bypass_route_info(route_info.dev, route_info.gateway)
            IN  dev # "none" /\ cur' = [dst |-> a, dev |-> dev, owned |-> FALSE]
      BY <3>0, Zenon
    <3>2. a \in Needed /\ route_info.dev = Lookup(a).dev /\ route_info.gateway \in BOOLEAN
      BY Zenon DEF PinInv, query_route_for_ip
    <3>3. resolve_bypass_route_info(route_info.dev, route_info.gateway) \in Devices
      BY <3>1, <3>2, ResolvedDevice, Zenon
    <3> QED
      BY <3>1, <3>2, <3>3, Zenon DEF Guard
  <2>3. Guards' = active /\ Guards = active
    BY <2>1, Zenon DEF Guards
  <2> QED
    BY <1>0, <2>1, <2>2, <2>3, GuardsKept, TableKept, Zenon DEF PinInv
<1>2. CASE AddRoute
  <2>0. /\ mgr = "add" /\ UNCHANGED <<active, chan>> /\ cur \in Guard
        /\ mgr' \in {"commit", "work"} /\ todo' \subseteq todo /\ Off(table) \subseteq Off(table')
        /\ cur' \in {cur, [cur EXCEPT !.owned = TRUE]}
    BY <1>2, Zenon DEF AddRoute, Skip, PinInv, Off
  <2>1. cur' \in Guard /\ cur'.dst = cur.dst
    BY <2>0, Zenon DEF Guard
  <2>2. \A g \in active : (~g.owned /\ g.dst \in Wanted) \/ \E r \in Off(table) : r.dst = g.dst
    BY Zenon DEF PinInv, Guards
  <2>3. ASSUME mgr' = "commit"
        PROVE  (~cur'.owned /\ cur'.dst \in Wanted) \/ \E r \in Off(table') : r.dst = cur.dst
    <3>1. CASE Exists(cur.dst)
      <4>1. PICK r \in table : r.dst = cur.dst
        BY <3>1, Zenon DEF Exists
      <4>2. cur' = cur /\ ~cur.owned
        BY <1>2, <2>0, <2>3, <3>1, Zenon DEF AddRoute, Skip, PinInv
      <4>3. CASE r.dev = "tun"
        BY <4>1, <4>2, <4>3, Zenon DEF TableInv
      <4>4. CASE r.dev # "tun"
        BY <2>0, <4>1, <4>4, Zenon DEF Off
      <4> QED
        BY <4>3, <4>4, Zenon
    <3>2. CASE ~Exists(cur.dst)
      <4>1. Pin(cur) \in table'
        BY <1>2, <2>3, <3>2, Zenon DEF AddRoute, Skip
      <4>2. Pin(cur).dev # "tun" /\ Pin(cur).dst = cur.dst
        BY <2>0, PinIs, Zenon
      <4> QED
        BY <4>1, <4>2, Zenon DEF Off
    <3> QED
      BY <3>1, <3>2, Zenon
  <2>4. Guards' \subseteq active \cup {cur'} /\ (mgr' # "commit" => Guards' = active)
    BY <2>0, Zenon DEF Guards
  <2>5. Off(table)' = Off(table')
    BY Zenon DEF Off
  <2>6. \A g \in Guards' : (~g.owned /\ g.dst \in Wanted) \/ \E r \in Off(table') : r.dst = g.dst
    BY <2>0, <2>1, <2>2, <2>3, <2>4, Zenon
  <2> QED
    BY <1>0, <2>0, <2>1, <2>5, <2>6, Zenon DEF PinInv
<1>3. CASE Commit
  <2>1. /\ mgr = "commit" /\ mgr' = "work" /\ active' = active \cup {cur}
        /\ UNCHANGED <<table, chan>> /\ todo' \subseteq todo
    BY <1>3, Zenon DEF Commit
  <2>2. Guards' = Guards
    BY <2>1, Zenon DEF Guards
  <2> QED
    BY <1>0, <2>1, <2>2, GuardsKept, TableKept, Zenon DEF PinInv
<1>4. CASE UpdateDone
  <2>1. mgr = "work" /\ mgr' = "idle" /\ UNCHANGED <<table, active, chan, todo>>
    BY <1>4, Zenon DEF UpdateDone
  <2>2. Guards' = Guards
    BY <2>1, Zenon DEF Guards
  <2> QED
    BY <1>0, <2>1, <2>2, GuardsKept, TableKept, Zenon DEF PinInv
<1>5. CASE Recv
  <2>1. /\ mgr = "idle" /\ mgr' = "work" /\ UNCHANGED <<table, active>>
        /\ chan # <<>> /\ chan' = Tail(chan) /\ todo' \subseteq Required(Head(chan))
    BY <1>5, Zenon DEF Recv, BeginUpdate
  <2>2. chan' \in Seq(SUBSET Published) /\ Head(chan) \in SUBSET Published
    BY <2>1 DEF PinInv
  <2>2a. todo' \subseteq Needed
    BY <2>1, <2>2, Zenon DEF Required, Needed
  <2>3. Guards' = Guards
    BY <2>1, Zenon DEF Guards
  <2> QED
    BY <1>0, <2>1, <2>2, <2>2a, <2>3, GuardsKept, TableKept, Zenon DEF PinInv
<1>6. CASE Start
  <2>1. /\ mgr = "none" /\ mgr' = "work" /\ UNCHANGED <<active, chan>>
        /\ todo' \subseteq Required(Bootstrap) /\ Off(table) \subseteq Off(table')
    BY <1>6, Zenon DEF Start, BeginUpdate, SetupInv, Off
  <2>2. Guards' = Guards
    BY <2>1, Zenon DEF Guards
  <2> QED
    BY <1>0, <1>a, <2>1, <2>2, GuardsKept, Zenon DEF PinInv
<1>7. CASE InstallRoute
  <2>1. UNCHANGED <<mgr, todo, cur, active, chan>>
    BY <1>7, Zenon DEF InstallRoute
  <2>2. Guards' = Guards
    BY <2>1, Zenon DEF Guards
  <2>3. ASSUME NEW removed \in SUBSET added
        PROVE  Off(table) \subseteq Off(Without(removed))
    <3>1. \A g \in removed : Pin(g).dev = "tun"
      BY Zenon DEF TableInv, Pin
    <3> QED
      BY <3>1, Zenon DEF Without, Off
  <2>4. Off(table) \subseteq Off(table')
    BY <1>7, <2>3, Zenon DEF InstallRoute, Off
  <2> QED
    BY <1>0, <2>1, <2>2, <2>4, GuardsKept, TableKept, Zenon DEF PinInv
<1>8. CASE RunTunnel \/ Done \/ UNCHANGED vars
  <2>1. UNCHANGED <<table, mgr, todo, cur, active, chan>>
    BY <1>8, Zenon DEF RunTunnel, Done, vars
  <2>2. Guards' = Guards
    BY <2>1, Zenon DEF Guards
  <2> QED
    BY <1>0, <2>1, <2>2, GuardsKept, TableKept, Zenon DEF PinInv
<1>9. CASE Publish \/ TunnelEnds \/ Shutdown
  <2>1. UNCHANGED <<table, mgr, todo, cur, active>>
    BY <1>9, Zenon DEF Publish, TunnelEnds, Shutdown
  <2>2. Guards' = Guards
    BY <2>1, Zenon DEF Guards
  <2>3. chan' \in {<<>>, chan, Append(chan, Published)}
    BY <1>9, Zenon DEF Publish, TunnelEnds, Shutdown
  <2>4. chan' \in Seq(SUBSET Published)
    <3> DEFINE T == SUBSET Published
    <3>1. chan \in Seq(T) /\ Published \in T
      BY Zenon DEF PinInv
    <3> HIDE DEF T
    <3>2. CASE chan' = <<>>
      BY <3>2 DEF T
    <3>3. CASE chan' = Append(chan, Published)
      <4>1. chan' \in Seq(T)
        BY <3>1, <3>3
      <4> QED
        BY <4>1, Zenon DEF T
    <3>4. CASE chan' = chan
      BY <3>1, <3>4, Zenon DEF T
    <3> QED
      BY <2>3, <3>2, <3>3, <3>4, Zenon
  <2> QED
    BY <1>0, <2>1, <2>2, <2>4, GuardsKept, TableKept, Zenon DEF PinInv
<1>10. CASE ManagerDropped \/ ManagerDroppedMidAdd
  <2>1. mgr' = "none" /\ active' = {} /\ todo' = {} /\ UNCHANGED <<cur, chan>>
    BY <1>10, Zenon DEF ManagerDropped, ManagerDroppedMidAdd
  <2>2. Guards' = {}
    BY <2>1, Zenon DEF Guards
  <2> QED
    BY <1>0, <2>1, <2>2, Zenon DEF PinInv
<1>11. CASE ConnectReturns \/ Exits
  <2>1. UNCHANGED <<mgr, todo, cur, active, chan>>
    BY <1>11, Zenon DEF ConnectReturns, Exits
  <2>2. Guards' = Guards
    BY <2>1, Zenon DEF Guards
  <2>4. Off(table) \subseteq Off(table')
    BY <1>11, Zenon DEF ConnectReturns, Exits, DropVpnGuards, Off
  <2> QED
    BY <1>0, <2>1, <2>2, <2>4, GuardsKept, TableKept, Zenon DEF PinInv
<1> QED
  BY <1>1, <1>2, <1>3, <1>4, <1>5, <1>6, <1>7, <1>8, <1>9, <1>10, <1>11, Zenon
     DEF Next, Manager

-----------------------------------------------------------------------------
(* Every step keeps what setup has gone through. *)

\* The progress of setup, over every step.
LEMMA SetupStep ==
  ASSUME TableInv, PinInv, SetupInv, [Next]_vars
  PROVE  SetupInv'
<1> DEFINE Covered(a) == a \in failed \/ \E g \in active : g.dst = a
<1>0. /\ UNCHANGED routes /\ Bootstrap' = Bootstrap /\ Wanted' = Wanted
      /\ Required(Bootstrap)' = Required(Bootstrap)
  BY Fixed, Zenon
<1>a. Off(table)' = Off(table')
  BY Zenon DEF Off
<1>1. CASE QueryRoute \/ AddRoute \/ Commit
  <2>1. /\ UNCHANGED <<pc, vtodo, added>> /\ table \subseteq table'
        /\ mgr \in {"work", "add", "commit"} /\ mgr' \in {"work", "add", "commit"}
    BY <1>1, Zenon DEF QueryRoute, AddRoute, Commit, Skip
  <2>2. \A d : Exists(d) => Exists(d)'
    BY <2>1, Zenon DEF Exists
  <2>3. ASSUME NEW a, Covered(a) \/ a \in todo
        PROVE  (a \in failed' \/ \E g \in active' : g.dst = a) \/ (a \in todo' /\ a \in todo)
    BY <1>1, <2>3, Zenon DEF QueryRoute, AddRoute, Commit, Skip
  <2>4. ASSUME NEW a, Covered(a)
        PROVE  a \in failed' \/ \E g \in active' : g.dst = a
    BY <1>1, <2>4, Zenon DEF QueryRoute, AddRoute, Commit, Skip
  <2>5. mgr # "none" /\ mgr' # "none"
    BY <2>1, Zenon
  <2> QED
    BY <1>0, <2>1, <2>2, <2>3, <2>4, <2>5, Zenon DEF SetupInv
<1>2. CASE UpdateDone
  <2>1. /\ mgr = "work" /\ todo = {} /\ mgr' = "idle"
        /\ pc' = (IF pc = "boot" THEN "install" ELSE pc)
        /\ UNCHANGED <<table, todo, active, vtodo, added, failed>>
    BY <1>2, Zenon DEF UpdateDone
  <2>2. \A d : Exists(d) <=> Exists(d)'
    BY <2>1, Zenon DEF Exists
  <2> QED
    BY <1>0, <2>1, <2>2, Zenon DEF SetupInv
<1>3. CASE Recv
  <2>1. /\ mgr = "idle" /\ mgr' = "work" /\ pc = "running"
        /\ UNCHANGED <<table, pc, active, vtodo, added, failed>>
    BY <1>3, Zenon DEF Recv, BeginUpdate
  <2>2. \A d : Exists(d) <=> Exists(d)'
    BY <2>1, Zenon DEF Exists
  <2> QED
    BY <1>0, <2>1, <2>2, Zenon DEF SetupInv
<1>4. CASE Start
  <2>1. /\ pc = "down" /\ pc' = "boot" /\ mgr' = "work" /\ failed' = {}
        /\ todo' = Required(Bootstrap) \ {g.dst : g \in active}
        /\ vtodo' = VpnRoutes /\ UNCHANGED active
    BY <1>4, Zenon DEF Start, BeginUpdate
  <2>2. /\ vtodo' \in Seq(Seq({0, 1})) /\ ToSet(vtodo') = Wanted
        /\ routes \in Configurations
    BY <2>1, Expanded, Zenon DEF SetupInv, Wanted
  <2> QED
    BY <1>0, <2>1, <2>2, Zenon DEF SetupInv
<1>5. CASE InstallRoute
  <2>0. vtodo \in Seq(Seq({0, 1})) /\ vtodo # <<>> /\ ToSet(vtodo) \subseteq Wanted
    BY <1>5, Zenon DEF InstallRoute, SetupInv
  <2>1. pc = "install" /\ UNCHANGED <<mgr, todo, active, failed>>
    BY <1>5, Zenon DEF InstallRoute
  <2>2. /\ Tail(vtodo) \in Seq(Seq({0, 1})) /\ ToSet(vtodo) = {Head(vtodo)} \cup ToSet(Tail(vtodo))
        /\ ToSet(Tail(vtodo)) \subseteq ToSet(vtodo)
    <3> DEFINE T == Seq({0, 1})
               s == <<Head(vtodo)>>
               t == Tail(vtodo)
    <3>1. t \in Seq(T) /\ s \in Seq(T)
      BY <2>0
    <3>2. vtodo = s \o t
      BY <2>0
    <3>3. ToSet(s) = {Head(vtodo)}
      BY DEF ToSet
    <3> HIDE DEF T, s, t
    <3>4. ToSet(s \o t) = ToSet(s) \cup ToSet(t)
      BY <3>1, ToSetConcat
    <3>5. ToSet(vtodo) = {Head(vtodo)} \cup ToSet(t)
      BY <3>2, <3>3, <3>4, Zenon
    <3> QED
      BY <3>1, <3>5, Zenon DEF t, T
  <2>3. CASE /\ pc' = pc /\ vtodo' = Tail(vtodo) /\ table \subseteq table'
             /\ \E r \in table' : r.dst = Head(vtodo)
    <3>1. \A d : Exists(d) => Exists(d)'
      BY <2>3, Zenon DEF Exists
    <3>2. \A d : d = Head(vtodo) => Exists(d)'
      BY <2>3, Zenon DEF Exists
    <3>3. \A d \in Wanted : d \in ToSet(vtodo') \/ Exists(d)'
      BY <2>1, <2>2, <2>3, <3>1, <3>2, Zenon DEF SetupInv
    <3> QED
      BY <1>0, <2>0, <2>1, <2>2, <2>3, <3>3, Zenon DEF SetupInv
  <2>4. CASE pc' = "exiting" /\ vtodo' = <<>>
    <3>1. <<>> \in Seq(Seq({0, 1})) /\ ToSet(<<>>) = {}
      BY DEF ToSet
    <3> QED
      BY <1>0, <2>1, <2>4, <3>1, Zenon DEF SetupInv
  <2>5. CASE /\ pc' = pc /\ vtodo' = Tail(vtodo)
             /\ table' = table \cup {[dst |-> Head(vtodo), dev |-> "tun"]}
    <3>1. [dst |-> Head(vtodo), dev |-> "tun"].dst = Head(vtodo)
      BY Zenon
    <3> QED
      BY <2>3, <2>5, <3>1, Zenon
  <2>6. CASE pc' = pc /\ vtodo' = Tail(vtodo) /\ table' = table /\ Exists(Head(vtodo))
    BY <2>3, <2>6, Zenon DEF Exists
  <2> QED
    BY <1>5, <2>4, <2>5, <2>6, Zenon DEF InstallRoute
<1>6. CASE RunTunnel \/ Publish \/ TunnelEnds \/ Shutdown \/ Done \/ UNCHANGED vars
  <2>1. /\ UNCHANGED <<table, mgr, todo, active, vtodo, failed>>
        /\ \/ pc' = pc
           \/ pc = "install" /\ pc' = "running" /\ vtodo = <<>>
           \/ pc' \in {"stopping", "exiting"}
    BY <1>6, Zenon DEF RunTunnel, Publish, TunnelEnds, Shutdown, Done, vars
  <2>2. \A d : Exists(d) <=> Exists(d)'
    BY <2>1, Zenon DEF Exists
  <2>3. Off(table) = table => Off(table)' = table'
    BY <1>a, <2>1, Zenon
  <2> QED
    BY <1>0, <2>1, <2>2, <2>3, Zenon DEF SetupInv
<1>7. CASE ManagerDropped \/ ManagerDroppedMidAdd
  <2>1. /\ pc \in {"stopping", "exiting"} /\ mgr' = "none" /\ active' = {}
        /\ UNCHANGED <<pc, vtodo>>
    BY <1>7, Zenon DEF ManagerDropped, ManagerDroppedMidAdd
  <2> QED
    BY <1>0, <2>1, Zenon DEF SetupInv
<1>8. CASE ConnectReturns \/ Exits
  <2>1. /\ table' = Off(table) /\ vtodo' = <<>> /\ UNCHANGED <<mgr, active>>
        /\ pc' \in {"down", "exited", "exiting"}
        /\ pc' \in {"down", "exited"} => mgr = "none"
    BY <1>8, Zenon DEF ConnectReturns, Exits, DropVpnGuards, Off
  <2>2. <<>> \in Seq(Seq({0, 1})) /\ ToSet(<<>>) = {}
    BY DEF ToSet
  <2>3. Off(table)' = table'
    BY <2>1, Zenon DEF Off
  <2> QED
    BY <1>0, <2>1, <2>2, <2>3, Zenon DEF SetupInv
<1> QED
  BY <1>1, <1>2, <1>3, <1>4, <1>5, <1>6, <1>7, <1>8, Zenon DEF Next, Manager

-----------------------------------------------------------------------------
(* The theorems. *)

RoutesInv == TableInv /\ PinInv /\ SetupInv

\* The three invariants hold of every reachable state.
LEMMA RoutesHold == Spec => []RoutesInv
<1>1. Init => RoutesInv
  <2> SUFFICES ASSUME Init PROVE RoutesInv
    BY Zenon
  <2>1. Guards = {} /\ Pins = {}
    BY Zenon DEF Init, Guards, Pins, Owned
  <2>2. <<>> \in Seq(Seq({0, 1})) /\ <<>> \in Seq(SUBSET Published) /\ ToSet(<<>>) = {}
    BY DEF ToSet
  <2>3. Off(SysRoutes) = SysRoutes /\ SysRoutes \subseteq Route
    BY SysAssumption, Zenon DEF Off, Route
  <2>4. TableInv
    BY <2>1, <2>3, SysAssumption, Zenon DEF Init, TableInv, Off
  <2> QED
    BY <2>1, <2>2, <2>3, <2>4, Zenon DEF Init, PinInv, SetupInv, RoutesInv
<1>2. RoutesInv /\ [Next]_vars => RoutesInv'
  BY TableStep, PinStep, SetupStep, Zenon DEF RoutesInv
<1> QED
  BY <1>1, <1>2, PTL DEF Spec

\* For any routes, addresses and host table: between sessions and after the last one
\* every route of the host's own is there and none of the VPN, however the sessions
\* ended, and what else is there are bypasses that were left behind, by a removal that
\* failed or a command that ran on, of addresses that needed one and off the tunnel
\* (the guards of net/device.rs).
THEOREM TableAlwaysRestored == Spec => []TableRestored
<1>1. RoutesInv => TableRestored
  <2> SUFFICES ASSUME RoutesInv, pc \in {"down", "exited"}
               PROVE  /\ SysRoutes \subseteq table
                      /\ \A r \in table \ SysRoutes :
                           r \in orphaned /\ r.dev # "tun" /\ r.dst \in Needed
    BY Zenon DEF TableRestored, Needed
  <2>1. Pins = {} /\ table = Off(table)
    BY Zenon DEF RoutesInv, SetupInv, Pins, Guards, Owned
  <2>2. table = SysRoutes \cup orphaned
    BY <2>1, Zenon DEF RoutesInv, TableInv
  <2>3. \A r \in table : r.dev # "tun"
    BY <2>1, Zenon DEF Off
  <2> QED
    BY <2>2, <2>3, Zenon DEF RoutesInv, TableInv
<1> QED
  BY <1>1, RoutesHold, PTL

\* What a guard pins is looked up off the tunnel, unless it took a VPN route to this
\* very address for its own.
LEMMA GuardedOff ==
  ASSUME RoutesInv, NEW g \in active
  PROVE  Lookup(g.dst).dev # "tun" \/ (~g.owned /\ g.dst \in Wanted)
<1> SUFFICES ASSUME ~(~g.owned /\ g.dst \in Wanted) PROVE Lookup(g.dst).dev # "tun"
  BY Zenon
<1>1. PICK r \in Off(table) : r.dst = g.dst
  BY Zenon DEF RoutesInv, PinInv, Guards
<1>2. r \in table /\ r.dev # "tun"
  BY Zenon DEF Off
<1>3. Lookup(r.dst) = r
  BY <1>2, LookupOwn, Zenon DEF RoutesInv, TableInv
<1> QED
  BY <1>1, <1>2, <1>3, Zenon

\* For any routes, addresses and host table, no host route the bypass manager owns
\* leads into the tunnel, whenever it was added, nor one that it found there, unless
\* the address is by itself a route of the VPN (add_bypass_route).
THEOREM PinsAlwaysOffTunnel == Spec => []PinsOffTunnel
<1>1. RoutesInv => PinsOffTunnel
  BY GuardedOff, Zenon DEF PinsOffTunnel, Wanted
<1> QED
  BY <1>1, RoutesHold, PTL

\* For any routes and addresses, a bootstrap address the VPN routes cover is off the
\* tunnel before they are installed and while it runs, unless its own bypass failed
\* or it is by itself a route of the VPN.
THEOREM BootstrapAlwaysProtected == Spec => []BootstrapProtected
<1>1. RoutesInv => BootstrapProtected
  <2> SUFFICES ASSUME RoutesInv, pc \in {"install", "running"},
                      NEW a \in Required(Bootstrap), a \notin Wanted, a \notin failed
               PROVE  Lookup(a).dev # "tun"
    BY Zenon DEF BootstrapProtected, Wanted
  <2>1. PICK g \in active : g.dst = a
    BY Zenon DEF RoutesInv, SetupInv
  <2> QED
    BY <2>1, GuardedOff, Zenon
<1> QED
  BY <1>1, RoutesHold, PTL

\* A configured route or a gateway that covers an address is itself one of the routes
\* to install, or it is the default route and one of its halves is (expand_default_route).
LEMMA CoveredByWanted ==
  ASSUME routes \in Configurations, NEW a \in Addresses,
         NEW p \in ToSet(routes) \cup ToSet(Gateways), IsPrefix(p, a)
  PROVE  /\ p \in Seq({0, 1})
         /\ \E d \in Wanted : d \in Seq({0, 1}) /\ IsPrefix(d, a) /\ d # <<>>
                            /\ (p # <<>> => d = p)
<1>1. /\ a \in Seq({0, 1}) /\ a # <<>> /\ routes \in Seq(Seq({0, 1}))
      /\ Gateways \in Seq(Seq({0, 1}))
  BY AddressAssumption, RoutesAssumption, Zenon
<1>2. p \in Seq({0, 1})
  BY <1>1 DEF ToSet
<1>2a. p \in ToSet(Gateways) => p # <<>>
  BY AddressAssumption, Zenon
<1>3. CASE p \in ToSet(Gateways) /\ p # <<>>
  BY <1>2, <1>3, Expanded, Zenon
<1>4. CASE p \in ToSet(routes) /\ p # <<>>
  <2>1. PICK i \in 1..Len(routes) : routes[i] = p
    BY <1>1, <1>4 DEF ToSet
  <2>2. p \in ToSet(expand_default_route(routes[i]))
    BY <1>4, <2>1 DEF expand_default_route, ToSet
  <2>3. p \in Wanted
    BY <2>2, Expanded, Zenon
  <2> QED
    BY <1>2, <1>4, <2>3, Zenon
<1>5. CASE p = <<>> /\ p \in ToSet(routes)
  <2>1. PICK i \in 1..Len(routes) : routes[i] = <<>>
    BY <1>1, <1>5 DEF ToSet
  <2>2. Len(a) >= 1 /\ a[1] \in {0, 1}
    BY <1>1
  <2>3. <<a[1]>> \in {<<0>>, <<1>>} /\ <<a[1]>> \in Seq({0, 1}) /\ <<a[1]>> # <<>>
    BY <2>2
  <2>4. ToSet(expand_default_route(routes[i])) = {<<0>>, <<1>>}
    BY <2>1 DEF expand_default_route, ToSet
  <2>5. IsPrefix(<<a[1]>>, a)
    <3> DEFINE h == <<a[1]>>
    <3>1. h \in Seq({0, 1}) /\ Len(h) = 1 /\ h[1] = a[1]
      BY <2>3, Zenon
    <3> HIDE DEF h
    <3>2. \A j \in 1..Len(h) : h[j] = a[j]
      BY <3>1
    <3>3. IsPrefix(h, a)
      BY <1>1, <2>2, <3>1, <3>2, PrefixBits, Zenon
    <3> QED
      BY <3>3, Zenon DEF h
  <2>6. <<a[1]>> \in Wanted
    BY <2>3, <2>4, Expanded, Zenon
  <2> QED
    BY <1>2, <1>5, <2>3, <2>5, <2>6, Zenon
<1> QED
  BY <1>2a, <1>3, <1>4, <1>5, Zenon

\* For any routes, addresses and host table, while the tunnel runs an address its
\* routes cover goes into it, or by a route of the host's own or a bypass of this
\* address that is more specific than every configured route covering it, or equal
\* to one and there first; the host's default route never takes it, and an address of
\* the VPN has no bypass (add_routes, expand_default_route).
THEOREM CoveredAlwaysTunnelled == Spec => []CoveredIsTunnelled
<1>1. RoutesInv => CoveredIsTunnelled
  <2> SUFFICES ASSUME RoutesInv, pc = "running", NEW a \in Addresses,
                      Lookup(a).dev # "tun",
                      NEW c \in ToSet(routes) \cup ToSet(Gateways), IsPrefix(c, a)
               PROVE  /\ Lookup(a) \in SysRoutes
                         \/ (Lookup(a).dst = a /\ ~ip_in_overlay(a))
                      /\ \A p \in ToSet(routes) \cup ToSet(Gateways) :
                           IsPrefix(p, a) => \/ Len(p) < Len(Lookup(a).dst)
                                             \/ p = Lookup(a).dst /\ p # <<>>
    BY Zenon DEF CoveredIsTunnelled
  <2>0. /\ a \in Seq({0, 1}) /\ table \subseteq Route /\ routes \in Configurations
        /\ \A d \in Wanted : \E q \in table : q.dst = d
    <3>1. vtodo = <<>> /\ ToSet(<<>>) = {}
      BY DEF RoutesInv, SetupInv, ToSet
    <3> QED
      BY <3>1, AddressAssumption, Zenon DEF RoutesInv, TableInv, SetupInv, Exists
  <2> DEFINE r == Lookup(a)
  <2>1. /\ r \in table /\ IsPrefix(r.dst, a)
        /\ \A d \in Wanted : IsPrefix(d, a) => Len(d) <= Len(r.dst)
    <3>1. \E d \in Wanted : IsPrefix(d, a)
      BY <2>0, CoveredByWanted, Zenon
    <3>2. \E q \in table : IsPrefix(q.dst, a)
      BY <2>0, <3>1, Zenon
    <3> QED
      BY <2>0, <3>2, LookupIs, Zenon
  <2>2. r.dev # "tun" /\ r.dst \in Seq({0, 1})
    BY <2>0, <2>1, Zenon DEF Route
  <2> HIDE DEF r
  <2>3. r \in SysRoutes \/ (r.dst = a /\ ~ip_in_overlay(a))
    <3>1. CASE r \in orphaned \cup Pins
      <4>1. r.dst \in Addresses /\ ~ip_in_overlay(r.dst)
        BY <3>1, NeededIs, Zenon DEF RoutesInv, TableInv
      <4>2. r.dst = a
        BY <2>1, <4>1, AddressAssumption, Zenon
      <4> QED
        BY <4>1, <4>2, Zenon
    <3> QED
      BY <2>1, <2>2, <3>1, Zenon DEF RoutesInv, TableInv, Off
  <2>4. ASSUME NEW p \in ToSet(routes) \cup ToSet(Gateways), IsPrefix(p, a)
        PROVE  Len(p) < Len(r.dst) \/ (p = r.dst /\ p # <<>>)
    <3>1. p \in Seq({0, 1})
      BY <2>0, <2>4, CoveredByWanted, Zenon
    <3>2. PICK d \in Wanted : /\ d \in Seq({0, 1}) /\ IsPrefix(d, a) /\ d # <<>>
                              /\ p # <<>> => d = p
      BY <2>0, <2>4, CoveredByWanted, Zenon
    <3>3. Len(d) <= Len(r.dst)
      BY <2>1, <3>2, Zenon
    <3>4. CASE p = <<>>
      BY <2>2, <3>2, <3>3, <3>4
    <3>5. CASE p # <<>> /\ Len(r.dst) <= Len(p)
      <4>1. p = r.dst
        BY <2>0, <2>1, <2>2, <2>4, <3>1, <3>2, <3>3, <3>5, PrefixBoth
      <4> QED
        BY <3>5, <4>1, Zenon
    <3> QED
      BY <2>2, <3>1, <3>4, <3>5
  <2> QED
    BY <2>3, <2>4, Zenon DEF r
<1> QED
  BY <1>1, RoutesHold, PTL
=============================================================================
