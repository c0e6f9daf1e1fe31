------------------------- MODULE ClientNetworkProofs ------------------------
(***************************************************************************)
(* Proofs about a session on a host whose networks change: the selection of *)
(* its path (PathSelector), the overlap watch (OverlapWatch) and the two    *)
(* together (ClientNetwork), for any routes, networks, paths, round-trip    *)
(* times and thresholds.                                                    *)
(*                                                                          *)
(* A switch within a tier is only made for a margin of at least the         *)
(* threshold (SwitchMargin); the margin of the switch that left a path is   *)
(* remembered, so the way back adds a second one to it.  That the selection *)
(* leaves an excluded path or the relay rests on there being a best         *)
(* candidate among the allowed ones (BestExists).                           *)
(*                                                                          *)
(* The overlap watch records its refusal before it closes the connection    *)
(* (RefusalInv), and while it sleeps what it last saw cuts nothing off, so  *)
(* a conflict that is there is news at its next look (NoticeInv).           *)
(***************************************************************************)
EXTENDS ClientNetwork, ProofFacts

\* What is left behind was left by the threshold at least.
MarginInv ==
  /\ left # None => left.margin \in Int /\ left.margin >= RTT_SWITCHING_MIN
  /\ NoFlapping

\* Biased round-trip times are integers.
LEMMA BiasedInt ==
  ASSUME NEW c, c.rtt \in RTTs
  PROVE  biased(c) \in Int
<1>0. RTTs \subseteq Int /\ IPV6_RTT_ADVANTAGE \in Int
  BY SelectorAssumption
<1>1. c.rtt \in Int
  BY <1>0, Zenon
<1>2. CASE c.path.kind \in {"ip6", "mapped"}
  <2>1. biased(c) = c.rtt - IPV6_RTT_ADVANTAGE
    BY <1>2, Zenon DEF biased
  <2>2. QED
    BY <1>0, <1>1, <2>1
<1>3. CASE c.path.kind \notin {"ip6", "mapped"}
  <2>1. biased(c) = c.rtt - 0
    BY <1>3, Zenon DEF biased
  <2>2. QED
    BY <1>0, <1>1, <2>1
<1>4. QED
  BY <1>2, <1>3, Zenon

\* A candidate chosen over the current path of its tier leads by the threshold.
LEMMA SwitchMargin ==
  ASSUME NEW candidates, NEW b \in choose(candidates), NEW c \in Allowed(candidates),
         c.path = current, is_relay(c.path) = is_relay(b.path),
         biased(b) \in Int, biased(c) \in Int
  PROVE  biased(c) - biased(b) >= RTT_SWITCHING_MIN
<1>1. ~(biased(b) + RTT_SWITCHING_MIN > biased(c))
  BY Zenon DEF choose
<1>2. QED
  BY <1>1, SelectorAssumption

\* A switch keeps the margins.
LEMMA SwitchKeeps ==
  ASSUME MarginInv, NEW candidates, \A c \in candidates : c.rtt \in RTTs,
         NEW b \in choose(candidates), Switch(candidates, b)
  PROVE  MarginInv'
<1> DEFINE was == {c \in Allowed(candidates) :
                     c.path = current /\ is_relay(c.path) = is_relay(b.path)}
           margins == {biased(c) - biased(b) : c \in was}
           margin == CHOOSE m \in margins : TRUE
<1>1. b \in candidates /\ was \subseteq Allowed(candidates) /\ was \subseteq candidates
  BY Zenon DEF choose, Allowed
<1>2. ASSUME was # {} PROVE margin \in Int /\ margin >= RTT_SWITCHING_MIN
  <2>1. margin \in margins
    BY <1>2, Zenon
  <2>2. PICK c \in was : margin = biased(c) - biased(b)
    BY <2>1, Zenon
  <2>3. biased(b) \in Int /\ biased(c) \in Int
    BY <1>1, <2>2, BiasedInt, Zenon
  <2>4. biased(c) - biased(b) >= RTT_SWITCHING_MIN
    BY <1>1, <2>2, <2>3, SwitchMargin, Zenon
  <2> HIDE DEF margin
  <2>5. QED
    BY <2>2, <2>3, <2>4
<1>3. left' = IF was = {} THEN None ELSE [path |-> current, margin |-> margin]
  BY Zenon DEF Switch
<1>4. left' # None => left'.margin \in Int /\ left'.margin >= RTT_SWITCHING_MIN
  <2> HIDE DEF margin, was
  <2>1. QED
    BY <1>2, <1>3, Zenon
<1>5. NoFlapping'
  <2>1. swing' = IF was # {} /\ left # None /\ left.path = b.path
                 THEN left.margin + margin ELSE None
    BY Zenon DEF Switch
  <2> HIDE DEF margin, was
  <2>2. QED
    BY <1>2, <2>1, SelectorAssumption DEF MarginInv, NoFlapping
<1>6. QED
  BY <1>4, <1>5, Zenon DEF MarginInv

\* A call of choose keeps the margins.
LEMMA SelectKeepsMargin ==
  ASSUME MarginInv, NEW open, Select(open)
  PROVE  MarginInv'
<1>1. PICK paths \in SUBSET open : \E rtt \in [paths -> RTTs] :
        LET candidates == {[path |-> p, rtt |-> rtt[p]] : p \in paths}
        IN  \/ \E b \in choose(candidates) : Switch(candidates, b)
            \/ UNCHANGED <<current, left, swing>>
  BY Zenon DEF Select
<1>2. PICK rtt \in [paths -> RTTs] :
        LET candidates == {[path |-> p, rtt |-> rtt[p]] : p \in paths}
        IN  \/ \E b \in choose(candidates) : Switch(candidates, b)
            \/ UNCHANGED <<current, left, swing>>
  BY <1>1, Zenon
<1> DEFINE candidates == {[path |-> p, rtt |-> rtt[p]] : p \in paths}
<1>3. \A c \in candidates : c.rtt \in RTTs
  OBVIOUS
<1>4. ASSUME NEW b \in choose(candidates), Switch(candidates, b)
      PROVE  MarginInv'
  <2> HIDE DEF candidates
  <2> QED
    BY <1>3, <1>4, SwitchKeeps, Zenon
<1>5. CASE UNCHANGED <<current, left, swing>>
  BY <1>5, Zenon DEF MarginInv, NoFlapping
<1> QED
  BY <1>2, <1>4, <1>5, Zenon

-----------------------------------------------------------------------------
(* The best candidate. *)

\* Among candidates of one tier one has the least biased round-trip time.
LEMMA LeastBiased ==
  ASSUME NEW C, C # {}, \A c \in C : c.rtt \in RTTs
  PROVE  \E b \in C : \A c \in C : biased(b) <= biased(c)
<1> DEFINE adv == IPV6_RTT_ADVANTAGE
           T == {biased(c) + adv : c \in C}
<1>1. adv \in Nat /\ RTTs \subseteq Nat
  BY SelectorAssumption, Zenon
<1>2. ASSUME NEW c \in C
      PROVE  biased(c) \in Int /\ biased(c) + adv \in Nat
  <2>1. c.rtt \in Nat
    BY <1>1, Zenon
  <2>2. CASE c.path.kind \in {"ip6", "mapped"}
    <3>1. biased(c) = c.rtt - adv
      BY <2>2, Zenon DEF biased
    <3> QED
      BY <1>1, <2>1, <3>1
  <2>3. CASE c.path.kind \notin {"ip6", "mapped"}
    <3>1. biased(c) = c.rtt - 0
      BY <2>3, Zenon DEF biased
    <3> QED
      BY <1>1, <2>1, <3>1
  <2> QED
    BY <2>2, <2>3, Zenon
<1> HIDE DEF adv
<1>3. T \subseteq Nat /\ T # {}
  BY <1>2, Zenon
<1>4. PICK x \in T : \A y \in T : x <= y
  BY <1>3, LeastExists, Zenon
<1>5. PICK b \in C : x = biased(b) + adv
  BY <1>4, Zenon
<1>6. ASSUME NEW c \in C
      PROVE  biased(b) <= biased(c)
  <2>1. biased(b) + adv <= biased(c) + adv
    BY <1>4, <1>5, Zenon
  <2> QED
    BY <1>1, <1>2, <2>1
<1> QED
  BY <1>6, Zenon

\* Candidates that are not excluded have a best one: no other is better.
LEMMA BestExists ==
  ASSUME NEW C, C # {}, \A c \in C : c.rtt \in RTTs
  PROVE  \E b \in C : \A c \in C : ~Better(c, b)
<1> DEFINE D == {c \in C : ~is_relay(c.path)}
<1>1. \A c \in C : biased(c) \in Int
  BY BiasedInt, Zenon
<1>2. CASE D # {}
  <2>1. PICK b \in D : \A c \in D : biased(b) <= biased(c)
    BY <1>2, LeastBiased, Zenon
  <2>2. ASSUME NEW c \in C, Better(c, b)
        PROVE  FALSE
    <3>1. ~is_relay(c.path) /\ biased(c) < biased(b)
      BY <2>1, <2>2, Zenon DEF Better
    <3> QED
      BY <1>1, <2>1, <3>1
  <2> QED
    BY <2>1, <2>2, Zenon
<1>3. CASE D = {}
  <2>1. PICK b \in C : \A c \in C : biased(b) <= biased(c)
    BY LeastBiased, Zenon
  <2>2. ASSUME NEW c \in C, Better(c, b)
        PROVE  FALSE
    <3>1. biased(c) < biased(b)
      BY <1>3, <2>1, <2>2, Zenon DEF Better
    <3> QED
      BY <1>1, <2>1, <3>1
  <2> QED
    BY <2>1, <2>2, Zenon
<1> QED
  BY <1>2, <1>3, Zenon

\* What the tunnel is on, given what the last call was shown.
TierInv ==
  /\ current # None /\ is_excluded(current) => seen = {}
  /\ current # None /\ is_relay(current) => \A p \in seen : is_relay(p)

\* A call of choose leaves an excluded path for any allowed one and the relay for any
\* direct one, and keeps the selection only if there is none.
LEMMA SelectKeepsTier ==
  ASSUME NEW open, Select(open)
  PROVE  TierInv'
<1>1. PICK paths \in SUBSET open : \E rtt \in [paths -> RTTs] :
        LET candidates == {[path |-> p, rtt |-> rtt[p]] : p \in paths}
        IN  /\ seen' = {c.path : c \in Allowed(candidates)}
            /\ \/ \E b \in choose(candidates) : Switch(candidates, b)
               \/ choose(candidates) = {} /\ UNCHANGED <<current, left, swing>>
  BY Zenon DEF Select
<1>2. PICK rtt \in [paths -> RTTs] :
        LET candidates == {[path |-> p, rtt |-> rtt[p]] : p \in paths}
        IN  /\ seen' = {c.path : c \in Allowed(candidates)}
            /\ \/ \E b \in choose(candidates) : Switch(candidates, b)
               \/ choose(candidates) = {} /\ UNCHANGED <<current, left, swing>>
  BY <1>1, Zenon
<1> DEFINE candidates == {[path |-> p, rtt |-> rtt[p]] : p \in paths}
           allowed == Allowed(candidates)
<1>3. \A c \in allowed : c.rtt \in RTTs /\ ~is_excluded(c.path)
  BY DEF Allowed
<1>4. seen' = {c.path : c \in allowed}
  BY <1>2, Zenon
<1>5. ASSUME NEW b \in choose(candidates), Switch(candidates, b)
      PROVE  TierInv'
  <2>1. b \in allowed /\ \A c \in allowed : ~Better(c, b)
    BY <1>5, Zenon DEF choose
  <2>2. current' = b.path
    BY <1>5, Zenon DEF Switch
  <2> HIDE DEF candidates, allowed
  <2>3. is_relay(b.path) => \A c \in allowed : is_relay(c.path)
    BY <2>1, Zenon DEF Better
  <2> QED
    BY <1>3, <1>4, <2>1, <2>2, <2>3, Zenon DEF TierInv
<1>6. ASSUME choose(candidates) = {}, current' = current
      PROVE  TierInv'
  <2>1. CASE allowed = {}
    BY <1>4, <2>1, Zenon DEF TierInv
  <2>2. CASE allowed # {}
    <3>1. PICK b \in allowed : \A c \in allowed : ~Better(c, b)
      BY <1>3, <2>2, BestExists, Zenon
    <3>2. PICK c \in allowed : c.path = current /\ is_relay(c.path) = is_relay(b.path)
      BY <1>6, <3>1, Zenon DEF choose
    <3> HIDE DEF candidates, allowed
    <3>3. is_relay(b.path) => \A d \in allowed : is_relay(d.path)
      BY <3>1, Zenon DEF Better
    <3> QED
      BY <1>3, <1>4, <1>6, <3>2, <3>3, Zenon DEF TierInv
  <2> QED
    BY <2>1, <2>2, Zenon
<1> QED
  BY <1>2, <1>5, <1>6, Zenon

PathInv == MarginInv /\ TierInv

\* A lost path, like a call of choose, keeps margins and tier.
LEMMA PathSteps ==
  ASSUME PathInv, (\E open : Select(open)) \/ PathLost \/ UNCHANGED pathVars
  PROVE  PathInv'
<1>1. ASSUME NEW open, Select(open)
      PROVE  PathInv'
  BY <1>1, SelectKeepsMargin, SelectKeepsTier, Zenon DEF PathInv
<1>2. CASE PathLost
  BY <1>2, Zenon DEF PathLost, PathInv, MarginInv, NoFlapping, TierInv
<1>3. CASE UNCHANGED pathVars
  BY <1>3, Zenon DEF pathVars, PathInv, MarginInv, NoFlapping, TierInv
<1> QED
  BY <1>1, <1>2, <1>3, Zenon

\* Before the first call nothing was shown.
LEMMA PathStart ==
  ASSUME PathInit
  PROVE  PathInv
BY Zenon DEF PathInit, PathInv, MarginInv, NoFlapping, TierInv

\* Margins and tier are what the policy asks for.
LEMMA PathImplies ==
  ASSUME PathInv
  PROVE  PathPolicy
BY Zenon DEF PathInv, MarginInv, TierInv, PathPolicy

\* However round-trip times jitter and paths come and go, ExcludingPathSelector::choose
\* keeps an excluded path only while no allowed one is on offer and the relay only
\* while no direct one is, and it returns to a path of its tier only after the
\* difference has moved by twice the threshold.
THEOREM PolicyAlwaysKept == PathSpec => []PathPolicy
<1>1. PathInv /\ [PathNext]_pathVars => PathInv'
  BY PathSteps, Zenon DEF PathNext
<1> QED
  BY <1>1, PathStart, PathImplies, PTL DEF PathSpec

\* The same within a session whose networks change under it.
THEOREM PolicyKeptInSession == NetworkSpec => []PathPolicy
<1>1. NetworkInit => PathInv
  BY PathStart, Zenon DEF NetworkInit
<1>2. PathInv /\ [NetworkNext]_<<vars, pathVars>> => PathInv'
  BY PathSteps, Zenon DEF NetworkNext, SelectPath, LosePath
<1> QED
  BY <1>1, <1>2, PathImplies, PTL DEF NetworkSpec

-----------------------------------------------------------------------------
(* The overlap watch. *)

\* The refusal is recorded before the connection is closed, and a connection that is
\* still open when connect returns has no watcher left that could close it.
RefusalInv ==
  /\ pc \in {"check", "setup"} => watch = "none" /\ conn = "open"
  /\ watch = "recorded" => detected
  /\ conn = "closed" => detected
  /\ pc = "ended" /\ watch \in {"found", "recorded"} => conn # "open"
  /\ pc = "ended" => watch \notin {"spawned", "asleep"}
  /\ pc = "ended" /\ conn = "closed" => result = "RouteOverlapsLocalNetwork"
  /\ locals \in LocalSets
  /\ watch = "found" => last \subseteq UNION LocalSets /\ split_tunnel_conflict(last)

\* A watcher that sleeps has seen no conflict: one that is there now is news at its
\* next look, and until then no older than the polls that failed allow.
NoticeInv ==
  /\ timer \in 0..POLL /\ age \in Nat /\ failed \in Nat
  /\ watch \in {"spawned", "asleep"} => pc = "running"
  /\ pc \in {"check", "setup"} => age = 0
  /\ pc = "setup" \/ watch = "spawned" => ~CutOff(locals) /\ age = 0
  /\ pc = "running" /\ watch = "none" => ~has_refusable_routes
  /\ ~CutOff(locals) => age = 0
  /\ watch = "asleep" => /\ last \subseteq UNION LocalSets /\ ~CutOff(last)
                         /\ age + timer <= (failed + 1) * POLL
  /\ ConflictNoticed

\* A prefix of a sequence is its beginning.
LEMMA PrefixBits ==
  ASSUME NEW s \in Seq({0, 1}), NEW t \in Seq({0, 1})
  PROVE  IsPrefix(s, t) <=> Len(s) <= Len(t) /\ \A i \in 1..Len(s) : s[i] = t[i]
<1>1. SubSeq(s, 1, Len(s)) = [i \in 1..Len(s) |-> s[i]]
  OBVIOUS
<1>2. ASSUME Len(s) <= Len(t)
      PROVE  SubSeq(t, 1, Len(s)) = [i \in 1..Len(s) |-> t[i]]
  BY <1>2
<1>3. ASSUME Len(s) <= Len(t)
      PROVE  SubSeq(s, 1, Len(s)) = SubSeq(t, 1, Len(s)) <=>
               \A i \in 1..Len(s) : s[i] = t[i]
  BY <1>1, <1>2, <1>3, Zenon
<1> QED
  BY <1>3, Zenon DEF IsPrefix

\* Two prefixes overlap exactly if an address lies in both.
LEMMA OverlapIsShared ==
  ASSUME NEW s \in Seq({0, 1}), NEW t \in Seq({0, 1}),
         Len(s) <= AddressBits, Len(t) <= AddressBits
  PROVE  IsPrefix(s, t) \/ IsPrefix(t, s) <=>
           \E a \in [1..AddressBits -> {0, 1}] :
             (\A i \in 1..Len(s) : a[i] = s[i]) /\ (\A i \in 1..Len(t) : a[i] = t[i])
<1>0. AddressBits \in Nat /\ Len(s) \in Nat /\ Len(t) \in Nat
  BY HostAssumption
<1>1. ASSUME NEW u \in Seq({0, 1}), NEW v \in Seq({0, 1}), IsPrefix(u, v),
             Len(v) <= AddressBits
      PROVE  \E a \in [1..AddressBits -> {0, 1}] :
               (\A i \in 1..Len(u) : a[i] = u[i]) /\ (\A i \in 1..Len(v) : a[i] = v[i])
  <2> DEFINE a == [i \in 1..AddressBits |-> IF i <= Len(v) THEN v[i] ELSE 0]
  <2>1. Len(u) <= Len(v) /\ \A i \in 1..Len(u) : u[i] = v[i]
    BY <1>1, PrefixBits, Zenon
  <2>2. a \in [1..AddressBits -> {0, 1}]
    BY <1>0
  <2>3. \A i \in 1..Len(v) : a[i] = v[i]
    BY <1>0, <1>1
  <2>4. \A i \in 1..Len(u) : a[i] = u[i]
    BY <2>1, <2>3
  <2> QED
    BY <2>2, <2>3, <2>4, Zenon
<1>2. ASSUME NEW a \in [1..AddressBits -> {0, 1}],
             \A i \in 1..Len(s) : a[i] = s[i], \A i \in 1..Len(t) : a[i] = t[i]
      PROVE  IsPrefix(s, t) \/ IsPrefix(t, s)
  <2>1. CASE Len(s) <= Len(t)
    BY <1>0, <1>2, <2>1, PrefixBits
  <2>2. CASE Len(t) <= Len(s)
    BY <1>0, <1>2, <2>2, PrefixBits
  <2> QED
    BY <1>0, <2>1, <2>2
<1> QED
  BY <1>1, <1>2, Zenon

\* split_tunnel_conflict finds a conflict exactly if some address is both routed
\* specifically and on-link.
LEMMA ConflictIsCutOff ==
  ASSUME NEW nets, nets \subseteq UNION LocalSets
  PROVE  split_tunnel_conflict(nets) <=> CutOff(nets)
<1> DEFINE Shared(r, l) ==
             \E a \in [1..AddressBits -> {0, 1}] :
               (\A i \in 1..Len(r.bits) : a[i] = r.bits[i])
               /\ (\A i \in 1..Len(l.net.bits) : a[i] = l.net.bits[i])
<1>1. ASSUME NEW r \in Routes, NEW l \in nets
      PROVE  overlaps(r, l.net) <=> r.family = l.net.family /\ Shared(r, l)
  <2>1. /\ r.bits \in Seq({0, 1}) /\ Len(r.bits) <= AddressBits
        /\ l.net.bits \in Seq({0, 1}) /\ Len(l.net.bits) <= AddressBits
    BY HostAssumption, Zenon
  <2>2. IsPrefix(r.bits, l.net.bits) \/ IsPrefix(l.net.bits, r.bits) <=> Shared(r, l)
    BY <2>1, OverlapIsShared, Zenon
  <2> QED
    BY <2>2, Zenon DEF overlaps
<1>2. CutOff(nets) <=> \E r \in Routes, l \in nets :
        Len(r.bits) > EXEMPT_MAX_PREFIX_LEN /\ r.family = l.net.family /\ Shared(r, l)
  BY Zenon DEF CutOff
<1> HIDE DEF Shared
<1> QED
  BY <1>1, <1>2, Zenon DEF split_tunnel_conflict

\* What a sweep that does not fail finds of the host is what the host is on.
LEMMA SightingsAre ==
  ASSUME locals \in LocalSets, NEW where, NEW nets, local_networks(where, nets)
  PROVE  /\ Others(nets) \subseteq UNION LocalSets
         /\ where = "check" /\ where \notin FailingSweeps => nets = locals
         /\ \/ failed' = failed /\ Others(nets) = locals
            \/ failed' = failed + 1 /\ Others(nets) = {}
<1>1. \A l \in locals : l.interface # tun_name
  BY HostAssumption, Zenon
<1>2. \A l \in OwnTun : l.interface = tun_name
  BY HostAssumption, Zenon
<1>3. Others(locals) = locals /\ Others(locals \cup OwnTun) = locals /\ Others({}) = {}
  BY <1>1, <1>2, Zenon DEF Others
<1>4. CASE nets = locals \cup (IF where = "check" THEN {} ELSE OwnTun) /\ failed' = failed
  <2>1. Others(nets) = locals
    BY <1>3, <1>4, Zenon
  <2> QED
    BY <1>4, <2>1, Zenon
<1>5. CASE where \in FailingSweeps /\ nets = {} /\ failed' = failed + 1
  BY <1>3, <1>5, Zenon
<1> QED
  BY <1>4, <1>5, Zenon DEF local_networks

\* Every step keeps the refusal ahead of the close.
LEMMA RefusalStep ==
  ASSUME RefusalInv, [Next]_vars
  PROVE  RefusalInv'
<1>1. CASE OverlapCheck
  BY <1>1, Zenon DEF OverlapCheck, RefusalInv
<1>2. CASE SetUpDone
  BY <1>2, Zenon DEF SetUpDone, RefusalInv
<1>3. CASE ConnectionLost
  BY <1>3, Zenon DEF ConnectionLost, RefusalInv
<1>4. CASE ConnectReturns
  BY <1>4, Zenon DEF ConnectReturns, RefusalInv
<1>5. CASE Baseline
  BY <1>5, Zenon DEF Baseline, RefusalInv
<1>6. CASE Poll
  <2>1. PICK nets \in Sightings :
          /\ local_networks("poll", nets) /\ last' = Others(nets)
          /\ watch' = "found" => split_tunnel_conflict(last')
          /\ watch' \in {"found", "asleep"}
    BY <1>6, Zenon DEF Poll
  <2>2. last' \subseteq UNION LocalSets
    BY <2>1, SightingsAre, Zenon DEF RefusalInv
  <2> QED
    BY <1>6, <2>1, <2>2, Zenon DEF Poll, RefusalInv
<1>7. CASE Record
  BY <1>7, Zenon DEF Record, RefusalInv
<1>8. CASE CloseConnection
  BY <1>8, Zenon DEF CloseConnection, RefusalInv
<1>9. CASE NetworkChanges
  BY <1>9, Zenon DEF NetworkChanges, RefusalInv
<1>10. CASE Tick
  BY <1>10, Zenon DEF Tick, RefusalInv
<1>11. CASE Done \/ UNCHANGED vars
  BY <1>11, Zenon DEF Done, vars, RefusalInv
<1> QED
  BY <1>1, <1>2, <1>3, <1>4, <1>5, <1>6, <1>7, <1>8, <1>9, <1>10, <1>11, Zenon
     DEF Next, Connect, Watch

\* Every step keeps a conflict no older than the watcher's failed polls allow, if the
\* host stays where it is while connect sets up and the check's own sweep succeeds.
LEMMA NoticeStep ==
  ASSUME RefusalInv, NoticeInv, [Next]_vars, ~SetupChanges, "check" \notin FailingSweeps
  PROVE  NoticeInv'
<1> DEFINE Bound(n) == (n + 1) * POLL
<1>0. /\ POLL \in Nat \ {0} /\ timer \in 0..POLL /\ age \in Nat /\ failed \in Nat
      /\ locals \in LocalSets /\ locals \subseteq UNION LocalSets
  BY PollAssumption, Zenon DEF NoticeInv, RefusalInv
<1>a. /\ Bound(failed) \in Nat /\ POLL <= Bound(failed)
      /\ Bound(failed + 1) = Bound(failed) + POLL
  BY <1>0
<1> HIDE DEF Bound
<1>b. ConflictNoticed <=> (pc = "running" => age <= Bound(failed))
  BY Zenon DEF ConflictNoticed, Bound
<1>c. ConflictNoticed' <=> (pc' = "running" => age' <= Bound(failed'))
  BY Zenon DEF ConflictNoticed, Bound
<1>d. watch = "asleep" => age + timer <= Bound(failed)
  BY Zenon DEF NoticeInv, Bound
<1> DEFINE Asleep == watch' = "asleep" =>
                       /\ last' \subseteq UNION LocalSets /\ ~CutOff(last)'
                       /\ age' + timer' <= Bound(failed')
<1>e. Asleep => (watch' = "asleep" => age' + timer' <= (failed' + 1) * POLL)
  BY Zenon DEF Bound
<1>f. ~has_refusable_routes => ~CutOff(locals)
  BY Zenon DEF CutOff, has_refusable_routes
<1>1. CASE OverlapCheck
  <2>1. PICK nets \in Sightings :
          /\ local_networks("check", nets)
          /\ pc' = "setup" => ~split_tunnel_conflict(nets)
    BY <1>1, Zenon DEF OverlapCheck
  <2>2. /\ pc' = "setup" => ~CutOff(locals)
        /\ failed' \in {failed, failed + 1}
    BY <1>0, <2>1, SightingsAre, ConflictIsCutOff, Zenon DEF RefusalInv
  <2>3. /\ pc = "check" /\ pc' \in {"setup", "ended"}
        /\ UNCHANGED <<locals, watch, timer, last, detected, conn, age>>
    BY <1>1, Zenon DEF OverlapCheck
  <2>4. watch = "none" /\ age = 0
    BY <2>3, Zenon DEF RefusalInv, NoticeInv
  <2>5. CutOff(locals)' = CutOff(locals)
    BY <2>3, Zenon DEF CutOff
  <2> QED
    BY <1>0, <1>c, <2>2, <2>3, <2>4, <2>5 DEF NoticeInv
<1>2. CASE SetUpDone
  <2>1. /\ pc = "setup" /\ pc' = "running"
        /\ watch' = (IF has_refusable_routes THEN "spawned" ELSE "none")
        /\ UNCHANGED <<locals, timer, last, age, failed>>
    BY <1>2, Zenon DEF SetUpDone
  <2>2. ~CutOff(locals) /\ age = 0
    BY <2>1, Zenon DEF NoticeInv
  <2>3. CutOff(locals)' = CutOff(locals)
    BY <2>1, Zenon DEF CutOff
  <2>4. has_refusable_routes' = has_refusable_routes
    BY Zenon DEF has_refusable_routes
  <2> QED
    BY <1>0, <1>a, <1>c, <2>1, <2>2, <2>3, <2>4 DEF NoticeInv
<1>3. CASE ConnectReturns
  <2>1. /\ pc' = "ended" /\ watch' \notin {"spawned", "asleep"}
        /\ UNCHANGED <<locals, timer, last, age, failed>>
    BY <1>3, Zenon DEF ConnectReturns
  <2>2. CutOff(locals)' = CutOff(locals)
    BY <2>1, Zenon DEF CutOff
  <2> QED
    BY <1>0, <1>c, <2>1, <2>2, Zenon DEF NoticeInv
<1>4. CASE Baseline
  <2>1. PICK nets \in Sightings : local_networks("baseline", nets) /\ last' = Others(nets)
    BY <1>4, Zenon DEF Baseline
  <2>2. /\ watch = "spawned" /\ watch' = "asleep" /\ timer' = POLL
        /\ UNCHANGED <<locals, pc, age>>
    BY <1>4, Zenon DEF Baseline
  <2>3. pc = "running" /\ ~CutOff(locals) /\ age = 0
    BY <2>2, Zenon DEF NoticeInv
  <2>4. /\ last' \subseteq UNION LocalSets /\ failed' \in {failed, failed + 1}
        /\ last' = locals \/ last' = {}
    BY <1>0, <2>1, SightingsAre, Zenon
  <2>5. CutOff(locals)' = CutOff(locals) /\ ~CutOff(last)'
    <3>1. ~CutOff({})
      BY Zenon DEF CutOff
    <3> QED
      BY <2>2, <2>3, <2>4, <3>1, Zenon DEF CutOff
  <2>6. /\ age' + timer' <= Bound(failed') /\ age' <= Bound(failed')
        /\ age' = 0 /\ timer' \in 0..POLL /\ failed' \in Nat
    BY <1>0, <1>a, <2>2, <2>3, <2>4
  <2>7. /\ pc' = "running" /\ watch' = "asleep" /\ ~CutOff(locals)' /\ ~CutOff(last)'
        /\ last' \subseteq UNION LocalSets
    BY <2>2, <2>3, <2>4, <2>5, Zenon
  <2>8. ConflictNoticed' /\ age' + timer' <= (failed' + 1) * POLL
    BY <1>c, <2>6, Zenon DEF Bound
  <2> QED
    BY <2>6, <2>7, <2>8, Zenon DEF NoticeInv
<1>5. CASE Poll
  <2>1. PICK nets \in Sightings :
          /\ local_networks("poll", nets) /\ last' = Others(nets)
          /\ IF last' # last /\ split_tunnel_conflict(last')
             THEN watch' = "found" /\ timer' = timer
             ELSE watch' = "asleep" /\ timer' = POLL
    BY <1>5, Zenon DEF Poll
  <2>2. /\ watch = "asleep" /\ timer = 0 /\ UNCHANGED <<locals, pc, age>>
    BY <1>5, Zenon DEF Poll
  <2>3. /\ pc = "running" /\ ~CutOff(last) /\ (~CutOff(locals) => age = 0)
        /\ age <= Bound(failed)
    BY <1>0, <1>d, <2>2 DEF NoticeInv
  <2>4. /\ last' \subseteq UNION LocalSets
        /\ \/ failed' = failed /\ last' = locals
           \/ failed' = failed + 1 /\ last' = {}
    BY <1>0, <2>1, SightingsAre, Zenon
  <2>5. CutOff(locals)' = CutOff(locals) /\ (CutOff(last)' <=> CutOff(last'))
    BY <2>2, Zenon DEF CutOff
  <2>6. age' <= Bound(failed') /\ failed' \in Nat /\ timer' \in 0..POLL
    BY <1>0, <1>a, <2>1, <2>2, <2>3, <2>4
  <2>7. ASSUME watch' = "asleep"
        PROVE  ~CutOff(last)' /\ age' + timer' <= Bound(failed')
    <3>1. last' = last \/ ~CutOff(last')
      BY <2>1, <2>4, <2>7, ConflictIsCutOff, Zenon
    <3>2. ~CutOff(last')
      BY <2>3, <3>1, Zenon
    <3>3. timer' = POLL
      BY <2>1, <2>7, Zenon
    <3>4. CASE failed' = failed /\ last' = locals
      <4>1. age' = 0
        BY <2>2, <2>3, <3>2, <3>4, Zenon
      <4> QED
        BY <1>0, <1>a, <2>5, <3>2, <3>3, <3>4, <4>1
    <3>5. CASE failed' = failed + 1
      BY <1>0, <1>a, <2>2, <2>3, <2>5, <3>2, <3>3, <3>5
    <3> QED
      BY <2>4, <3>4, <3>5, Zenon
  <2>8. watch' \in {"found", "asleep"}
    BY <2>1, Zenon
  <2> QED
    BY <1>0, <1>c, <1>e, <2>2, <2>3, <2>4, <2>5, <2>6, <2>7, <2>8, Zenon DEF NoticeInv
<1>6. CASE Record \/ CloseConnection
  <2>1. /\ watch \in {"found", "recorded"} /\ watch' \in {"recorded", "done"}
        /\ UNCHANGED <<locals, pc, timer, last, age, failed>>
    BY <1>6, Zenon DEF Record, CloseConnection
  <2>2. CutOff(locals)' = CutOff(locals)
    BY <2>1, Zenon DEF CutOff
  <2> QED
    BY <1>0, <1>b, <1>c, <2>1, <2>2, Zenon DEF NoticeInv
<1>7. CASE NetworkChanges
  <2>1. /\ pc = "check" \/ (pc = "running" /\ watch # "spawned")
        /\ locals' \in LocalSets /\ age' = (IF CutOff(locals') THEN age ELSE 0)
        /\ UNCHANGED <<pc, watch, timer, last, failed>>
    BY <1>7, Zenon DEF NetworkChanges
  <2>2. /\ CutOff(locals)' <=> CutOff(locals')
        /\ CutOff(last)' <=> CutOff(last)
        /\ has_refusable_routes' <=> has_refusable_routes
    BY <2>1, Zenon DEF CutOff, has_refusable_routes
  <2>3. age' \in Nat /\ age' <= age
    BY <1>0, <2>1
  <2>4. age' <= Bound(failed') \/ pc' # "running"
    BY <1>0, <1>a, <1>b, <2>1, <2>3 DEF NoticeInv
  <2>5. watch' = "asleep" => age' + timer' <= Bound(failed')
    BY <1>0, <1>a, <1>d, <2>1, <2>3
  <2>6. pc \in {"check", "setup"} => watch # "spawned"
    BY Zenon DEF NoticeInv
  <2> QED
    BY <1>0, <1>c, <1>e, <2>1, <2>2, <2>3, <2>4, <2>5, <2>6, Zenon DEF NoticeInv
<1>8. CASE Tick
  <2>1. /\ pc \in {"setup", "running"} /\ watch \in {"none", "asleep"}
        /\ watch = "asleep" => timer > 0
        /\ timer' = (IF watch = "asleep" THEN timer - 1 ELSE timer)
        /\ age' = (IF pc = "running" /\ CutOff(locals) THEN age + 1 ELSE 0)
        /\ UNCHANGED <<locals, pc, watch, last, failed>>
    BY <1>8, Zenon DEF Tick
  <2>2. /\ CutOff(locals)' <=> CutOff(locals)
        /\ CutOff(last)' <=> CutOff(last)
        /\ has_refusable_routes' <=> has_refusable_routes
    BY <2>1, Zenon DEF CutOff, has_refusable_routes
  <2>3. age' \in Nat /\ timer' \in 0..POLL
    BY <1>0, <2>1
  <2>4. CASE watch = "asleep"
    <3>1. age' + timer' <= Bound(failed') /\ age' <= Bound(failed')
      BY <1>0, <1>a, <1>d, <2>1, <2>4
    <3> QED
      BY <1>0, <1>c, <1>e, <2>1, <2>2, <2>3, <2>4, <3>1, Zenon DEF NoticeInv
  <2>5. CASE watch = "none"
    <3>1. age' = 0
      BY <1>f, <2>1, <2>5, Zenon DEF NoticeInv
    <3> QED
      BY <1>0, <1>a, <1>c, <2>1, <2>2, <2>3, <2>5, <3>1 DEF NoticeInv
  <2> QED
    BY <2>1, <2>4, <2>5, Zenon
<1>9. CASE ConnectionLost \/ Done \/ UNCHANGED vars
  <2>1. UNCHANGED <<locals, pc, watch, timer, last, age, failed>>
    BY <1>9, Zenon DEF ConnectionLost, Done, vars
  <2>2. /\ CutOff(locals)' <=> CutOff(locals)
        /\ CutOff(last)' <=> CutOff(last)
        /\ has_refusable_routes' <=> has_refusable_routes
    BY <2>1, Zenon DEF CutOff, has_refusable_routes
  <2> QED
    BY <2>1, <2>2, Zenon DEF NoticeInv, ConflictNoticed
<1> QED
  BY <1>1, <1>2, <1>3, <1>4, <1>5, <1>6, <1>7, <1>8, <1>9, Zenon DEF Next, Connect, Watch

\* For any routes and networks, if the watcher closed the connection its refusal is
\* what connect returns, and it closes one only over a network the host is on.
THEOREM RefusalAlwaysSurfaces == NetworkSpec => []RefusalSurfaces
<1>1. NetworkInit => RefusalInv
  BY Zenon DEF NetworkInit, Init, RefusalInv
<1>2. RefusalInv /\ [NetworkNext]_<<vars, pathVars>> => RefusalInv'
  BY RefusalStep, Zenon DEF NetworkNext, SelectPath, LosePath
<1>3. RefusalInv => RefusalSurfaces
  <2> SUFFICES ASSUME RefusalInv PROVE RefusalSurfaces
    BY Zenon
  <2>1. ASSUME watch = "found"
        PROVE  CutOff(last \cap UNION LocalSets)
    <3>1. last \subseteq UNION LocalSets /\ split_tunnel_conflict(last)
      BY <2>1, Zenon DEF RefusalInv
    <3>2. last \cap UNION LocalSets = last
      BY <3>1, Zenon
    <3> QED
      BY <3>1, <3>2, ConflictIsCutOff, Zenon
  <2> QED
    BY <2>1, Zenon DEF RefusalInv, RefusalSurfaces
<1> QED
  BY <1>1, <1>2, <1>3, PTL DEF NetworkSpec

\* For any routes, networks and poll interval: if the host stays where it is while
\* connect sets the tunnel up, and the sweep of connect's own check succeeds, a
\* conflict that arises later goes unnoticed for one poll interval and one more for
\* every sweep that failed (spawn_local_network_overlap_watch).
THEOREM ConflictAlwaysNoticed ==
  ASSUME ~SetupChanges, "check" \notin FailingSweeps
  PROVE  NetworkSpec => []ConflictNoticed
<1> DEFINE WatchInv == RefusalInv /\ NoticeInv
<1>1. NetworkInit => WatchInv
  BY PollAssumption DEF NetworkInit, Init, RefusalInv, NoticeInv, ConflictNoticed
<1>2. WatchInv /\ [NetworkNext]_<<vars, pathVars>> => WatchInv'
  <2> SUFFICES ASSUME WatchInv, [NetworkNext]_<<vars, pathVars>> PROVE WatchInv'
    BY Zenon
  <2>1. [Next]_vars
    BY Zenon DEF NetworkNext, SelectPath, LosePath
  <2> QED
    BY <2>1, RefusalStep, NoticeStep, Zenon
<1>3. WatchInv => ConflictNoticed
  BY Zenon DEF NoticeInv
<1> QED
  BY <1>1, <1>2, <1>3, PTL DEF NetworkSpec
=============================================================================
