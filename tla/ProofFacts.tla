----------------------------- MODULE ProofFacts -----------------------------
(***************************************************************************)
(* Facts about numbers, finite sums and recursive functions that the proofs *)
(* about the components rest on: induction over the naturals and over the   *)
(* subsets of a finite set, in a form the provers can instantiate (the      *)
(* property is a set, not an operator); what SumFunction and Min compute;   *)
(* that a function recursive along a sequence exists.                       *)
(***************************************************************************)
EXTENDS Integers, Sequences, FiniteSetsExt, FiniteSetTheorems, SequenceTheorems,
        WellFoundedInduction, TLAPS

-----------------------------------------------------------------------------
(* Induction. *)

\* The naturals are ordered by a well-founded relation.
LEMMA NatOrder ==
  \E R : IsWellFoundedOn(R, Nat) /\ \A x, y \in Nat : x < y => <<x, y>> \in R
<1>1. IsWellFoundedOn(OpToRel(<, Nat), Nat)
  BY NatLessThanWellFounded, Zenon
<1>2. \A x, y \in Nat : x < y => <<x, y>> \in OpToRel(<, Nat)
  BY Zenon DEF OpToRel
<1> QED
  BY <1>1, <1>2, Zenon

\* A well-founded relation has a minimal element in every set that is not empty.
LEMMA MinimalExists ==
  ASSUME NEW T, T \subseteq Nat, T # {}, NEW R, IsWellFoundedOn(R, Nat)
  PROVE  \E x \in T : \A y \in T : ~(<<y, x>> \in R)
BY WFMin, Zenon

\* A set of naturals that is not empty has a least element.
LEMMA LeastExists ==
  ASSUME NEW T, T \subseteq Nat, T # {}
  PROVE  \E x \in T : \A y \in T : x <= y
<1>1. PICK R : IsWellFoundedOn(R, Nat) /\ \A x, y \in Nat : x < y => <<x, y>> \in R
  BY NatOrder, Zenon
<1>2. PICK x \in T : \A y \in T : ~(<<y, x>> \in R)
  BY <1>1, MinimalExists, Zenon
<1>3. ASSUME NEW y \in T
      PROVE  x <= y
  <2>1. x \in Nat /\ y \in Nat
    BY <1>2, Zenon
  <2>2. ~(y < x)
    BY <1>1, <1>2, <2>1, Zenon
  <2> QED
    BY <2>1, <2>2
<1> QED
  BY <1>3, Zenon

\* Induction over the naturals: what holds at 0 and goes on holding, holds.
LEMMA Induct ==
  ASSUME NEW G, 0 \in G, \A n \in Nat : n \in G => n + 1 \in G
  PROVE  Nat \subseteq G
<1> SUFFICES ASSUME ~(Nat \subseteq G) PROVE FALSE
  BY Zenon
<1> DEFINE B == {n \in Nat : n \notin G}
<1>1. B \subseteq Nat /\ B # {}
  BY Zenon
<1>2. PICK x \in B : \A y \in B : x <= y
  BY <1>1, LeastExists, Zenon
<1>3. x # 0 /\ x \in Nat
  BY <1>2, Zenon
<1>4. x - 1 \in Nat /\ (x - 1) + 1 = x /\ ~(x <= x - 1)
  BY <1>3
<1>5. x - 1 \in G
  BY <1>2, <1>4, Zenon
<1> QED
  BY <1>2, <1>4, <1>5, Zenon

\* Induction over the subsets of a finite set.
LEMMA InductSubsets ==
  ASSUME NEW S, IsFiniteSet(S), NEW G,
         \A T \in SUBSET S : (\A x \in T : T \ {x} \in G) => T \in G
  PROVE  SUBSET S \subseteq G
<1> DEFINE L == {n \in Nat : \A T \in SUBSET S : Cardinality(T) = n => T \in G}
<1>1. \A T \in SUBSET S : /\ Cardinality(T) \in Nat
                          /\ \A x \in T : /\ T \ {x} \in SUBSET S
                                          /\ Cardinality(T \ {x}) = Cardinality(T) - 1
  BY FS_Subset, FS_CardinalityType, FS_RemoveElement, Zenon
<1>2. \A T \in SUBSET S : Cardinality(T) = 0 => T = {}
  BY FS_Subset, FS_EmptySet, Zenon
<1>3. 0 \in L
  BY <1>2, Zenon
<1>4. ASSUME NEW n \in Nat, n \in L
      PROVE  n + 1 \in L
  <2> SUFFICES ASSUME NEW T \in SUBSET S, Cardinality(T) = n + 1
               PROVE  T \in G
    OBVIOUS
  <2>1. \A x \in T : T \ {x} \in SUBSET S /\ Cardinality(T \ {x}) = n
    BY <1>1
  <2> QED
    BY <1>4, <2>1, Zenon
<1> HIDE DEF L
<1>5. Nat \subseteq L
  BY <1>3, <1>4, Induct, Zenon
<1> QED
  BY <1>1, <1>5, Zenon DEF L

-----------------------------------------------------------------------------
(* The sum of a function over a finite set. *)

\* The element a sum takes next.
Next1(T) == CHOOSE x \in T : TRUE

\* g is the sum of f over each subset of S, as SumFunction computes it.
Sums(g, f, S) ==
  g = [T \in SUBSET S |-> IF T = {} THEN 0 ELSE f[Next1(T)] + g[T \ {Next1(T)}]]

\* There is such a g: it is known for sets of at most n elements, for every n.
LEMMA SumExists ==
  ASSUME NEW S, IsFiniteSet(S), NEW f \in [S -> Nat]
  PROVE  \E g \in [SUBSET S -> Nat] : Sums(g, f, S)
<1> DEFINE Level(n) == {T \in SUBSET S : Cardinality(T) <= n}
           Body(h, T) == IF T = {} THEN 0 ELSE f[Next1(T)] + h[T \ {Next1(T)}]
           Good == {n \in Nat : \E h \in [Level(n) -> Nat] :
                                  \A T \in Level(n) : h[T] = Body(h, T)}
<1>1. \A T \in SUBSET S : /\ Cardinality(T) \in Nat
                          /\ Cardinality(T) = 0 <=> T = {}
                          /\ \A x \in T : /\ T \ {x} \in SUBSET S
                                          /\ Cardinality(T \ {x}) = Cardinality(T) - 1
  BY FS_Subset, FS_CardinalityType, FS_RemoveElement, FS_EmptySet, Zenon
<1>2. \A T \in SUBSET S : T # {} => Next1(T) \in T /\ f[Next1(T)] \in Nat
  BY Zenon DEF Next1
<1>3. 0 \in Good
  <2> DEFINE h == [T \in Level(0) |-> 0]
  <2>1. h \in [Level(0) -> Nat] /\ \A T \in Level(0) : T = {} /\ h[T] = 0
    BY <1>1
  <2> HIDE DEF h
  <2>2. \A T \in Level(0) : h[T] = Body(h, T)
    BY <2>1, Zenon
  <2> QED
    BY <2>1, <2>2, Zenon
<1>4. ASSUME NEW n \in Nat, n \in Good
      PROVE  n + 1 \in Good
  <2>1. PICK h \in [Level(n) -> Nat] : \A T \in Level(n) : h[T] = Body(h, T)
    BY <1>4, Zenon
  <2> DEFINE k == [T \in Level(n + 1) |-> IF T \in Level(n) THEN h[T] ELSE Body(h, T)]
  <2>2. \A T \in Level(n + 1) : /\ T \in SUBSET S
                                /\ T # {} => T \ {Next1(T)} \in Level(n)
                                /\ T # {} => T \ {Next1(T)} \in Level(n + 1)
    BY <1>1, <1>2
  <2>3. \A T \in Level(n) : T \in Level(n + 1)
    BY <1>1
  <2>4. \A T \in Level(n + 1) : Body(h, T) \in Nat
    BY <1>2, <2>1, <2>2
  <2>5. k \in [Level(n + 1) -> Nat]
    BY <2>1, <2>4, Zenon
  <2>6. \A T \in Level(n) : k[T] = h[T]
    BY <2>3, Zenon
  <2>7. \A T \in Level(n + 1) : Body(k, T) = Body(h, T)
    <3> HIDE DEF k, Level
    <3> QED
      BY <2>2, <2>6, Zenon
  <2>8. \A T \in Level(n + 1) : k[T] = Body(h, T)
    BY <2>1, Zenon
  <2>9. \A T \in Level(n + 1) : k[T] = Body(k, T)
    BY <2>7, <2>8, Zenon
  <2> HIDE DEF k, Level, Body
  <2> QED
    BY <2>5, <2>9
<1>5. Nat \subseteq Good
  <2> HIDE DEF Good
  <2> QED
    BY <1>3, <1>4, Induct, Zenon
<1>6. Cardinality(S) \in Nat /\ \A T \in SUBSET S : Cardinality(T) <= Cardinality(S)
  BY FS_Subset, FS_CardinalityType, Zenon
<1>7. Level(Cardinality(S)) = SUBSET S
  BY <1>6, Zenon
<1>8. PICK g \in [SUBSET S -> Nat] : \A T \in SUBSET S : g[T] = Body(g, T)
  <2> HIDE DEF Level, Body
  <2> QED
    BY <1>5, <1>6, <1>7, Zenon
<1>9. g = [T \in SUBSET S |-> g[T]]
  BY <1>8, Zenon
<1>10. Sums(g, f, S)
  BY <1>8, <1>9, Zenon DEF Sums
<1> QED
  BY <1>10, Zenon

\* g is the sum of f over each subset of S, which takes some element first.
SumsSome(g, f, S) ==
  /\ g \in [SUBSET S -> Nat] /\ g[{}] = 0
  /\ \A T \in SUBSET S : T # {} => \E x \in T : g[T] = f[x] + g[T \ {x}]

\* The same, whatever element it takes first.
SumsAny(g, f, S) ==
  /\ g \in [SUBSET S -> Nat] /\ g[{}] = 0
  /\ \A T \in SUBSET S : \A x \in T : g[T] = f[x] + g[T \ {x}]

\* What SumFunction computes.
LEMMA SumSome ==
  ASSUME NEW S, IsFiniteSet(S), NEW f \in [S -> Nat]
  PROVE  \E g : SumFunction(f) = g[S] /\ SumsSome(g, f, S)
<1> DEFINE g == CHOOSE g : Sums(g, f, S)
<1>1. DOMAIN f = S
  BY Zenon
<1>2. SumFunction(f) = g[S]
  BY <1>1, Zenon
     DEF SumFunction, SumFunctionOnSet, FoldFunctionOnSet, MapThenFoldSet, Sums, Next1
<1>3. Sums(g, f, S)
  BY SumExists, Zenon
<1> HIDE DEF g
<1>4. DOMAIN g = SUBSET S /\ g = [T \in SUBSET S |-> g[T]]
  BY <1>3, Zenon DEF Sums
<1>5. \A T \in SUBSET S : T # {} => Next1(T) \in T
  BY Zenon DEF Next1
<1>6. g[{}] = 0
  BY <1>3, Zenon DEF Sums
<1>7. \A T \in SUBSET S : T # {} => g[T] = f[Next1(T)] + g[T \ {Next1(T)}]
  BY <1>3, Zenon DEF Sums
<1> DEFINE Good == {T \in SUBSET S : g[T] \in Nat}
<1>8. ASSUME NEW T \in SUBSET S, \A x \in T : T \ {x} \in Good
      PROVE  T \in Good
  <2>1. CASE T = {}
    BY <1>6, <2>1
  <2>2. CASE T # {}
    <3>1. Next1(T) \in T /\ f[Next1(T)] \in Nat /\ g[T \ {Next1(T)}] \in Nat
      BY <1>5, <1>8, <2>2, Zenon
    <3> QED
      BY <1>7, <2>2, <3>1
  <2> QED
    BY <2>1, <2>2, Zenon
<1>9. SUBSET S \subseteq Good
  <2> HIDE DEF Good
  <2> QED
    BY <1>8, InductSubsets, Zenon
<1>10. g \in [SUBSET S -> Nat]
  BY <1>4, <1>9, Zenon
<1>11. \A T \in SUBSET S : T # {} => \E x \in T : g[T] = f[x] + g[T \ {x}]
  BY <1>5, <1>7, Zenon
<1> QED
  BY <1>2, <1>6, <1>10, <1>11, Zenon DEF SumsSome

\* A sum may take any element first.
LEMMA SumAny ==
  ASSUME NEW S, IsFiniteSet(S), NEW f \in [S -> Nat], NEW g, SumsSome(g, f, S)
  PROVE  SumsAny(g, f, S)
<1>0. /\ g \in [SUBSET S -> Nat] /\ g[{}] = 0
      /\ \A T \in SUBSET S : T # {} => \E x \in T : g[T] = f[x] + g[T \ {x}]
  BY Zenon DEF SumsSome
<1> DEFINE Good == {T \in SUBSET S : \A x \in T : g[T] = f[x] + g[T \ {x}]}
<1>1. ASSUME NEW T \in SUBSET S, \A x \in T : T \ {x} \in Good
      PROVE  T \in Good
  <2> SUFFICES ASSUME NEW x \in T PROVE g[T] = f[x] + g[T \ {x}]
    BY Zenon
  <2>1. PICK y \in T : g[T] = f[y] + g[T \ {y}]
    BY <1>0, Zenon
  <2>2. CASE x = y
    BY <2>1, <2>2, Zenon
  <2>3. CASE x # y
    <3> DEFINE U == (T \ {x}) \ {y}
    <3>1. U = (T \ {y}) \ {x} /\ U \in SUBSET S /\ x \in T \ {y} /\ y \in T \ {x}
      BY <2>3, Zenon
    <3>2. g[T \ {y}] = f[x] + g[U]
      BY <1>1, <3>1, Zenon
    <3>3. g[T \ {x}] = f[y] + g[U]
      BY <1>1, <3>1, Zenon
    <3>4. f[x] \in Nat /\ f[y] \in Nat /\ g[U] \in Nat
      BY <1>0, <3>1, Zenon
    <3> QED
      BY <2>1, <3>2, <3>3, <3>4
  <2> QED
    BY <2>2, <2>3, Zenon
<1>2. SUBSET S \subseteq Good
  <2> HIDE DEF Good
  <2> QED
    BY <1>1, InductSubsets, Zenon
<1> QED
  BY <1>0, <1>2, Zenon DEF SumsAny

\* What SumFunction computes, in any order.
LEMMA SumIs ==
  ASSUME NEW S, IsFiniteSet(S), NEW f \in [S -> Nat]
  PROVE  \E g : SumFunction(f) = g[S] /\ SumsAny(g, f, S)
<1>1. PICK g : SumFunction(f) = g[S] /\ SumsSome(g, f, S)
  BY SumSome, Zenon
<1>2. SumsAny(g, f, S)
  BY <1>1, SumAny, Zenon
<1> QED
  BY <1>1, <1>2, Zenon

\* The sum of a function of naturals is a natural.
LEMMA SumNat ==
  ASSUME NEW S, IsFiniteSet(S), NEW f \in [S -> Nat]
  PROVE  SumFunction(f) \in Nat
<1>1. PICK g : SumFunction(f) = g[S] /\ SumsAny(g, f, S)
  BY SumIs, Zenon
<1> QED
  BY <1>1 DEF SumsAny

\* Nothing sums to nothing.
LEMMA SumZero ==
  ASSUME NEW S, IsFiniteSet(S), NEW f \in [S -> Nat], \A x \in S : f[x] = 0
  PROVE  SumFunction(f) = 0
<1>1. PICK g : SumFunction(f) = g[S] /\ SumsAny(g, f, S)
  BY SumIs, Zenon
<1> DEFINE Good == {T \in SUBSET S : g[T] = 0}
<1>2. ASSUME NEW T \in SUBSET S, \A x \in T : T \ {x} \in Good
      PROVE  T \in Good
  <2>1. CASE T = {}
    BY <1>1, <2>1, Zenon DEF SumsAny
  <2>2. ASSUME NEW x \in T
        PROVE  T \in Good
    <3>1. g[T] = f[x] + g[T \ {x}] /\ f[x] = 0 /\ g[T \ {x}] = 0
      BY <1>1, <1>2, <2>2, Zenon DEF SumsAny
    <3> QED
      BY <3>1
  <2> QED
    BY <2>1, <2>2, Zenon
<1>3. SUBSET S \subseteq Good
  <2> HIDE DEF Good
  <2> QED
    BY <1>2, InductSubsets, Zenon
<1> QED
  BY <1>1, <1>3, Zenon

\* Two functions that differ at x only have sums that differ by that.
LEMMA SumDiffers ==
  ASSUME NEW S, IsFiniteSet(S), NEW f \in [S -> Nat], NEW e \in [S -> Nat],
         NEW x \in S, \A y \in S : y # x => e[y] = f[y]
  PROVE  SumFunction(e) + f[x] = SumFunction(f) + e[x]
<1>1. PICK g : SumFunction(f) = g[S] /\ SumsAny(g, f, S)
  BY SumIs, Zenon
<1>2. PICK k : SumFunction(e) = k[S] /\ SumsAny(k, e, S)
  BY SumIs, Zenon
<1> DEFINE Good == {T \in SUBSET S : x \notin T => g[T] = k[T]}
<1>3. ASSUME NEW T \in SUBSET S, \A y \in T : T \ {y} \in Good
      PROVE  T \in Good
  <2>1. CASE T = {}
    BY <1>1, <1>2, <2>1, Zenon DEF SumsAny
  <2>2. ASSUME NEW y \in T, x \notin T
        PROVE  T \in Good
    <3>1. g[T] = f[y] + g[T \ {y}]
      BY <1>1, Zenon DEF SumsAny
    <3>2. k[T] = e[y] + k[T \ {y}]
      BY <1>2, Zenon DEF SumsAny
    <3>3. e[y] = f[y] /\ g[T \ {y}] = k[T \ {y}]
      BY <1>3, <2>2, Zenon
    <3> QED
      BY <3>1, <3>2, <3>3, Zenon
  <2> QED
    BY <2>1, <2>2, Zenon
<1>4. SUBSET S \subseteq Good
  <2> HIDE DEF Good
  <2> QED
    BY <1>3, InductSubsets, Zenon
<1>5. g[S \ {x}] = k[S \ {x}] /\ g[S \ {x}] \in Nat
  BY <1>1, <1>4, Zenon DEF SumsAny
<1>6. g[S] = f[x] + g[S \ {x}]
  BY <1>1, Zenon DEF SumsAny
<1>7. k[S] = e[x] + k[S \ {x}]
  BY <1>2, Zenon DEF SumsAny
<1>8. f[x] \in Nat /\ e[x] \in Nat
  BY Zenon
<1> QED
  BY <1>1, <1>2, <1>5, <1>6, <1>7, <1>8

\* A function that is nowhere above another has no larger sum.
LEMMA SumMonotone ==
  ASSUME NEW S, IsFiniteSet(S), NEW f \in [S -> Nat], NEW e \in [S -> Nat],
         \A x \in S : e[x] <= f[x]
  PROVE  SumFunction(e) <= SumFunction(f)
<1>1. PICK g : SumFunction(f) = g[S] /\ SumsAny(g, f, S)
  BY SumIs, Zenon
<1>2. PICK k : SumFunction(e) = k[S] /\ SumsAny(k, e, S)
  BY SumIs, Zenon
<1> DEFINE Good == {T \in SUBSET S : k[T] <= g[T]}
<1>3. ASSUME NEW T \in SUBSET S, \A y \in T : T \ {y} \in Good
      PROVE  T \in Good
  <2>1. CASE T = {}
    BY <1>1, <1>2, <2>1 DEF SumsAny
  <2>2. ASSUME NEW y \in T
        PROVE  T \in Good
    <3>1. g[T] = f[y] + g[T \ {y}] /\ g[T \ {y}] \in Nat
      BY <1>1, Zenon DEF SumsAny
    <3>2. k[T] = e[y] + k[T \ {y}] /\ k[T \ {y}] \in Nat
      BY <1>2, Zenon DEF SumsAny
    <3>3. e[y] <= f[y] /\ k[T \ {y}] <= g[T \ {y}] /\ e[y] \in Nat /\ f[y] \in Nat
      BY <1>3, <2>2, Zenon
    <3> QED
      BY <3>1, <3>2, <3>3
  <2> QED
    BY <2>1, <2>2, Zenon
<1>4. SUBSET S \subseteq Good
  <2> HIDE DEF Good
  <2> QED
    BY <1>3, InductSubsets, Zenon
<1> QED
  BY <1>1, <1>2, <1>4, Zenon

-----------------------------------------------------------------------------
(* Recursion along a sequence. *)

\* g is the function with this value at 0 and this step.
Recursive(g, N, base, F) ==
  \A n \in 0..N : g[n] = IF n = 0 THEN base ELSE F[n][g[n - 1]]

\* A recursive function over 0..N exists.
LEMMA RecursionExists ==
  ASSUME NEW N \in Nat, NEW D, NEW base \in D, NEW F \in [1..N -> [D -> D]]
  PROVE  \E g \in [0..N -> D] : Recursive(g, N, base, F)
<1> DEFINE Rec(g, m) == \A n \in 0..m : g[n] = IF n = 0 THEN base ELSE F[n][g[n - 1]]
           Good == {m \in Nat : m <= N => \E g \in [0..m -> D] : Rec(g, m)}
<1>1. 0 \in Good
  <2> DEFINE g == [n \in 0..0 |-> base]
  <2>1. g \in [0..0 -> D] /\ Rec(g, 0)
    OBVIOUS
  <2> HIDE DEF g, Rec
  <2> QED
    BY <2>1, Zenon
<1>2. ASSUME NEW m \in Nat, m \in Good
      PROVE  m + 1 \in Good
  <2> SUFFICES ASSUME m + 1 <= N PROVE \E g \in [0..(m + 1) -> D] : Rec(g, m + 1)
    OBVIOUS
  <2>1. PICK h \in [0..m -> D] : Rec(h, m)
    BY <1>2
  <2> DEFINE v == F[m + 1][h[m]]
             g == [n \in 0..(m + 1) |-> IF n = m + 1 THEN v ELSE h[n]]
  <2>2. v \in D
    <3>1. m + 1 \in 1..N /\ h[m] \in D
      OBVIOUS
    <3> QED
      BY <3>1, Zenon
  <2>3. g \in [0..(m + 1) -> D]
    <3> HIDE DEF v
    <3> QED
      BY <2>2
  <2>4. g[m + 1] = v /\ \A n \in 0..m : g[n] = h[n]
    <3> HIDE DEF v
    <3> QED
      OBVIOUS
  <2> HIDE DEF g
  <2>5. ASSUME NEW n \in 0..(m + 1)
        PROVE  g[n] = IF n = 0 THEN base ELSE F[n][g[n - 1]]
    <3>1. CASE n = m + 1
      <4>1. n - 1 = m /\ n # 0 /\ g[n - 1] = h[m]
        BY <2>4, <3>1
      <4> QED
        BY <2>4, <3>1, <4>1, Zenon
    <3>2. CASE n # m + 1
      <4>1. n \in 0..m /\ (n # 0 => n - 1 \in 0..m)
        BY <3>2
      <4>2. g[n] = h[n] /\ (n # 0 => g[n - 1] = h[n - 1])
        BY <2>4, <4>1, Zenon
      <4>3. h[n] = IF n = 0 THEN base ELSE F[n][h[n - 1]]
        BY <2>1, <4>1, Zenon
      <4> QED
        BY <4>2, <4>3, Zenon
    <3> QED
      BY <3>1, <3>2, Zenon
  <2>6. Rec(g, m + 1)
    BY <2>5, Zenon
  <2> HIDE DEF Rec
  <2> QED
    BY <2>3, <2>6, Zenon
<1>3. Nat \subseteq Good
  <2> HIDE DEF Good
  <2> QED
    BY <1>1, <1>2, Induct, Zenon
<1>4. \E g \in [0..N -> D] : Rec(g, N)
  <2> HIDE DEF Rec
  <2> QED
    BY <1>3
<1> QED
  BY <1>4, Zenon DEF Recursive

\* From k on, u is the function with this value at N + 1 that steps from E[i] to i.
Descends(u, N, base, F, E, k) ==
  \A i \in 1..(N + 1) :
    i >= k => u[i] = IF i = N + 1 THEN base ELSE F[i][u[E[i]]]

\* A recursive function that looks at later arguments exists.
LEMMA DescentExists ==
  ASSUME NEW N \in Nat, NEW D, NEW base \in D, NEW F \in [1..N -> [D -> D]],
         NEW E \in [1..N -> 1..(N + 1)], \A i \in 1..N : E[i] > i
  PROVE  \E u \in [1..(N + 1) -> D] : Descends(u, N, base, F, E, 1)
<1> DEFINE Des(u, k) == Descends(u, N, base, F, E, k)
           U == [1..(N + 1) -> D]
           Good == {m \in Nat : m <= N => \E u \in U : Des(u, N + 1 - m)}
<1>1. 0 \in Good
  <2> DEFINE u == [i \in 1..(N + 1) |-> base]
  <2>1. u \in U
    BY Zenon
  <2>2. ASSUME NEW i \in 1..(N + 1), i >= N + 1 PROVE i = N + 1 /\ u[i] = base
    BY <2>2
  <2> HIDE DEF u
  <2>3. Des(u, N + 1)
    BY <2>2, Zenon DEF Descends
  <2>4. N + 1 - 0 = N + 1
    OBVIOUS
  <2> HIDE DEF Des, U
  <2> QED
    BY <2>1, <2>3, <2>4, Zenon
<1>2. ASSUME NEW m \in Nat, m \in Good PROVE m + 1 \in Good
  <2> SUFFICES ASSUME m + 1 <= N PROVE \E u \in U : Des(u, N + 1 - (m + 1))
    OBVIOUS
  <2> DEFINE k == N + 1 - (m + 1)
  <2>1. k \in 1..N /\ N + 1 - m = k + 1 /\ m <= N /\ k \in 1..(N + 1) /\ k # N + 1
    OBVIOUS
  <2>2. PICK v \in U : Des(v, N + 1 - m)
    BY <1>2, <2>1, Zenon
  <2> DEFINE x == F[k][v[E[k]]]
             u == [i \in 1..(N + 1) |-> IF i = k THEN x ELSE v[i]]
  <2> HIDE DEF k
  <2>3. x \in D
    <3>1. E[k] \in 1..(N + 1)
      BY <2>1, Zenon
    <3>2. v[E[k]] \in D
      BY <3>1, Zenon
    <3> QED
      BY <2>1, <3>2, Zenon
  <2> HIDE DEF x
  <2>4. u \in U /\ u[k] = x /\ \A i \in 1..(N + 1) : i # k => u[i] = v[i]
    BY <2>1, <2>3, Zenon
  <2> HIDE DEF u
  <2>5. ASSUME NEW i \in 1..(N + 1), i >= k
        PROVE  u[i] = IF i = N + 1 THEN base ELSE F[i][u[E[i]]]
    <3>1. i # N + 1 => i \in 1..N /\ E[i] \in 1..(N + 1) /\ E[i] > i /\ E[i] # k
      BY <2>1, <2>5
    <3>2. CASE i = k
      <4>1. u[E[k]] = v[E[k]]
        BY <2>1, <2>4, <3>1, <3>2, Zenon
      <4> QED
        BY <2>1, <2>4, <3>2, <4>1, Zenon DEF x
    <3>3. CASE i # k
      <4>1. i >= N + 1 - m
        BY <2>1, <2>5, <3>3
      <4>2. v[i] = IF i = N + 1 THEN base ELSE F[i][v[E[i]]]
        BY <2>2, <4>1, Zenon DEF Descends
      <4>3. u[i] = v[i] /\ (i # N + 1 => u[E[i]] = v[E[i]])
        BY <2>4, <3>1, <3>3, Zenon
      <4> QED
        BY <4>2, <4>3, Zenon
    <3> QED
      BY <3>2, <3>3, Zenon
  <2>6. Des(u, k)
    BY <2>5, Zenon DEF Descends
  <2> HIDE DEF Des, U
  <2> QED
    BY <2>4, <2>6, Zenon DEF k
<1>3. Nat \subseteq Good
  <2> HIDE DEF Good
  <2> QED
    BY <1>1, <1>2, Induct, Zenon
<1>4. N + 1 - N = 1 /\ N \in Good
  BY <1>3
<1> HIDE DEF Des, U
<1>5. \E u \in U : Des(u, 1)
  BY <1>4
<1> QED
  BY <1>5, Zenon DEF Des, U

\* What is left of a sequence behind its first n elements.
LEMMA RestOf ==
  ASSUME NEW S, NEW s \in Seq(S), NEW n \in Nat, n <= Len(s)
  PROVE  LET t == SubSeq(s, n + 1, Len(s))
         IN  /\ t \in Seq(S) /\ Len(t) = Len(s) - n
             /\ \A i \in 1..Len(t) : i + n \in 1..Len(s) /\ t[i] = s[i + n]
<1> DEFINE t == SubSeq(s, n + 1, Len(s))
<1>1. n + 1 \in Int /\ Len(s) \in Int /\ \A i \in (n + 1)..Len(s) : s[i] \in S
  OBVIOUS
<1>2. /\ t \in Seq(S)
      /\ Len(t) = IF n + 1 <= Len(s) THEN Len(s) - (n + 1) + 1 ELSE 0
      /\ \A i \in 1..(Len(s) - (n + 1) + 1) : t[i] = s[n + 1 + i - 1]
  BY <1>1, SubSeqProperties
<1> HIDE DEF t
<1>3. Len(t) = Len(s) - n
  BY <1>2
<1>4. \A i \in 1..Len(t) : i + n \in 1..Len(s) /\ t[i] = s[i + n]
  BY <1>2, <1>3
<1> QED
  BY <1>2, <1>3, <1>4, Zenon DEF t

\* The smaller of two naturals.
LEMMA MinIs ==
  ASSUME NEW a \in Nat, NEW b \in Nat
  PROVE  Min({a, b}) \in Nat /\ Min({a, b}) = IF a <= b THEN a ELSE b
<1>1. \E x \in {a, b} : \A y \in {a, b} : x <= y
  OBVIOUS
<1>2. Min({a, b}) \in {a, b} /\ \A y \in {a, b} : Min({a, b}) <= y
  BY <1>1, Zenon DEF Min
<1> QED
  BY <1>2
=============================================================================
