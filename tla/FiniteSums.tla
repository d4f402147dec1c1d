------------------------------ MODULE FiniteSums ------------------------------
(***************************************************************************)
(* What SumFunctionOnSet of the community modules computes: facts about    *)
(* sums over finite sets that the counting invariants rest on.  Induction  *)
(* is by a minimal counterexample, so that each fact stays first-order.    *)
(***************************************************************************)
EXTENDS FiniteSetsExt, FiniteSetTheorems, WellFoundedInduction, TLAPS

\* One unfolding of the fold behind a sum, and the function the fold defines.
Pick(s) == CHOOSE x \in s : TRUE
Unfolded(f, iter, s) == IF s = {} THEN 0 ELSE f[Pick(s)] + iter[s \ {Pick(s)}]
Unfolds(f, iter, S) == iter = [s \in SUBSET S |-> Unfolded(f, iter, s)]
Fold(f, S) == CHOOSE iter : Unfolds(f, iter, S)

LEMMA SumIsFold ==
    ASSUME NEW f, NEW S
    PROVE  SumFunctionOnSet(f, S) = Fold(f, S)[S]
BY DEF SumFunctionOnSet, FoldFunctionOnSet, MapThenFoldSet, Fold, Unfolds, Unfolded, Pick

LEMMA PickIn == \A s : s # {} => Pick(s) \in s
BY DEF Pick

-----------------------------------------------------------------------------
(* Induction over numbers and over the subsets of a finite set. *)

LEMMA NatSetInduction ==
    ASSUME NEW G, 0 \in G, \A n \in Nat : n \in G => n + 1 \in G
    PROVE  Nat \subseteq G
<1> SUFFICES ASSUME Nat \ G # {} PROVE FALSE
  OBVIOUS
<1>1. PICK m \in Nat \ G : \A k \in Nat \ G : ~(<<k, m>> \in OpToRel(<, Nat))
  BY WFMin, NatLessThanWellFounded
<1>2. m # 0 /\ m - 1 \in Nat /\ m - 1 < m
  OBVIOUS
<1>3. m - 1 \in G
  BY <1>1, <1>2 DEF OpToRel
<1> QED BY <1>2, <1>3

\* A set of subsets that has every T all of whose strict subsets it has.
LEMMA SubsetsInduction ==
    ASSUME NEW S, IsFiniteSet(S), NEW G,
           \A T \in SUBSET S : (\A U \in SUBSET T : U # T => U \in G) => T \in G
    PROVE  SUBSET S \subseteq G
<1> SUFFICES ASSUME (SUBSET S) \ G # {} PROVE FALSE
  OBVIOUS
<1>1. FiniteSubsetsOf(S) = SUBSET S
  BY FS_FiniteSubsetsOfFinite
<1>2. IsWellFoundedOn(StrictSubsetOrdering(S), SUBSET S)
  <2>1. IsWellFoundedOn(StrictSubsetOrdering(S), FiniteSubsetsOf(S))
    BY FS_StrictSubsetOrderingWellFounded, Zenon
  <2> QED BY <1>1, <2>1, Zenon
<1>3. PICK T \in (SUBSET S) \ G :
        \A U \in (SUBSET S) \ G : ~(<<U, T>> \in StrictSubsetOrdering(S))
  <2>1. (SUBSET S) \ G \subseteq SUBSET S
    OBVIOUS
  <2> DEFINE R == StrictSubsetOrdering(S)
             V == SUBSET S
             W == (SUBSET S) \ G
  <2>2. IsWellFoundedOn(R, V) /\ W \subseteq V /\ W # {}
    BY <1>2, <2>1
  <2> HIDE DEF R, V, W
  <2>3. \E T \in W : \A U \in W : ~(<<U, T>> \in R)
    BY <2>2, WFMin
  <2> QED BY <2>3 DEF R, W
<1>4. ASSUME NEW U \in SUBSET T, U # T PROVE U \in G
  BY <1>3, <1>4 DEF StrictSubsetOrdering
<1> QED BY <1>3, <1>4

-----------------------------------------------------------------------------
(* The fold exists, and may take the elements in any order. *)

LEMMA FoldExists ==
    ASSUME NEW S, IsFiniteSet(S), NEW f, \A x \in S : f[x] \in Int
    PROVE  \E iter \in [SUBSET S -> Int] : Unfolds(f, iter, S)
<1> DEFINE Small(n) == {s \in SUBSET S : Cardinality(s) <= n}
           Good == {n \in Nat : \E g \in [SUBSET S -> Int] :
                       \A s \in Small(n) : g[s] = Unfolded(f, g, s)}
<1>1. \A s \in SUBSET S : /\ IsFiniteSet(s) /\ Cardinality(s) \in Nat
                          /\ Cardinality(s) <= Cardinality(S)
  BY FS_Subset, FS_CardinalityType
<1>2. \A s \in SUBSET S : s # {} =>
        /\ s \ {Pick(s)} \in SUBSET S
        /\ Cardinality(s \ {Pick(s)}) = Cardinality(s) - 1
  BY <1>1, PickIn, FS_RemoveElement
<1>3. 0 \in Good
  <2> DEFINE g == [s \in SUBSET S |-> 0]
  <2>1. \A s \in Small(0) : s = {}
    BY <1>1, FS_EmptySet
  <2>2. g \in [SUBSET S -> Int] /\ \A s \in Small(0) : g[s] = Unfolded(f, g, s)
    BY <2>1 DEF Unfolded
  <2> QED BY <2>2
<1>4. ASSUME NEW n \in Nat, n \in Good PROVE n + 1 \in Good
  <2>1. PICK g \in [SUBSET S -> Int] : \A s \in Small(n) : g[s] = Unfolded(f, g, s)
    BY <1>4
  <2> DEFINE h == [s \in SUBSET S |-> IF Cardinality(s) = n + 1
                                      THEN Unfolded(f, g, s) ELSE g[s]]
  <2>2. \A s \in SUBSET S : Unfolded(f, g, s) \in Int
    BY <1>2, PickIn DEF Unfolded
  <2>3. h \in [SUBSET S -> Int]
    BY <2>2
  <2>4. \A s \in Small(n) : h[s] = g[s]
    BY <1>1
  <2>5. ASSUME NEW s \in Small(n + 1) PROVE h[s] = Unfolded(f, h, s)
    <3>1. Unfolded(f, h, s) = Unfolded(f, g, s)
      <4>1. CASE s = {}
        BY <4>1 DEF Unfolded
      <4>2. CASE s # {}
        <5>1. s \ {Pick(s)} \in Small(n)
          BY <1>1, <1>2, <4>2
        <5>2. h[s \ {Pick(s)}] = g[s \ {Pick(s)}]
          BY <2>4, <5>1
        <5> QED BY <4>2, <5>2 DEF Unfolded
      <4> QED BY <4>1, <4>2
    <3>2. CASE Cardinality(s) = n + 1
      BY <3>1, <3>2
    <3>3. CASE Cardinality(s) # n + 1
      <4>1. s \in Small(n)
        BY <1>1, <3>3
      <4> QED BY <2>1, <2>4, <3>1, <4>1
    <3> QED BY <3>2, <3>3
  <2> HIDE DEF h
  <2> QED BY <2>3, <2>5
<1>5. Nat \subseteq Good
  <2> HIDE DEF Good
  <2> QED BY <1>3, <1>4, NatSetInduction
<1>6. Cardinality(S) \in Good
  BY <1>5, FS_CardinalityType
<1>7. PICK g \in [SUBSET S -> Int] :
        \A s \in Small(Cardinality(S)) : g[s] = Unfolded(f, g, s)
  BY <1>6
<1>8. \A s \in SUBSET S : g[s] = Unfolded(f, g, s)
  BY <1>1, <1>7
<1>9. Unfolds(f, g, S)
  BY <1>8 DEF Unfolds
<1> QED BY <1>9

LEMMA FoldUnfolds ==
    ASSUME NEW S, IsFiniteSet(S), NEW f, \A x \in S : f[x] \in Int
    PROVE  Unfolds(f, Fold(f, S), S) /\ Fold(f, S) \in [SUBSET S -> Int]
<1> DEFINE g == Fold(f, S)
           Good == {s \in SUBSET S : g[s] \in Int}
<1>1. Unfolds(f, g, S)
  BY FoldExists DEF Fold
<1>2. g = [s \in SUBSET S |-> Unfolded(f, g, s)]
  BY <1>1 DEF Unfolds
<1> HIDE DEF g
<1>3. ASSUME NEW T \in SUBSET S, \A U \in SUBSET T : U # T => U \in Good
      PROVE  T \in Good
  <2>1. g[T] = Unfolded(f, g, T)
    BY <1>2
  <2>2. CASE T = {}
    BY <2>1, <2>2 DEF Unfolded
  <2>3. CASE T # {}
    <3>1. Pick(T) \in T /\ T \ {Pick(T)} \in SUBSET T /\ T \ {Pick(T)} # T
      BY <2>3, PickIn
    <3>2. g[T \ {Pick(T)}] \in Int /\ f[Pick(T)] \in Int
      BY <1>3, <3>1
    <3> QED BY <2>1, <2>3, <3>2 DEF Unfolded
  <2> QED BY <2>2, <2>3
<1>4. SUBSET S \subseteq Good
  <2> HIDE DEF Good
  <2> QED BY <1>3, SubsetsInduction
<1>5. g \in [SUBSET S -> Int]
  BY <1>2, <1>4
<1> QED BY <1>1, <1>5 DEF g

LEMMA FoldIsUnique ==
    ASSUME NEW S, NEW T \in SUBSET S, IsFiniteSet(T), NEW f, NEW g, NEW h,
           Unfolds(f, g, S), Unfolds(f, h, T)
    PROVE  \A s \in SUBSET T : g[s] = h[s]
<1> DEFINE Good == {s \in SUBSET T : g[s] = h[s]}
<1>1. ASSUME NEW s \in SUBSET T, \A u \in SUBSET s : u # s => u \in Good
      PROVE  s \in Good
  <2>1. g[s] = Unfolded(f, g, s) /\ h[s] = Unfolded(f, h, s)
    BY DEF Unfolds
  <2>2. CASE s = {}
    BY <2>1, <2>2 DEF Unfolded
  <2>3. CASE s # {}
    <3>1. s \ {Pick(s)} \in SUBSET s /\ s \ {Pick(s)} # s
      BY <2>3, PickIn
    <3>2. g[s \ {Pick(s)}] = h[s \ {Pick(s)}]
      BY <1>1, <3>1
    <3> QED BY <2>1, <2>3, <3>2 DEF Unfolded
  <2> QED BY <2>2, <2>3
<1>2. SUBSET T \subseteq Good
  <2> HIDE DEF Good
  <2> QED BY <1>1, SubsetsInduction
<1> QED BY <1>2

\* Any summand may be taken first.
Splits(f, g, S) == \A s \in SUBSET S : \A x \in s : g[s] = f[x] + g[s \ {x}]

LEMMA AnyOrder ==
    ASSUME NEW S, IsFiniteSet(S), NEW f, \A x \in S : f[x] \in Int,
           NEW g, Unfolds(f, g, S), \A s \in SUBSET S : g[s] \in Int
    PROVE  Splits(f, g, S)
<1> DEFINE Good == {s \in SUBSET S : \A x \in s : g[s] = f[x] + g[s \ {x}]}
<1>1. ASSUME NEW s \in SUBSET S, \A u \in SUBSET s : u # s => u \in Good
      PROVE  s \in Good
  <2> SUFFICES ASSUME NEW x \in s PROVE g[s] = f[x] + g[s \ {x}]
    OBVIOUS
  <2> DEFINE y == Pick(s)
  <2>1. y \in s
    BY PickIn
  <2>2. g[s] = f[y] + g[s \ {y}]
    BY DEF Unfolds, Unfolded
  <2> HIDE DEF y
  <2>3. CASE x = y
    BY <2>2, <2>3
  <2>4. CASE x # y
    <3> DEFINE u == s \ {x}
               v == s \ {y}
               w == s \ {x, y}
    <3>1. u \in SUBSET s /\ u # s /\ v \in SUBSET s /\ v # s /\ w \in SUBSET S
      BY <2>1
    <3>2. y \in u /\ x \in v /\ u \ {y} = w /\ v \ {x} = w
      BY <2>1, <2>4
    <3> HIDE DEF u, v, w
    <3>3. u \in Good /\ v \in Good
      BY <1>1, <3>1
    <3>4. g[u] = f[y] + g[w] /\ g[v] = f[x] + g[w]
      BY <3>2, <3>3
    <3>5. g[w] \in Int /\ f[x] \in Int /\ f[y] \in Int
      BY <2>1, <3>1
    <3>6. f[y] + (f[x] + g[w]) = f[x] + (f[y] + g[w])
      BY <3>5
    <3>7. g[s] = f[y] + g[v]
      BY <2>2 DEF v
    <3>8. g[s] = f[x] + g[u]
      BY <3>4, <3>6, <3>7
    <3> QED BY <3>8 DEF u
  <2> QED BY <2>3, <2>4
<1>2. SUBSET S \subseteq Good
  <2> HIDE DEF Good
  <2> QED BY <1>1, SubsetsInduction
<1> QED BY <1>2 DEF Splits

-----------------------------------------------------------------------------
(* Sums. *)

LEMMA SumOfSubset ==
    ASSUME NEW S, IsFiniteSet(S), NEW f, \A x \in S : f[x] \in Int,
           NEW T \in SUBSET S
    PROVE  SumFunctionOnSet(f, T) = Fold(f, S)[T]
<1>1. IsFiniteSet(T)
  BY FS_Subset
<1>2. Unfolds(f, Fold(f, S), S) /\ Unfolds(f, Fold(f, T), T)
  BY <1>1, FoldUnfolds
<1>3. Fold(f, S)[T] = Fold(f, T)[T]
  BY <1>1, <1>2, FoldIsUnique
<1> QED BY <1>3, SumIsFold

LEMMA SumType ==
    ASSUME NEW S, IsFiniteSet(S), NEW f, \A x \in S : f[x] \in Int
    PROVE  SumFunctionOnSet(f, S) \in Int
BY FoldUnfolds, SumIsFold

LEMMA SumEmpty == ASSUME NEW f PROVE SumFunctionOnSet(f, {}) = 0
<1>1. IsFiniteSet({})
  BY FS_EmptySet
<1>2. Unfolds(f, Fold(f, {}), {})
  BY <1>1, FoldUnfolds
<1> QED BY <1>2, SumIsFold DEF Unfolds, Unfolded

\* A sum may be taken apart at any of its summands.
LEMMA SumSplit ==
    ASSUME NEW S, IsFiniteSet(S), NEW f, \A x \in S : f[x] \in Int, NEW x \in S
    PROVE  SumFunctionOnSet(f, S) = f[x] + SumFunctionOnSet(f, S \ {x})
<1>1. Unfolds(f, Fold(f, S), S) /\ Fold(f, S) \in [SUBSET S -> Int]
  BY FoldUnfolds
<1>2. Fold(f, S)[S] = f[x] + Fold(f, S)[S \ {x}]
  <2> DEFINE g == Fold(f, S)
  <2>1. Unfolds(f, g, S) /\ (\A s \in SUBSET S : g[s] \in Int) /\ S \in SUBSET S
    BY <1>1
  <2> HIDE DEF g
  <2>2. Splits(f, g, S)
    BY <2>1, AnyOrder
  <2>3. g[S] = f[x] + g[S \ {x}]
    BY <2>1, <2>2 DEF Splits
  <2> QED BY <2>3 DEF g
<1> QED BY <1>2, SumIsFold, SumOfSubset

\* The larger the summands, the larger the sum.
LEMMA SumMonotone ==
    ASSUME NEW S, IsFiniteSet(S), NEW f, NEW g,
           \A x \in S : f[x] \in Int /\ g[x] \in Int /\ f[x] <= g[x]
    PROVE  SumFunctionOnSet(f, S) <= SumFunctionOnSet(g, S)
<1> DEFINE Good == {T \in SUBSET S : SumFunctionOnSet(f, T) <= SumFunctionOnSet(g, T)}
<1>1. ASSUME NEW T \in SUBSET S, \A U \in SUBSET T : U # T => U \in Good
      PROVE  T \in Good
  <2>1. IsFiniteSet(T)
    BY FS_Subset
  <2>2. CASE T = {}
    BY <2>2, SumEmpty
  <2>3. CASE T # {}
    <3>1. PICK x \in T : TRUE
      BY <2>3
    <3> DEFINE U == T \ {x}
    <3>2. U \in SUBSET T /\ U # T /\ IsFiniteSet(U)
      BY <2>1, <3>1, FS_Subset
    <3>3. /\ SumFunctionOnSet(f, T) = f[x] + SumFunctionOnSet(f, U)
          /\ SumFunctionOnSet(g, T) = g[x] + SumFunctionOnSet(g, U)
      BY <2>1, SumSplit
    <3>4. SumFunctionOnSet(f, U) \in Int /\ SumFunctionOnSet(g, U) \in Int
      BY <3>2, SumType
    <3>5. U \in Good
      BY <1>1, <3>2
    <3> HIDE DEF U
    <3> QED BY <3>1, <3>3, <3>4, <3>5
  <2> QED BY <2>2, <2>3
<1>2. SUBSET S \subseteq Good
  <2> HIDE DEF Good
  <2> QED BY <1>1, SubsetsInduction
<1> QED BY <1>2

LEMMA SumEqual ==
    ASSUME NEW S, IsFiniteSet(S), NEW f, NEW g,
           \A x \in S : f[x] \in Int /\ f[x] = g[x]
    PROVE  SumFunctionOnSet(f, S) = SumFunctionOnSet(g, S)
<1>1. SumFunctionOnSet(f, S) \in Int /\ SumFunctionOnSet(g, S) \in Int
  BY SumType
<1>2. /\ SumFunctionOnSet(f, S) <= SumFunctionOnSet(g, S)
      /\ SumFunctionOnSet(g, S) <= SumFunctionOnSet(f, S)
  BY SumMonotone
<1> QED BY <1>1, <1>2

LEMMA SumZero ==
    ASSUME NEW S, IsFiniteSet(S), NEW f, \A x \in S : f[x] = 0
    PROVE  SumFunctionOnSet(f, S) = 0
<1> DEFINE Good == {T \in SUBSET S : SumFunctionOnSet(f, T) = 0}
<1>1. ASSUME NEW T \in SUBSET S, \A U \in SUBSET T : U # T => U \in Good
      PROVE  T \in Good
  <2>1. IsFiniteSet(T)
    BY FS_Subset
  <2>2. CASE T = {}
    BY <2>2, SumEmpty
  <2>3. CASE T # {}
    <3>1. PICK x \in T : TRUE
      BY <2>3
    <3>2. SumFunctionOnSet(f, T) = f[x] + SumFunctionOnSet(f, T \ {x})
      BY <2>1, SumSplit
    <3> QED BY <1>1, <3>1, <3>2
  <2> QED BY <2>2, <2>3
<1>2. SUBSET S \subseteq Good
  <2> HIDE DEF Good
  <2> QED BY <1>1, SubsetsInduction
<1> QED BY <1>2

\* One summand changes by n, and so does the sum.
LEMMA SumChange ==
    ASSUME NEW S, IsFiniteSet(S), NEW f, NEW g, NEW x \in S, NEW n \in Int,
           \A y \in S : f[y] \in Int, g[x] = f[x] + n,
           \A y \in S : y # x => g[y] = f[y]
    PROVE  SumFunctionOnSet(g, S) = SumFunctionOnSet(f, S) + n
<1> DEFINE T == S \ {x}
<1>1. IsFiniteSet(T)
  BY FS_Subset
<1>2. SumFunctionOnSet(g, T) = SumFunctionOnSet(f, T)
  BY <1>1, SumEqual
<1>3. SumFunctionOnSet(f, T) \in Int
  BY <1>1, SumType
<1>4. /\ SumFunctionOnSet(f, S) = f[x] + SumFunctionOnSet(f, T)
      /\ SumFunctionOnSet(g, S) = g[x] + SumFunctionOnSet(g, T)
  BY SumSplit
<1> HIDE DEF T
<1> QED BY <1>2, <1>3, <1>4

\* The sum over a part is the sum over the whole with nothing outside the part.
LEMMA SumOfPart ==
    ASSUME NEW S, IsFiniteSet(S), NEW T \in SUBSET S, NEW f, NEW g,
           \A x \in T : f[x] \in Int /\ g[x] = f[x],
           \A x \in S \ T : g[x] = 0
    PROVE  SumFunctionOnSet(g, S) = SumFunctionOnSet(f, T)
<1> DEFINE Good == {U \in SUBSET S : SumFunctionOnSet(g, U) = SumFunctionOnSet(f, U \cap T)}
<1>1. ASSUME NEW U \in SUBSET S, \A V \in SUBSET U : V # U => V \in Good
      PROVE  U \in Good
  <2>1. IsFiniteSet(U) /\ IsFiniteSet(U \cap T)
    BY FS_Subset
  <2>2. CASE U = {}
    <3>1. U \cap T = {}
      BY <2>2
    <3> QED BY <2>2, <3>1, SumEmpty
  <2>3. CASE U # {}
    <3>1. PICK x \in U : TRUE
      BY <2>3
    <3> DEFINE V == U \ {x}
    <3>2. V \in SUBSET U /\ V # U /\ V \in Good
      BY <1>1, <3>1
    <3>3. SumFunctionOnSet(g, U) = g[x] + SumFunctionOnSet(g, V)
      BY <2>1, SumSplit
    <3>4. IsFiniteSet(V \cap T) /\ SumFunctionOnSet(f, V \cap T) \in Int
      <4>1. V \cap T \in SUBSET S
        OBVIOUS
      <4>2. IsFiniteSet(V \cap T)
        BY <4>1, FS_Subset
      <4>3. \A y \in V \cap T : f[y] \in Int
        OBVIOUS
      <4> QED BY <4>2, <4>3, SumType
    <3>5. CASE x \in T
      <4>1. (U \cap T) \ {x} = V \cap T /\ x \in U \cap T
        BY <3>5
      <4>2. SumFunctionOnSet(f, U \cap T) = f[x] + SumFunctionOnSet(f, V \cap T)
        BY <2>1, <4>1, SumSplit
      <4> QED BY <3>2, <3>3, <3>5, <4>2
    <3>6. CASE x \notin T
      <4>1. U \cap T = V \cap T
        BY <3>6
      <4>2. g[x] = 0 /\ SumFunctionOnSet(g, V) = SumFunctionOnSet(f, V \cap T)
        BY <3>1, <3>2, <3>6
      <4> DEFINE part == SumFunctionOnSet(f, V \cap T)
      <4>3. SumFunctionOnSet(f, U \cap T) = part
        BY <4>1
      <4>4. part \in Int /\ SumFunctionOnSet(g, U) = 0 + part
        BY <3>3, <3>4, <4>2
      <4> HIDE DEF part
      <4>5. SumFunctionOnSet(g, U) = SumFunctionOnSet(f, U \cap T)
        BY <4>3, <4>4
      <4> QED BY <4>5
    <3> QED BY <3>5, <3>6
  <2> QED BY <2>2, <2>3
<1>2. SUBSET S \subseteq Good
  <2> HIDE DEF Good
  <2> QED BY <1>1, SubsetsInduction
<1>3. S \cap T = T
  OBVIOUS
<1> QED BY <1>2, <1>3

LEMMA SumNatural ==
    ASSUME NEW S, IsFiniteSet(S), NEW f, \A x \in S : f[x] \in Int /\ f[x] >= 0
    PROVE  SumFunctionOnSet(f, S) >= 0
<1> DEFINE z == [x \in S |-> 0]
<1>1. \A x \in S : z[x] \in Int /\ z[x] <= f[x] /\ z[x] = 0
  OBVIOUS
<1> HIDE DEF z
<1>2. SumFunctionOnSet(z, S) <= SumFunctionOnSet(f, S)
  BY <1>1, SumMonotone
<1>3. SumFunctionOnSet(z, S) = 0 /\ SumFunctionOnSet(f, S) \in Int
  BY <1>1, SumZero, SumType
<1> QED BY <1>2, <1>3
=============================================================================
