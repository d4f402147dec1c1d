-------------------------- MODULE GraphReload_proofs --------------------------
(***************************************************************************)
(* Proofs about the booking graph and a booking that lives through edits   *)
(* of it, for every yml that is written as the code takes for granted.     *)
(***************************************************************************)
EXTENDS GraphReload, SequenceTheorems, FiniteSums

(* What Listed makes of a finite set that is strictly and totally ordered.  *)

Orders(S, earlier) ==
    /\ earlier \in [S -> SUBSET S]
    /\ \A x \in S : x \notin earlier[x]
    /\ \A x, y \in S : x # y => x \in earlier[y] \/ y \in earlier[x]
    /\ \A x, y \in S : x \in earlier[y] => earlier[x] \subseteq earlier[y]

LEMMA ListedInOrder ==
    ASSUME NEW S, IsFiniteSet(S), NEW earlier, Orders(S, earlier)
    PROVE  /\ Cardinality(S) \in Nat
           /\ Listed(S, earlier) \in [1..Cardinality(S) -> S]
           /\ \A k \in 1..Cardinality(S) :
                Cardinality(earlier[Listed(S, earlier)[k]]) = k - 1
           /\ \A x \in S : \E k \in 1..Cardinality(S) : Listed(S, earlier)[k] = x
           /\ \A j, k \in 1..Cardinality(S) :
                j < k => Listed(S, earlier)[j] \in earlier[Listed(S, earlier)[k]]
<1> DEFINE n == Cardinality(S)
           rank == [x \in S |-> Cardinality(earlier[x]) + 1]
<1>0. n \in Nat
  BY FS_CardinalityType
<1>1. \A x \in S : IsFiniteSet(earlier[x]) /\ Cardinality(earlier[x]) \in Nat
                   /\ Cardinality(earlier[x]) < n
  <2> SUFFICES ASSUME NEW x \in S
               PROVE  IsFiniteSet(earlier[x]) /\ Cardinality(earlier[x]) \in Nat
                      /\ Cardinality(earlier[x]) < n
    OBVIOUS
  <2>1. earlier[x] \in SUBSET S /\ earlier[x] # S
    BY DEF Orders
  <2>2. IsFiniteSet(earlier[x]) /\ Cardinality(earlier[x]) <= n
        /\ (n = Cardinality(earlier[x]) => S = earlier[x])
    BY <2>1, FS_Subset
  <2>3. Cardinality(earlier[x]) \in Nat
    BY <2>2, FS_CardinalityType
  <2> QED BY <1>0, <2>1, <2>2, <2>3
<1>2. \A x, y \in S : x \in earlier[y] => Cardinality(earlier[x]) < Cardinality(earlier[y])
  <2> SUFFICES ASSUME NEW x \in S, NEW y \in S, x \in earlier[y]
               PROVE  Cardinality(earlier[x]) < Cardinality(earlier[y])
    OBVIOUS
  <2>1. earlier[x] \in SUBSET earlier[y] /\ earlier[x] # earlier[y]
    BY DEF Orders
  <2>2. Cardinality(earlier[x]) <= Cardinality(earlier[y])
        /\ (Cardinality(earlier[y]) = Cardinality(earlier[x]) => earlier[y] = earlier[x])
    BY <1>1, <2>1, FS_Subset
  <2> QED BY <1>1, <2>1, <2>2
<1>3. \A x, y \in S : Cardinality(earlier[x]) = Cardinality(earlier[y]) => x = y
  BY <1>1, <1>2 DEF Orders
<1>4. rank \in [S -> 1..n]
  BY <1>0, <1>1
<1>5. \A x, y \in S : rank[x] = rank[y] => x = y
  BY <1>1, <1>3
<1>6. rank \in Injection(S, 1..n)
  <2> HIDE DEF rank
  <2> QED BY <1>4, <1>5 DEF Injection, IsInjective
<1>7. IsFiniteSet(1..n) /\ Cardinality(1..n) = n
  BY <1>0, FS_Interval
<1>8. rank \in Surjection(S, 1..n)
  <2> HIDE DEF rank
  <2> QED BY <1>6, <1>7, FS_Injection
<1>9. \A k \in 1..n : \E x \in S : Cardinality(earlier[x]) = k - 1
  <2> TAKE k \in 1..n
  <2>1. PICK x \in S : rank[x] = k
    <3> HIDE DEF rank
    <3> QED BY <1>8 DEF Surjection
  <2> QED BY <1>0, <1>1, <2>1
<1>10. \A k \in 1..n : /\ Listed(S, earlier)[k] \in S
                       /\ Cardinality(earlier[Listed(S, earlier)[k]]) = k - 1
  BY <1>9 DEF Listed
<1>11. Listed(S, earlier) \in [1..n -> S]
  BY <1>10 DEF Listed
<1> HIDE DEF n, rank
<1>12. \A x \in S : \E k \in 1..n : Listed(S, earlier)[k] = x
  <2> TAKE x \in S
  <2>1. Cardinality(earlier[x]) + 1 \in 1..n
    BY <1>0, <1>1
  <2> WITNESS Cardinality(earlier[x]) + 1 \in 1..n
  <2>2. Cardinality(earlier[Listed(S, earlier)[Cardinality(earlier[x]) + 1]])
          = Cardinality(earlier[x])
    BY <1>1, <1>10, <2>1
  <2> QED BY <1>3, <1>10, <2>1, <2>2
<1>13. ASSUME NEW j \in 1..n, NEW k \in 1..n, j < k
       PROVE  Listed(S, earlier)[j] \in earlier[Listed(S, earlier)[k]]
  <2> DEFINE x == Listed(S, earlier)[j]
             y == Listed(S, earlier)[k]
  <2>1. /\ x \in S /\ y \in S
        /\ Cardinality(earlier[x]) = j - 1 /\ Cardinality(earlier[y]) = k - 1
    BY <1>10
  <2> HIDE DEF x, y
  <2>2. x # y /\ y \notin earlier[x]
    <3>1. j - 1 # k - 1 /\ ~(k - 1 < j - 1)
      BY <1>0, <1>13
    <3>2. y \in earlier[x] => Cardinality(earlier[y]) < Cardinality(earlier[x])
      BY <1>2, <2>1
    <3> QED BY <2>1, <3>1, <3>2
  <2>3. x \in earlier[y]
    BY <2>1, <2>2 DEF Orders
  <2> QED BY <2>3 DEF x, y
<1> QED BY <1>0, <1>10, <1>11, <1>12, <1>13 DEF n

\* The same, as far as most of the following needs it.
Lists(order, S) ==
    /\ \E m \in Nat : order \in [1..m -> S]
    /\ \A x \in S : \E k \in DOMAIN order : order[k] = x
    /\ \A j, k \in DOMAIN order : order[j] = order[k] => j = k

LEMMA ListedOnce ==
    ASSUME NEW S, IsFiniteSet(S), NEW earlier, Orders(S, earlier)
    PROVE  /\ Lists(Listed(S, earlier), S)
           /\ \A j, k \in DOMAIN Listed(S, earlier) :
                j < k => Listed(S, earlier)[j] \in earlier[Listed(S, earlier)[k]]
<1> DEFINE n == Cardinality(S)
           order == Listed(S, earlier)
<1>1. /\ n \in Nat /\ order \in [1..n -> S]
      /\ \A k \in 1..n : Cardinality(earlier[order[k]]) = k - 1
      /\ \A x \in S : \E k \in 1..n : order[k] = x
      /\ \A j, k \in 1..n : j < k => order[j] \in earlier[order[k]]
  BY ListedInOrder
<1> HIDE DEF n, order
<1>2. \A j, k \in 1..n : order[j] = order[k] => j = k
  <2> TAKE j, k \in 1..n
  <2> HAVE order[j] = order[k]
  <2>1. j - 1 = k - 1
    BY <1>1
  <2> QED BY <1>1, <2>1
<1>3. DOMAIN order = 1..n
  BY <1>1
<1> QED BY <1>1, <1>2, <1>3 DEF Lists, n, order

-----------------------------------------------------------------------------
(* The graph. *)

Refs == DOMAIN Steps
Defs == Seq([stage : Nat, ask : BOOLEAN, steps : Seq(Refs)])

LEMMA PositionsFinite ==
    ASSUME NEW n \in Nat, NEW S \in SUBSET (1..n)
    PROVE  IsFiniteSet(S)
<1>1. IsFiniteSet(1..n)
  BY FS_Interval
<1> QED BY <1>1, FS_Subset

\* filter() keeps the chosen steps, each once.
LEMMA StageStepsAre ==
    ASSUME NEW refs \in Seq(Refs), NEW products
    PROVE  \E order : /\ Lists(order, Chosen(refs, products))
                      /\ StageSteps(refs, products) = [n \in DOMAIN order |-> refs[order[n]]]
<1> DEFINE chosen == Chosen(refs, products)
           earlier == [j \in chosen |-> {l \in chosen : l < j}]
<1>1. DOMAIN refs = 1..Len(refs) /\ Len(refs) \in Nat
  OBVIOUS
<1>2. chosen \subseteq 1..Len(refs)
  BY <1>1 DEF Chosen
<1>3. IsFiniteSet(chosen)
  BY <1>1, <1>2, PositionsFinite
<1>4. Orders(chosen, earlier)
  <2>1. chosen \subseteq Nat
    BY <1>1, <1>2
  <2> HIDE DEF chosen
  <2>2. earlier \in [chosen -> SUBSET chosen]
    OBVIOUS
  <2>3. \A x \in chosen : x \notin earlier[x]
    BY <2>1
  <2>4. \A x, y \in chosen : x # y => x \in earlier[y] \/ y \in earlier[x]
    BY <2>1
  <2>5. ASSUME NEW x \in chosen, NEW y \in chosen, x \in earlier[y], NEW z \in earlier[x]
        PROVE  z \in earlier[y]
    BY <2>1, <2>5
  <2> HIDE DEF earlier
  <2> QED BY <2>2, <2>3, <2>4, <2>5 DEF Orders
<1>5. Lists(Listed(chosen, earlier), chosen)
  <2> HIDE DEF chosen, earlier
  <2> QED BY <1>3, <1>4, ListedOnce
<1> WITNESS Listed(chosen, earlier)
<1> QED BY <1>5 DEF StageSteps, Mapped, Ascending

\* Stages come in ascending order, each kept one once.
LEMMA GenerateIs ==
    ASSUME NEW stageDefs \in Defs, NEW products
    PROVE  \E order :
             /\ Lists(order, Kept(stageDefs, products))
             /\ \A j, k \in DOMAIN order :
                  j < k => order[j] \in EarlierStages(stageDefs, order[k])
             /\ Generate(stageDefs, products) =
                  [k \in DOMAIN order |->
                     [stageDefs[order[k]] EXCEPT !.steps = StageSteps(@, products)]]
<1> DEFINE kept == Kept(stageDefs, products)
           earlier == [i \in kept |-> kept \cap EarlierStages(stageDefs, i)]
<1>1. /\ DOMAIN stageDefs = 1..Len(stageDefs) /\ Len(stageDefs) \in Nat
      /\ \A i \in DOMAIN stageDefs : stageDefs[i].stage \in Nat
  <2>1. stageDefs \in [1..Len(stageDefs) -> [stage : Nat, ask : BOOLEAN, steps : Seq(Refs)]]
        /\ Len(stageDefs) \in Nat
    BY LenProperties DEF Defs
  <2> QED BY <2>1
<1>2. kept \subseteq 1..Len(stageDefs)
  BY <1>1 DEF Kept
<1>3. IsFiniteSet(kept)
  BY <1>1, <1>2, PositionsFinite
<1>4. Orders(kept, earlier)
  <2>1. kept \subseteq Nat /\ \A i \in kept : i \in DOMAIN stageDefs /\ stageDefs[i].stage \in Nat
    BY <1>1, <1>2
  <2> HIDE DEF kept
  <2>2. \A x \in kept : x \notin earlier[x]
    BY <2>1 DEF EarlierStages
  <2>3. \A x, y \in kept : x # y => x \in earlier[y] \/ y \in earlier[x]
    BY <2>1 DEF EarlierStages
  <2>4. ASSUME NEW x \in kept, NEW y \in kept, x \in earlier[y], NEW z \in earlier[x]
        PROVE  z \in earlier[y]
    <3>1. z \in kept /\ z \in EarlierStages(stageDefs, x) /\ x \in EarlierStages(stageDefs, y)
      BY <2>4
    <3>2. z \in EarlierStages(stageDefs, y)
      BY <2>1, <3>1 DEF EarlierStages
    <3> QED BY <3>1, <3>2
  <2>5. earlier \in [kept -> SUBSET kept]
    OBVIOUS
  <2> HIDE DEF earlier
  <2> QED BY <2>2, <2>3, <2>4, <2>5 DEF Orders
<1>5. /\ Lists(Listed(kept, earlier), kept)
      /\ \A j, k \in DOMAIN Listed(kept, earlier) :
           j < k => Listed(kept, earlier)[j] \in earlier[Listed(kept, earlier)[k]]
  <2> HIDE DEF kept, earlier
  <2> QED BY <1>3, <1>4, ListedOnce
<1>6. \A j, k \in DOMAIN Listed(kept, earlier) :
        j < k => Listed(kept, earlier)[j] \in EarlierStages(stageDefs, Listed(kept, earlier)[k])
  <2>1. \A k \in DOMAIN Listed(kept, earlier) : Listed(kept, earlier)[k] \in kept
    <3> HIDE DEF kept, earlier
    <3> QED BY <1>5 DEF Lists
  <2>2. \A i \in kept : earlier[i] \subseteq EarlierStages(stageDefs, i)
    OBVIOUS
  <2> HIDE DEF kept, earlier
  <2> QED BY <1>5, <2>1, <2>2
<1>7. Generate(stageDefs, products) =
        [k \in DOMAIN Listed(kept, earlier) |->
           [stageDefs[Listed(kept, earlier)[k]] EXCEPT !.steps = StageSteps(@, products)]]
  <2> DEFINE f == [i \in DOMAIN stageDefs |->
                     [stageDefs[i] EXCEPT !.steps = StageSteps(@, products)]]
             order == Listed(kept, earlier)
  <2>1. Generate(stageDefs, products) = [k \in DOMAIN order |-> f[order[k]]]
    BY DEF Generate, Mapped, InStageOrder
  <2>2. \A k \in DOMAIN order : order[k] \in DOMAIN stageDefs
    <3>1. Lists(order, kept)
      BY <1>5
    <3> HIDE DEF order, kept, earlier, f
    <3>2. \A k \in DOMAIN order : order[k] \in kept
      BY <3>1 DEF Lists
    <3> QED BY <1>1, <1>2, <3>2
  <2> HIDE DEF order
  <2>3. \A k \in DOMAIN order :
          f[order[k]] = [stageDefs[order[k]] EXCEPT !.steps = StageSteps(@, products)]
    BY <2>2
  <2> HIDE DEF f
  <2>4. [k \in DOMAIN order |-> f[order[k]]] =
        [k \in DOMAIN order |->
           [stageDefs[order[k]] EXCEPT !.steps = StageSteps(@, products)]]
    BY <2>3
  <2> QED BY <2>1, <2>4 DEF order
<1> WITNESS Listed(kept, earlier)
<1> QED BY <1>5, <1>6, <1>7

Graphs == Seq([stage : Nat, ask : BOOLEAN, steps : Seq(Refs)])

LEMMA FunctionIsSeq ==
    ASSUME NEW S, NEW n \in Nat, NEW f \in [1..n -> S]
    PROVE  f \in Seq(S)
BY SeqDef, Zenon

LEMMA StageStepsType ==
    ASSUME NEW refs \in Seq(Refs), NEW products
    PROVE  StageSteps(refs, products) \in Seq(Refs)
<1>1. PICK order : /\ Lists(order, Chosen(refs, products))
                   /\ StageSteps(refs, products) = [n \in DOMAIN order |-> refs[order[n]]]
  BY StageStepsAre
<1>2. PICK m \in Nat : order \in [1..m -> Chosen(refs, products)]
  BY <1>1 DEF Lists
<1>3. \A j \in Chosen(refs, products) : refs[j] \in Refs
  BY ElementOfSeq DEF Chosen
<1>4. StageSteps(refs, products) \in [1..m -> Refs]
  BY <1>1, <1>2, <1>3
<1> QED BY <1>4, FunctionIsSeq

LEMMA GenerateType ==
    ASSUME NEW stageDefs \in Defs, NEW products
    PROVE  Generate(stageDefs, products) \in Graphs
<1>1. PICK order : /\ Lists(order, Kept(stageDefs, products))
                   /\ Generate(stageDefs, products) =
                        [k \in DOMAIN order |->
                           [stageDefs[order[k]] EXCEPT !.steps = StageSteps(@, products)]]
  BY GenerateIs
<1>2. PICK m \in Nat : order \in [1..m -> Kept(stageDefs, products)]
  BY <1>1 DEF Lists
<1>3. \A i \in Kept(stageDefs, products) :
        stageDefs[i] \in [stage : Nat, ask : BOOLEAN, steps : Seq(Refs)]
  <2>1. stageDefs \in [1..Len(stageDefs) -> [stage : Nat, ask : BOOLEAN, steps : Seq(Refs)]]
    BY LenProperties DEF Defs
  <2> QED BY <2>1 DEF Kept
<1>4. \A def \in [stage : Nat, ask : BOOLEAN, steps : Seq(Refs)] :
        [def EXCEPT !.steps = StageSteps(def.steps, products)]
          \in [stage : Nat, ask : BOOLEAN, steps : Seq(Refs)]
  BY StageStepsType
<1>5. Generate(stageDefs, products) \in [1..m -> [stage : Nat, ask : BOOLEAN, steps : Seq(Refs)]]
  BY <1>1, <1>2, <1>3, <1>4
<1> QED BY <1>5, FunctionIsSeq DEF Graphs

-----------------------------------------------------------------------------
(* The fan-out. *)

LEMMA StepProduct == \A ref \in Refs : Steps[ref].product \in Product \cup {"itinerary"}
BY DEF Refs, Steps, StepConfig, Product

LEMMA ExpandStepIs ==
    ASSUME NEW ref \in Refs, NEW c \in [Product -> Nat]
    PROVE  /\ \E n \in Nat : DOMAIN ExpandStep(ref, c) = 1..n
           /\ Steps[ref].product = "itinerary" =>
                DOMAIN ExpandStep(ref, c) = {1} /\ ExpandStep(ref, c)[1] = NoItem
           /\ Steps[ref].product # "itinerary" =>
                /\ Steps[ref].product \in Product
                /\ DOMAIN ExpandStep(ref, c) = 1..c[Steps[ref].product]
                /\ \A n \in 1..c[Steps[ref].product] :
                     ExpandStep(ref, c)[n] = [product |-> Steps[ref].product, number |-> n]
<1>1. CASE Steps[ref].product = "itinerary"
  <2>1. ExpandStep(ref, c) = <<NoItem>>
    BY <1>1 DEF ExpandStep
  <2>2. DOMAIN <<NoItem>> = 1..1 /\ 1..1 = {1} /\ <<NoItem>>[1] = NoItem
    OBVIOUS
  <2> QED BY <1>1, <2>1, <2>2
<1>2. CASE Steps[ref].product # "itinerary"
  <2>1. Steps[ref].product \in Product
    BY <1>2, StepProduct
  <2>2. c[Steps[ref].product] \in Nat
    BY <2>1
  <2>3. ExpandStep(ref, c) = [n \in 1..c[Steps[ref].product] |->
                                [product |-> Steps[ref].product, number |-> n]]
    BY <1>2 DEF ExpandStep, ItemsOf
  <2> QED BY <1>2, <2>1, <2>2, <2>3
<1> QED BY <1>1, <1>2

\* Of what a function takes on finitely many numbers there is finitely much.
LEMMA ImageFinite ==
    ASSUME NEW n \in Nat, NEW f, DOMAIN f = 1..n, f = [k \in 1..n |-> f[k]]
    PROVE  IsFiniteSet({f[k] : k \in 1..n})
<1> DEFINE T == {f[k] : k \in 1..n}
<1>1. f \in Surjection(1..n, T)
  <2>1. f \in [1..n -> T]
    OBVIOUS
  <2> QED BY <2>1 DEF Surjection
<1>2. IsFiniteSet(1..n)
  BY FS_Interval
<1> HIDE DEF T
<1>3. IsFiniteSet(T)
  BY <1>1, <1>2, FS_Surjection
<1> QED BY <1>3 DEF T

LEMMA GraphAt ==
    ASSUME NEW graph \in Graphs
    PROVE  /\ DOMAIN graph = 1..Len(graph) /\ Len(graph) \in Nat
           /\ \A k \in DOMAIN graph :
                /\ graph[k].stage \in Nat
                /\ DOMAIN graph[k].steps = 1..Len(graph[k].steps)
                /\ Len(graph[k].steps) \in Nat
                /\ \A j \in DOMAIN graph[k].steps : graph[k].steps[j] \in Refs
<1>1. graph \in [1..Len(graph) -> [stage : Nat, ask : BOOLEAN, steps : Seq(Refs)]]
      /\ Len(graph) \in Nat
  BY LenProperties DEF Graphs
<1>2. \A refs \in Seq(Refs) : /\ DOMAIN refs = 1..Len(refs) /\ Len(refs) \in Nat
                              /\ \A j \in DOMAIN refs : refs[j] \in Refs
  BY LenProperties, ElementOfSeq
<1> QED BY <1>1, <1>2

LEMMA PlacesAre ==
    ASSUME NEW graph \in Graphs, NEW c \in [Product -> Nat]
    PROVE  /\ IsFiniteSet(Places(graph, c))
           /\ \A p : p \in Places(graph, c) <=>
                       /\ p \in Nat \X Nat \X Nat
                       /\ p[1] \in DOMAIN graph
                       /\ p[2] \in DOMAIN graph[p[1]].steps
                       /\ p[3] \in DOMAIN ExpandStep(graph[p[1]].steps[p[2]], c)
<1> DEFINE ns(k, j) == DOMAIN ExpandStep(graph[k].steps[j], c)
           cell(k, j) == {<<k, j, n>> : n \in ns(k, j)}
           row(k) == UNION {cell(k, j) : j \in DOMAIN graph[k].steps}
<1>1. ASSUME NEW k \in DOMAIN graph, NEW j \in DOMAIN graph[k].steps
      PROVE  /\ \E m \in Nat : ns(k, j) = 1..m
             /\ k \in Nat /\ j \in Nat
  BY GraphAt, ExpandStepIs
<1>2. ASSUME NEW k \in DOMAIN graph, NEW j \in DOMAIN graph[k].steps
      PROVE  IsFiniteSet(cell(k, j))
  <2>1. PICK m \in Nat : ns(k, j) = 1..m
    BY <1>1
  <2> DEFINE f == [n \in 1..m |-> <<k, j, n>>]
  <2>2. IsFiniteSet({f[n] : n \in 1..m})
    <3>1. DOMAIN f = 1..m /\ f = [n \in 1..m |-> f[n]]
      OBVIOUS
    <3> HIDE DEF f
    <3> QED BY <3>1, ImageFinite
  <2>3. {f[n] : n \in 1..m} = cell(k, j)
    BY <2>1
  <2> QED BY <2>2, <2>3
<1>3. ASSUME NEW k \in DOMAIN graph
      PROVE  IsFiniteSet(row(k))
  <2>1. DOMAIN graph[k].steps = 1..Len(graph[k].steps) /\ Len(graph[k].steps) \in Nat
    BY GraphAt
  <2> DEFINE m == Len(graph[k].steps)
             f == [j \in 1..m |-> cell(k, j)]
  <2>2. IsFiniteSet({f[j] : j \in 1..m})
    <3>1. DOMAIN f = 1..m /\ f = [j \in 1..m |-> f[j]]
      OBVIOUS
    <3> HIDE DEF f
    <3> QED BY <2>1, <3>1, ImageFinite
  <2>3. {f[j] : j \in 1..m} = {cell(k, j) : j \in DOMAIN graph[k].steps}
    <3> HIDE DEF cell
    <3> QED BY <2>1
  <2> HIDE DEF cell, f, m
  <2>4. IsFiniteSet({cell(k, j) : j \in DOMAIN graph[k].steps})
    BY <2>2, <2>3
  <2>5. \A T \in {cell(k, j) : j \in DOMAIN graph[k].steps} : IsFiniteSet(T)
    BY <1>2
  <2> QED BY <2>4, <2>5, FS_UNION
<1>4. Places(graph, c) = UNION {row(k) : k \in DOMAIN graph}
  BY DEF Places
<1>5. IsFiniteSet(Places(graph, c))
  <2>1. DOMAIN graph = 1..Len(graph) /\ Len(graph) \in Nat
    BY GraphAt
  <2> DEFINE m == Len(graph)
             f == [k \in 1..m |-> row(k)]
  <2>2. IsFiniteSet({f[k] : k \in 1..m})
    <3>1. DOMAIN f = 1..m /\ f = [k \in 1..m |-> f[k]]
      OBVIOUS
    <3> HIDE DEF f
    <3> QED BY <2>1, <3>1, ImageFinite
  <2>3. {f[k] : k \in 1..m} = {row(k) : k \in DOMAIN graph}
    <3> HIDE DEF row
    <3> QED BY <2>1
  <2> HIDE DEF row, f, m
  <2>4. IsFiniteSet({row(k) : k \in DOMAIN graph})
    BY <2>2, <2>3
  <2>5. \A T \in {row(k) : k \in DOMAIN graph} : IsFiniteSet(T)
    BY <1>3
  <2> QED BY <1>4, <2>4, <2>5, FS_UNION
<1>6. \A p : p \in Places(graph, c) <=>
               \E k \in DOMAIN graph : \E j \in DOMAIN graph[k].steps :
                 \E n \in ns(k, j) : p = <<k, j, n>>
  <2> HIDE DEF ns
  <2> QED BY <1>4
<1>7. \A k \in DOMAIN graph : \A j \in DOMAIN graph[k].steps : \A n \in ns(k, j) :
        k \in Nat /\ j \in Nat /\ n \in Nat
  <2> SUFFICES ASSUME NEW k \in DOMAIN graph, NEW j \in DOMAIN graph[k].steps,
                      NEW n \in ns(k, j)
               PROVE  k \in Nat /\ j \in Nat /\ n \in Nat
    OBVIOUS
  <2>1. PICK m \in Nat : ns(k, j) = 1..m
    BY <1>1
  <2> HIDE DEF ns
  <2> QED BY <1>1, <2>1
<1>8. ASSUME NEW p
      PROVE  p \in Places(graph, c) <=>
               /\ p \in Nat \X Nat \X Nat
               /\ p[1] \in DOMAIN graph
               /\ p[2] \in DOMAIN graph[p[1]].steps
               /\ p[3] \in ns(p[1], p[2])
  <2> HIDE DEF ns
  <2>1. ASSUME p \in Places(graph, c)
        PROVE  /\ p \in Nat \X Nat \X Nat
               /\ p[1] \in DOMAIN graph
               /\ p[2] \in DOMAIN graph[p[1]].steps
               /\ p[3] \in ns(p[1], p[2])
    <3>1. PICK k \in DOMAIN graph : \E j \in DOMAIN graph[k].steps :
                 \E n \in ns(k, j) : p = <<k, j, n>>
      BY <1>6, <2>1
    <3>2. PICK j \in DOMAIN graph[k].steps : \E n \in ns(k, j) : p = <<k, j, n>>
      BY <3>1
    <3>3. PICK n \in ns(k, j) : p = <<k, j, n>>
      BY <3>2
    <3>4. p[1] = k /\ p[2] = j /\ p[3] = n
      BY <3>3
    <3> QED BY <1>7, <3>3, <3>4
  <2>2. ASSUME p \in Nat \X Nat \X Nat, p[1] \in DOMAIN graph,
               p[2] \in DOMAIN graph[p[1]].steps, p[3] \in ns(p[1], p[2])
        PROVE  p \in Places(graph, c)
    <3>1. p = <<p[1], p[2], p[3]>>
      BY <2>2
    <3> QED BY <1>6, <2>2, <3>1
  <2> QED BY <2>1, <2>2
<1> QED BY <1>5, <1>8

\* Which of two places comes first.
LEMMA PlacesOrdered ==
    ASSUME NEW places \in SUBSET (Nat \X Nat \X Nat)
    PROVE  Orders(places, [p \in places |-> EarlierPlaces(places, p)])
<1> DEFINE earlier == [p \in places |-> EarlierPlaces(places, p)]
<1>1. \A p \in places : /\ p[1] \in Nat /\ p[2] \in Nat /\ p[3] \in Nat
                        /\ p = <<p[1], p[2], p[3]>>
  OBVIOUS
<1>2. earlier \in [places -> SUBSET places]
  BY DEF EarlierPlaces
<1>3. \A x \in places : x \notin EarlierPlaces(places, x)
  BY <1>1 DEF EarlierPlaces
<1>4. ASSUME NEW x \in places, NEW y \in places, x # y
      PROVE  x \in EarlierPlaces(places, y) \/ y \in EarlierPlaces(places, x)
  <2>1. x[1] # y[1] \/ x[2] # y[2] \/ x[3] # y[3]
    <3> SUFFICES ASSUME x[1] = y[1], x[2] = y[2], x[3] = y[3]
                 PROVE  FALSE
      OBVIOUS
    <3>1. x = <<x[1], x[2], x[3]>> /\ y = <<y[1], y[2], y[3]>>
      BY <1>1
    <3> QED BY <1>4, <3>1
  <2> QED BY <1>1, <2>1 DEF EarlierPlaces
<1>5. ASSUME NEW x \in places, NEW y \in places, NEW z \in places,
             x \in EarlierPlaces(places, y), z \in EarlierPlaces(places, x)
      PROVE  z \in EarlierPlaces(places, y)
  <2>1. \/ x[1] < y[1]
        \/ x[1] = y[1] /\ x[2] < y[2]
        \/ x[1] = y[1] /\ x[2] = y[2] /\ x[3] < y[3]
    BY <1>5 DEF EarlierPlaces
  <2>2. \/ z[1] < x[1]
        \/ z[1] = x[1] /\ z[2] < x[2]
        \/ z[1] = x[1] /\ z[2] = x[2] /\ z[3] < x[3]
    BY <1>5 DEF EarlierPlaces
  <2>3. \/ z[1] < y[1]
        \/ z[1] = y[1] /\ z[2] < y[2]
        \/ z[1] = y[1] /\ z[2] = y[2] /\ z[3] < y[3]
    BY <1>1, <2>1, <2>2
  <2> QED BY <2>3 DEF EarlierPlaces
<1>6. \A x, y \in places : x \in earlier[y] => earlier[x] \subseteq earlier[y]
  <2> SUFFICES ASSUME NEW x \in places, NEW y \in places, x \in earlier[y],
                      NEW z \in earlier[x]
               PROVE  z \in earlier[y]
    OBVIOUS
  <2>1. z \in places
    BY <1>2
  <2> QED BY <1>5, <2>1
<1>7. /\ \A x \in places : x \notin earlier[x]
      /\ \A x, y \in places : x # y => x \in earlier[y] \/ y \in earlier[x]
  BY <1>3, <1>4
<1> HIDE DEF earlier
<1>8. Orders(places, earlier)
  BY <1>2, <1>6, <1>7 DEF Orders
<1> QED BY <1>8 DEF earlier

\* The rows are those of the places, each once, and ordered as the places are.
LEMMA PlacementsAre ==
    ASSUME NEW stageDefs \in Defs, NEW c \in [Product -> Nat]
    PROVE  LET graph == Generate(stageDefs, ProductsOf(c))
               places == Places(graph, c)
           IN \E order :
                /\ Lists(order, places)
                /\ \A i, j \in DOMAIN order :
                     i < j => order[i] \in EarlierPlaces(places, order[j])
                /\ Placements(stageDefs, c) = [i \in DOMAIN order |-> RowAt(graph, c, order[i])]
<1> DEFINE graph == Generate(stageDefs, ProductsOf(c))
           places == Places(graph, c)
           earlier == [p \in places |-> EarlierPlaces(places, p)]
           order == Listed(places, earlier)
<1>1. graph \in Graphs
  BY GenerateType
<1>2. IsFiniteSet(places) /\ places \subseteq Nat \X Nat \X Nat
  <2> HIDE DEF graph
  <2> QED BY <1>1, PlacesAre
<1>3. Orders(places, earlier)
  <2> HIDE DEF graph, places
  <2> QED BY <1>2, PlacesOrdered
<1>4. /\ Lists(order, places)
      /\ \A i, j \in DOMAIN order : i < j => order[i] \in earlier[order[j]]
  <2> HIDE DEF places, earlier
  <2> QED BY <1>2, <1>3, ListedOnce
<1>5. \A i \in DOMAIN order : order[i] \in places
  <2> HIDE DEF places, order
  <2> QED BY <1>4 DEF Lists
<1>6. \A i, j \in DOMAIN order : i < j => order[i] \in EarlierPlaces(places, order[j])
  <2> HIDE DEF places, order
  <2> QED BY <1>4, <1>5
<1>7. Placements(stageDefs, c) = [i \in DOMAIN order |-> RowAt(graph, c, order[i])]
  <2> DEFINE f == [p \in places |-> RowAt(graph, c, p)]
  <2>1. Placements(stageDefs, c) = [i \in DOMAIN order |-> f[order[i]]]
    BY DEF Placements, Fanned, Mapped, InPlaceOrder
  <2> HIDE DEF order, places
  <2>2. \A i \in DOMAIN order : f[order[i]] = RowAt(graph, c, order[i])
    BY <1>5
  <2> HIDE DEF f
  <2> QED BY <2>1, <2>2
<1> HIDE DEF order
<1> QED BY <1>4, <1>6, <1>7

-----------------------------------------------------------------------------
(* The stages of a graph as the handlers see them, in any order. *)

StageOf(def, products) ==
    [stage |-> def.stage, ask |-> def.ask,
     steps |-> {ref \in ToSet(def.steps) : IsStepIncluded(ref, products)}]
StagesOf(stageDefs, products) ==
    {def \in {StageOf(stageDefs[k], products) : k \in DOMAIN stageDefs} : def.steps # {}}

LEMMA StageStepsAsSet ==
    ASSUME NEW refs \in Seq(Refs), NEW products
    PROVE  /\ ToSet(StageSteps(refs, products))
                = {ref \in ToSet(refs) : IsStepIncluded(ref, products)}
           /\ DOMAIN StageSteps(refs, products) # {}
                <=> \E ref \in ToSet(refs) : IsStepIncluded(ref, products)
<1>1. PICK order : /\ Lists(order, Chosen(refs, products))
                   /\ StageSteps(refs, products) = [n \in DOMAIN order |-> refs[order[n]]]
  BY StageStepsAre
<1> DEFINE chosen == Chosen(refs, products)
<1>2. /\ \A n \in DOMAIN order : order[n] \in chosen
      /\ \A j \in chosen : \E n \in DOMAIN order : order[n] = j
  BY <1>1 DEF Lists
<1>3. DOMAIN StageSteps(refs, products) = DOMAIN order
      /\ \A n \in DOMAIN order : StageSteps(refs, products)[n] = refs[order[n]]
  BY <1>1
<1>4. /\ \A j \in chosen : j \in DOMAIN refs /\ IsStepIncluded(refs[j], products)
      /\ \A j \in DOMAIN refs : IsStepIncluded(refs[j], products) => j \in chosen
  BY DEF Chosen
<1> HIDE DEF chosen
<1>5. ToSet(StageSteps(refs, products)) = {refs[j] : j \in chosen}
  BY <1>2, <1>3 DEF ToSet
<1>6. {refs[j] : j \in chosen} = {ref \in ToSet(refs) : IsStepIncluded(ref, products)}
  BY <1>4 DEF ToSet
<1>7. DOMAIN StageSteps(refs, products) # {} <=> chosen # {}
  BY <1>2, <1>3
<1> QED BY <1>4, <1>5, <1>6, <1>7 DEF ToSet

LEMMA GraphStages ==
    ASSUME NEW stageDefs \in Defs, NEW products
    PROVE  LET graph == Generate(stageDefs, products)
               stages == StagesOf(stageDefs, products)
           IN /\ \A k \in DOMAIN graph : [graph[k] EXCEPT !.steps = ToSet(@)] \in stages
              /\ \A def \in stages : \E k \in DOMAIN graph :
                   def = [graph[k] EXCEPT !.steps = ToSet(@)]
<1> DEFINE graph == Generate(stageDefs, products)
           stages == StagesOf(stageDefs, products)
           kept == Kept(stageDefs, products)
           Rec == [stage : Nat, ask : BOOLEAN, steps : Seq(Refs)]
<1>1. PICK order : /\ Lists(order, kept)
                   /\ graph = [k \in DOMAIN order |->
                                [stageDefs[order[k]] EXCEPT !.steps = StageSteps(@, products)]]
  BY GenerateIs
<1>2. /\ \A n \in DOMAIN order : order[n] \in kept
      /\ \A i \in kept : \E n \in DOMAIN order : order[n] = i
  BY <1>1 DEF Lists
<1>3. \A i \in DOMAIN stageDefs : stageDefs[i] \in Rec
  <2>1. stageDefs \in [1..Len(stageDefs) -> Rec]
    BY LenProperties DEF Defs
  <2> QED BY <2>1
<1>4. ASSUME NEW i \in DOMAIN stageDefs
      PROVE  LET made == [stageDefs[i] EXCEPT !.steps = StageSteps(@, products)]
             IN /\ [made EXCEPT !.steps = ToSet(@)] = StageOf(stageDefs[i], products)
                /\ i \in kept <=> StageOf(stageDefs[i], products).steps # {}
  <2>1. stageDefs[i] \in Rec /\ stageDefs[i].steps \in Seq(Refs)
    BY <1>3
  <2>2. /\ ToSet(StageSteps(stageDefs[i].steps, products))
             = {ref \in ToSet(stageDefs[i].steps) : IsStepIncluded(ref, products)}
        /\ DOMAIN StageSteps(stageDefs[i].steps, products) # {}
             <=> \E ref \in ToSet(stageDefs[i].steps) : IsStepIncluded(ref, products)
    BY <2>1, StageStepsAsSet
  <2>3. i \in kept <=> StageOf(stageDefs[i], products).steps # {}
    BY <2>2 DEF Kept, StageOf
  <2>4. ASSUME NEW def \in Rec, NEW x
        PROVE  [def EXCEPT !.steps = x] = [stage |-> def.stage, ask |-> def.ask, steps |-> x]
    OBVIOUS
  <2>5. ASSUME NEW a, NEW b, NEW x, NEW y
        PROVE  [[stage |-> a, ask |-> b, steps |-> x] EXCEPT !.steps = y]
                 = [stage |-> a, ask |-> b, steps |-> y]
    OBVIOUS
  <2> DEFINE made == [stageDefs[i] EXCEPT !.steps = StageSteps(@, products)]
  <2>6. made = [stage |-> stageDefs[i].stage, ask |-> stageDefs[i].ask,
                steps |-> StageSteps(stageDefs[i].steps, products)]
    BY <2>1, <2>4
  <2>7. made.steps = StageSteps(stageDefs[i].steps, products)
    BY <2>6
  <2>8. [made EXCEPT !.steps = ToSet(@)]
          = [stage |-> stageDefs[i].stage, ask |-> stageDefs[i].ask, steps |-> ToSet(made.steps)]
    <3> HIDE DEF made
    <3> QED BY <2>5, <2>6
  <2> HIDE DEF made
  <2>9. [made EXCEPT !.steps = ToSet(@)] = StageOf(stageDefs[i], products)
    BY <2>2, <2>7, <2>8 DEF StageOf
  <2> QED BY <2>3, <2>9 DEF made
<1>5. \A k \in DOMAIN graph : [graph[k] EXCEPT !.steps = ToSet(@)] \in stages
  <2> SUFFICES ASSUME NEW k \in DOMAIN graph
               PROVE  [graph[k] EXCEPT !.steps = ToSet(@)] \in stages
    OBVIOUS
  <2>1. order[k] \in DOMAIN stageDefs /\ order[k] \in kept
    BY <1>1, <1>2 DEF Kept
  <2>2. graph[k] = [stageDefs[order[k]] EXCEPT !.steps = StageSteps(@, products)]
    BY <1>1
  <2> HIDE DEF graph, kept
  <2>3. [graph[k] EXCEPT !.steps = ToSet(@)] = StageOf(stageDefs[order[k]], products)
    BY <1>4, <2>1, <2>2
  <2> QED BY <1>4, <2>1, <2>3 DEF StagesOf
<1>6. ASSUME NEW def \in stages
      PROVE  \E k \in DOMAIN graph : def = [graph[k] EXCEPT !.steps = ToSet(@)]
  <2>1. PICK i \in DOMAIN stageDefs : def = StageOf(stageDefs[i], products)
    BY DEF StagesOf
  <2>2. i \in kept
    BY <1>4, <2>1 DEF StagesOf
  <2>3. PICK k \in DOMAIN order : order[k] = i
    BY <1>2, <2>2
  <2>4. k \in DOMAIN graph
        /\ graph[k] = [stageDefs[i] EXCEPT !.steps = StageSteps(@, products)]
    BY <1>1, <2>3
  <2> HIDE DEF graph, kept
  <2> QED BY <1>4, <2>1, <2>4
<1> QED BY <1>5, <1>6

LEMMA YmlStages == ASSUME NEW c \in Ymls PROVE c.stages \in Defs
BY DEF Ymls, Defs, Refs

\* What StageSteps and Generate make of a yml as it is authored.
LEMMA GraphOf ==
    ASSUME NEW c \in Ymls, Authored(c), NEW products
    PROVE  LET graph == Generate(c.stages, products)
           IN /\ \A j, k \in DOMAIN graph : j < k => graph[j].stage < graph[k].stage
              /\ \A j, k \in DOMAIN graph :
                   \A m \in DOMAIN graph[j].steps, n \in DOMAIN graph[k].steps :
                     graph[j].steps[m] = graph[k].steps[n] => j = k /\ m = n
<1> DEFINE defs == c.stages
           graph == Generate(defs, products)
           kept == Kept(defs, products)
<1>1. defs \in Defs
  BY YmlStages
<1> HIDE DEF defs
<1>2. PICK order :
        /\ Lists(order, kept)
        /\ \A j, k \in DOMAIN order : j < k => order[j] \in EarlierStages(defs, order[k])
        /\ graph = [k \in DOMAIN order |->
                      [defs[order[k]] EXCEPT !.steps = StageSteps(@, products)]]
  BY <1>1, GenerateIs
<1>3. \A i \in DOMAIN defs : defs[i] \in [stage : Nat, ask : BOOLEAN, steps : Seq(Refs)]
  <2>1. defs \in [1..Len(defs) -> [stage : Nat, ask : BOOLEAN, steps : Seq(Refs)]]
    BY <1>1, LenProperties DEF Defs
  <2> QED BY <2>1
<1>4. \A k \in DOMAIN order : order[k] \in DOMAIN defs
  BY <1>2 DEF Lists, Kept
<1>5. DOMAIN graph = DOMAIN order
      /\ \A k \in DOMAIN order :
           /\ graph[k].stage = defs[order[k]].stage
           /\ graph[k].steps = StageSteps(defs[order[k]].steps, products)
  <2>1. \A k \in DOMAIN order :
          graph[k] = [defs[order[k]] EXCEPT !.steps = StageSteps(@, products)]
    BY <1>2
  <2>2. DOMAIN graph = DOMAIN order
    BY <1>2
  <2> HIDE DEF graph
  <2> QED BY <1>3, <1>4, <2>1, <2>2
<1>6. \A i, j \in DOMAIN defs :
        /\ defs[i].stage = defs[j].stage => i = j
        /\ \A k \in DOMAIN defs[i].steps, l \in DOMAIN defs[j].steps :
             defs[i].steps[k] = defs[j].steps[l] => i = j /\ k = l
  BY DEF Authored, defs
<1> HIDE DEF graph, kept
<1>7. ASSUME NEW j \in DOMAIN graph, NEW k \in DOMAIN graph, j < k
      PROVE  graph[j].stage < graph[k].stage
  <2>1. order[j] \in EarlierStages(defs, order[k]) /\ order[j] # order[k]
    <3>1. j \in Nat /\ k \in Nat
      BY <1>2, <1>5 DEF Lists
    <3> QED BY <1>2, <1>5, <1>7, <3>1 DEF Lists
  <2>2. defs[order[j]].stage # defs[order[k]].stage
    BY <1>4, <1>5, <1>6, <2>1
  <2> QED BY <1>5, <2>1, <2>2 DEF EarlierStages
<1>8. ASSUME NEW j \in DOMAIN graph, NEW k \in DOMAIN graph,
             NEW m \in DOMAIN graph[j].steps, NEW n \in DOMAIN graph[k].steps,
             graph[j].steps[m] = graph[k].steps[n]
      PROVE  j = k /\ m = n
  <2> DEFINE a == defs[order[j]].steps
             b == defs[order[k]].steps
  <2>1. a \in Seq(Refs) /\ b \in Seq(Refs)
    BY <1>3, <1>4, <1>5
  <2>2. graph[j].steps = StageSteps(a, products) /\ graph[k].steps = StageSteps(b, products)
    BY <1>5
  <2> HIDE DEF a, b
  <2>3. PICK s : /\ Lists(s, Chosen(a, products))
                 /\ StageSteps(a, products) = [i \in DOMAIN s |-> a[s[i]]]
    BY <2>1, StageStepsAre
  <2>4. PICK t : /\ Lists(t, Chosen(b, products))
                 /\ StageSteps(b, products) = [i \in DOMAIN t |-> b[t[i]]]
    BY <2>1, StageStepsAre
  <2>5. m \in DOMAIN s /\ n \in DOMAIN t /\ a[s[m]] = b[t[n]]
    BY <1>8, <2>2, <2>3, <2>4
  <2>6. s[m] \in DOMAIN a /\ t[n] \in DOMAIN b
    BY <2>3, <2>4, <2>5 DEF Lists, Chosen
  <2>7. order[j] = order[k] /\ s[m] = t[n]
    BY <1>4, <1>5, <1>6, <2>5, <2>6 DEF a, b
  <2>8. j = k
    BY <1>2, <1>5, <2>7 DEF Lists
  <2>9. StageSteps(a, products) = StageSteps(b, products) /\ a = b
    BY <2>8 DEF a, b
  <2>10. m \in DOMAIN t /\ a[s[m]] = a[t[m]]
    BY <2>3, <2>4, <2>5, <2>9
  <2>11. t[m] \in DOMAIN a
    BY <2>4, <2>9, <2>10 DEF Lists, Chosen
  <2>12. s[m] = t[m]
    BY <1>4, <1>5, <1>6, <2>6, <2>10, <2>11 DEF a
  <2>13. m = n
    BY <2>4, <2>5, <2>7, <2>10, <2>12 DEF Lists
  <2> QED BY <2>8, <2>13
<1> QED BY <1>7, <1>8 DEF graph, defs

-----------------------------------------------------------------------------
(* The invariant. *)

BookingStatuses == {"in_progress", "awaiting_user_decision", "confirmed",
                    "partially_confirmed", "failed"}
RowStatuses == {"pending", "in_progress", "success", "failed", "compensating",
                "compensated"}
Sagas == [booking : BookingStatuses, status : [DOMAIN rows -> RowStatuses],
          sent : SUBSET DOMAIN rows]

\* The rows a booking has are those of the configuration it was created under.
RowsOfBorn ==
    /\ config \in Initial \cup Editions /\ born \in Initial \cup Editions
    /\ count \in [Product -> 0..MaxItems]
    /\ saga = NoBooking => rows = <<>>
    /\ saga # NoBooking => saga \in Sagas /\ rows = Placements(born.stages, count)

LEMMA NotABooking == NoBooking \notin Sagas
BY DEF NoBooking, Sagas, BookingStatuses

LEMMA MarkType ==
    ASSUME NEW s \in Sagas, NEW marked, NEW status \in RowStatuses
    PROVE  /\ Mark(s, marked, status) \in Sagas
           /\ Mark(s, marked, status).booking = s.booking
           /\ Mark(s, marked, status).sent = s.sent
           /\ \A i \in DOMAIN rows : Mark(s, marked, status).status[i]
                = IF i \in marked THEN status ELSE s.status[i]
<1> DEFINE f == [i \in DOMAIN rows |-> IF i \in marked THEN status ELSE s.status[i]]
<1>1. /\ DOMAIN s.status = DOMAIN rows
      /\ s = [booking |-> s.booking, status |-> s.status, sent |-> s.sent]
      /\ s.booking \in BookingStatuses /\ s.sent \in SUBSET DOMAIN rows
      /\ s.status \in [DOMAIN rows -> RowStatuses]
  BY DEF Sagas
<1>2. f \in [DOMAIN rows -> RowStatuses]
  BY <1>1
<1>3. Mark(s, marked, status) = [s EXCEPT !.status = f]
  BY <1>1 DEF Mark
<1>4. \A i \in DOMAIN rows : f[i] = IF i \in marked THEN status ELSE s.status[i]
  OBVIOUS
<1> HIDE DEF f
<1>5. [s EXCEPT !.status = f] = [booking |-> s.booking, status |-> f, sent |-> s.sent]
  BY <1>1
<1> QED BY <1>1, <1>2, <1>3, <1>4, <1>5 DEF Sagas

LEMMA BookedType ==
    ASSUME NEW s \in Sagas, NEW b \in BookingStatuses
    PROVE  /\ [s EXCEPT !.booking = b] \in Sagas
           /\ [s EXCEPT !.booking = b].booking = b
           /\ [s EXCEPT !.booking = b].status = s.status
           /\ [s EXCEPT !.booking = b].sent = s.sent
BY DEF Sagas

LEMMA FinalizedType == ASSUME NEW c, NEW s \in Sagas PROVE Finalized(c, s) \in Sagas
<1>1. "partially_confirmed" \in BookingStatuses /\ "confirmed" \in BookingStatuses
  BY DEF BookingStatuses
<1> QED BY <1>1, BookedType DEF Finalized

LEMMA AdvancedType ==
    ASSUME NEW c, NEW s \in Sagas, NEW stage PROVE Advanced(c, s, stage) \in Sagas
<1> DEFINE next == NextStage(c, stage)
           claimed == InStage(Graph(c)[next].stage) \cap With(s, "pending")
           known == \A i \in claimed : rows[i].ref \in Graph(c)[next].steps
           marked == Mark(s, claimed, "in_progress")
           sent == IF known THEN marked.sent \cup claimed ELSE marked.sent
<1>1. claimed \subseteq DOMAIN rows
  BY DEF InStage
<1>2. marked \in Sagas
  BY MarkType DEF RowStatuses
<1>3. [marked EXCEPT !.sent = sent] \in Sagas
  <2>1. sent \in SUBSET DOMAIN rows
    <3> HIDE DEF known, claimed, marked
    <3> QED BY <1>1, <1>2 DEF Sagas
  <2> HIDE DEF sent, marked
  <2> QED BY <1>2, <2>1 DEF Sagas
<1>4. Advanced(c, s, stage) = IF next \notin DOMAIN Graph(c) THEN Finalized(c, s)
                              ELSE [marked EXCEPT !.sent = sent]
  BY DEF Advanced
<1> HIDE DEF next, marked, sent
<1> QED BY <1>3, <1>4, FinalizedType

LEMMA GivenUpType == ASSUME NEW c, NEW s \in Sagas PROVE GivenUp(c, s) \in Sagas
<1>1. /\ "failed" \in BookingStatuses
      /\ {"failed", "compensating"} \subseteq RowStatuses
  BY DEF BookingStatuses, RowStatuses
<1>2. Mark([s EXCEPT !.booking = "failed"], With(s, "pending"), "failed") \in Sagas
  BY <1>1, BookedType, MarkType
<1> QED BY <1>1, <1>2, MarkType DEF GivenUp, Undone

LEMMA CompletedType ==
    ASSUME NEW c, NEW s \in Sagas, NEW i \in DOMAIN rows, NEW outcome \in {"success", "failed"}
    PROVE  Completed(c, s, i, outcome) \in Sagas
<1> DEFINE now == Mark(s, {i}, outcome)
<1>1. now \in Sagas
  BY MarkType DEF RowStatuses
<1>2. GivenUp(c, now) \in Sagas /\ Advanced(c, now, rows[i].stage) \in Sagas
  <2> HIDE DEF now
  <2> QED BY <1>1, GivenUpType, AdvancedType
<1>3. [now EXCEPT !.booking = "awaiting_user_decision"] \in Sagas
  <2> HIDE DEF now
  <2> QED BY <1>1, BookedType DEF BookingStatuses
<1> HIDE DEF now
<1> QED BY <1>1, <1>2, <1>3 DEF Completed, now

LEMMA AcceptedType == ASSUME NEW c, NEW s \in Sagas PROVE Accepted(c, s) \in Sagas
<1> DEFINE now == [s EXCEPT !.booking = "in_progress"]
<1>1. now \in Sagas
  BY BookedType DEF BookingStatuses
<1>2. Accepted(c, s) \in {now, Advanced(c, now, Graph(c)[Min(AskStages(c))].stage)}
  BY DEF Accepted
<1> HIDE DEF now
<1> QED BY <1>1, <1>2, AdvancedType

LEMMA HandledType ==
    ASSUME NEW c, RowsOfBorn, Handled(c)
    PROVE  saga \in Sagas /\ saga' \in Sagas
<1>1. saga \in Sagas
  <2>1. saga # NoBooking
    <3> SUFFICES ASSUME saga = NoBooking PROVE FALSE
      OBVIOUS
    <3>1. saga.booking = "none" /\ saga.sent = {} /\ DOMAIN rows = {}
      BY DEF NoBooking, RowsOfBorn
    <3> QED BY <3>1 DEF Handled, Complete, Accept, Reject, Compensate
  <2> QED BY <2>1 DEF RowsOfBorn
<1>2. CASE \E i \in DOMAIN rows, o \in {"success", "failed"} : Complete(c, i, o)
  BY <1>1, <1>2, CompletedType DEF Complete
<1>3. CASE Accept(c)
  BY <1>1, <1>3, AcceptedType DEF Accept
<1>4. CASE Reject(c)
  BY <1>1, <1>4, GivenUpType DEF Reject
<1>5. CASE \E i \in DOMAIN rows : Compensate(i)
  BY <1>1, <1>5, MarkType DEF Compensate, RowStatuses
<1> QED BY <1>1, <1>2, <1>3, <1>4, <1>5 DEF Handled

LEMMA PlacementsDomain ==
    ASSUME NEW stageDefs \in Defs, NEW c \in [Product -> Nat]
    PROVE  \E n \in Nat : DOMAIN Placements(stageDefs, c) = 1..n
BY PlacementsAre DEF Lists

LEMMA ConfigType ==
    ASSUME RowsOfBorn
    PROVE  /\ config \in Ymls /\ Authored(config) /\ config.stages \in Defs
           /\ born \in Ymls /\ Authored(born) /\ born.stages \in Defs
           /\ count \in [Product -> Nat]
<1>1. config \in Ymls /\ Authored(config) /\ born \in Ymls /\ Authored(born)
  BY ReloadAssumption DEF RowsOfBorn
<1>2. count \in [Product -> Nat]
  <2>1. 0..MaxItems \subseteq Nat
    BY ReloadAssumption
  <2> QED BY <2>1 DEF RowsOfBorn
<1> QED BY <1>1, <1>2, YmlStages

LEMMA RowsInvariant == Spec => []RowsOfBorn
<1>1. Init => RowsOfBorn
  BY DEF Init, RowsOfBorn
<1>2. RowsOfBorn /\ [Next]_vars => RowsOfBorn'
  <2> SUFFICES ASSUME RowsOfBorn, [Next]_vars
               PROVE  RowsOfBorn'
    OBVIOUS
  <2>1. CASE Publish
    <3> DEFINE placed == Placements(config.stages, count)
               first == {i \in DOMAIN placed : placed[i].stage = 0}
    <3>1. /\ config' = config /\ born' = config /\ count' = count /\ rows' = placed
          /\ saga' = [booking |-> "in_progress",
                      status |-> [i \in DOMAIN placed |->
                                    IF i \in first THEN "in_progress" ELSE "pending"],
                      sent |-> first]
      BY <2>1 DEF Publish
    <3>2. first \subseteq DOMAIN placed
      OBVIOUS
    <3>3. [i \in DOMAIN placed |-> IF i \in first THEN "in_progress" ELSE "pending"]
            \in [DOMAIN placed -> RowStatuses]
      BY DEF RowStatuses
    <3> HIDE DEF placed, first
    <3>4. saga' \in [booking : BookingStatuses, status : [DOMAIN placed -> RowStatuses],
                     sent : SUBSET DOMAIN placed]
      BY <3>1, <3>2, <3>3 DEF BookingStatuses
    <3>5. saga' \in Sagas'
      BY <3>1, <3>4 DEF Sagas
    <3>6. saga' # NoBooking
      BY <3>1 DEF NoBooking
    <3> QED BY <3>1, <3>5, <3>6 DEF RowsOfBorn, placed
  <2>2. CASE Handle
    <3>1. Handled(config) /\ UNCHANGED <<config, count, rows, born>>
      BY <2>2 DEF Handle
    <3>2. saga \in Sagas /\ saga' \in Sagas
      BY <3>1, HandledType
    <3>3. saga # NoBooking /\ saga' # NoBooking /\ saga' \in Sagas'
      BY <3>1, <3>2, NotABooking DEF Sagas
    <3> QED BY <3>1, <3>3 DEF RowsOfBorn
  <2>3. CASE Restart
    <3>1. /\ config' \in Initial \cup Editions /\ saga # NoBooking
          /\ UNCHANGED <<count, rows, saga, born>>
      BY <2>3 DEF Restart
    <3> QED BY <3>1 DEF RowsOfBorn, Sagas
  <2>4. CASE UNCHANGED vars
    BY <2>4 DEF vars, RowsOfBorn, Sagas
  <2> QED BY <2>1, <2>2, <2>3, <2>4 DEF Next
<1> QED BY <1>1, <1>2, PTL DEF Spec

-----------------------------------------------------------------------------
(* What the rows of a new booking are. *)

\* "no duplicate (bookingId, stepName, item) rows" (contract.prisma:119-123): the
\* fan-out of any yml that lists a step once, for any request, creates no row twice.
THEOREM NoDuplicateRow == Spec => []OneRowPerStepAndItem
<1>1. RowsOfBorn => OneRowPerStepAndItem
  <2> SUFFICES ASSUME RowsOfBorn, NEW i \in DOMAIN rows, NEW j \in DOMAIN rows,
                      rows[i].ref = rows[j].ref, rows[i].item = rows[j].item
               PROVE  i = j
    BY DEF OneRowPerStepAndItem
  <2>1. rows = Placements(born.stages, count)
    <3>1. DOMAIN <<>> = {}
      OBVIOUS
    <3> QED BY <3>1 DEF RowsOfBorn
  <2> DEFINE graph == Generate(born.stages, ProductsOf(count))
             places == Places(graph, count)
  <2>2. PICK order : /\ Lists(order, places)
                     /\ rows = [n \in DOMAIN order |-> RowAt(graph, count, order[n])]
    BY <2>1, ConfigType, PlacementsAre
  <2> DEFINE p == order[i]
             q == order[j]
             pref == graph[p[1]].steps[p[2]]
             qref == graph[q[1]].steps[q[2]]
  <2>3. i \in DOMAIN order /\ j \in DOMAIN order /\ p \in places /\ q \in places
    <3>1. DOMAIN rows = DOMAIN order
      BY <2>2
    <3> QED BY <2>2, <3>1 DEF Lists
  <2>4. graph \in Graphs
    BY ConfigType, GenerateType
  <2>5. \A j1, k1 \in DOMAIN graph :
           \A m \in DOMAIN graph[j1].steps, n \in DOMAIN graph[k1].steps :
             graph[j1].steps[m] = graph[k1].steps[n] => j1 = k1 /\ m = n
    BY ConfigType, GraphOf
  <2> HIDE DEF graph
  <2>6. /\ p \in Nat \X Nat \X Nat /\ p[1] \in DOMAIN graph
        /\ p[2] \in DOMAIN graph[p[1]].steps /\ p[3] \in DOMAIN ExpandStep(pref, count)
        /\ q \in Nat \X Nat \X Nat /\ q[1] \in DOMAIN graph
        /\ q[2] \in DOMAIN graph[q[1]].steps /\ q[3] \in DOMAIN ExpandStep(qref, count)
    <3> HIDE DEF p, q
    <3> QED BY <2>3, <2>4, ConfigType, PlacesAre
  <2>7. /\ rows[i].ref = pref /\ rows[i].item = ExpandStep(pref, count)[p[3]]
        /\ rows[j].ref = qref /\ rows[j].item = ExpandStep(qref, count)[q[3]]
    BY <2>2, <2>3 DEF RowAt
  <2>8. pref = qref /\ p[1] = q[1] /\ p[2] = q[2]
    <3> HIDE DEF p, q
    <3>1. pref = qref
      BY <2>7
    <3> QED BY <2>5, <2>6, <3>1
  <2>9. pref \in Refs
    BY <2>4, <2>6, GraphAt
  <2> HIDE DEF p, q, pref, qref
  <2>10. p[3] = q[3]
    <3>1. ExpandStep(pref, count)[p[3]] = ExpandStep(pref, count)[q[3]]
      BY <2>7, <2>8
    <3>2. p[3] \in DOMAIN ExpandStep(pref, count) /\ q[3] \in DOMAIN ExpandStep(pref, count)
      BY <2>6, <2>8
    <3>3. CASE Steps[pref].product = "itinerary"
      BY <2>9, <3>2, <3>3, ConfigType, ExpandStepIs
    <3>4. CASE Steps[pref].product # "itinerary"
      <4>1. ExpandStep(pref, count)[p[3]].number = p[3]
            /\ ExpandStep(pref, count)[q[3]].number = q[3]
        <5> DEFINE made(n) == [product |-> Steps[pref].product, number |-> n]
        <5>1. \A n \in DOMAIN ExpandStep(pref, count) : ExpandStep(pref, count)[n] = made(n)
          <6>1. count \in [Product -> Nat]
            BY ConfigType
          <6>2. /\ DOMAIN ExpandStep(pref, count) = 1..count[Steps[pref].product]
                /\ \A n \in 1..count[Steps[pref].product] :
                     ExpandStep(pref, count)[n] = [product |-> Steps[pref].product, number |-> n]
            BY <2>9, <3>4, <6>1, ExpandStepIs
          <6> QED BY <6>2
        <5>2. \A n : made(n).number = n
          OBVIOUS
        <5> HIDE DEF made
        <5> QED BY <3>2, <5>1, <5>2
      <4> QED BY <3>1, <4>1
    <3> QED BY <3>3, <3>4
  <2>11. p = q
    <3>1. p = <<p[1], p[2], p[3]>> /\ q = <<q[1], q[2], q[3]>>
      BY <2>6
    <3> QED BY <2>8, <2>10, <3>1
  <2> QED BY <2>2, <2>3, <2>11 DEF Lists, p, q
<1> QED BY <1>1, RowsInvariant, PTL

\* stepIndex follows the order of execution, whatever order the yml lists its
\* stages in (graph.service.ts:31-33, booking.service.ts:79-101).
THEOREM IndexOrdered == Spec => []IndexFollowsStages
<1>1. RowsOfBorn => IndexFollowsStages
  <2> SUFFICES ASSUME RowsOfBorn, NEW i \in DOMAIN rows, NEW j \in DOMAIN rows, i < j
               PROVE  rows[i].stage <= rows[j].stage
    BY DEF IndexFollowsStages
  <2>1. rows = Placements(born.stages, count)
    <3>1. DOMAIN <<>> = {}
      OBVIOUS
    <3> QED BY <3>1 DEF RowsOfBorn
  <2> DEFINE graph == Generate(born.stages, ProductsOf(count))
             places == Places(graph, count)
  <2>2. PICK order : /\ Lists(order, places)
                     /\ \A m, n \in DOMAIN order :
                          m < n => order[m] \in EarlierPlaces(places, order[n])
                     /\ rows = [n \in DOMAIN order |-> RowAt(graph, count, order[n])]
    BY <2>1, ConfigType, PlacementsAre
  <2> DEFINE p == order[i]
             q == order[j]
  <2>3. i \in DOMAIN order /\ j \in DOMAIN order /\ p \in places /\ q \in places
    <3>1. DOMAIN rows = DOMAIN order
      BY <2>2
    <3> QED BY <2>2, <3>1 DEF Lists
  <2>4. rows[i].stage = graph[p[1]].stage /\ rows[j].stage = graph[q[1]].stage
    BY <2>2, <2>3 DEF RowAt
  <2>5. p[1] < q[1] \/ p[1] = q[1]
    <3> HIDE DEF places
    <3>1. p \in EarlierPlaces(places, q)
      BY <2>2, <2>3
    <3> HIDE DEF p, q
    <3> QED BY <3>1 DEF EarlierPlaces
  <2>6. graph \in Graphs
    BY ConfigType, GenerateType
  <2>7. \A m, n \in DOMAIN graph : m < n => graph[m].stage < graph[n].stage
    BY ConfigType, GraphOf
  <2> HIDE DEF graph
  <2>8. p[1] \in DOMAIN graph /\ q[1] \in DOMAIN graph
    <3> HIDE DEF p, q
    <3> QED BY <2>3, <2>6, ConfigType, PlacesAre
  <2> HIDE DEF p, q
  <2>9. graph[p[1]].stage \in Nat /\ graph[q[1]].stage \in Nat
    BY <2>6, <2>8, GraphAt
  <2> QED BY <2>4, <2>5, <2>7, <2>8, <2>9
<1> QED BY <1>1, RowsInvariant, PTL

LEMMA AsSetsIs ==
    ASSUME NEW graph \in Graphs, NEW k \in DOMAIN graph
    PROVE  [graph[k] EXCEPT !.steps = ToSet(@)]
             = [stage |-> graph[k].stage, ask |-> graph[k].ask, steps |-> ToSet(graph[k].steps)]
<1>1. graph[k] \in [stage : Nat, ask : BOOLEAN, steps : Seq(Refs)]
  <2>1. graph \in [1..Len(graph) -> [stage : Nat, ask : BOOLEAN, steps : Seq(Refs)]]
    BY LenProperties DEF Graphs
  <2> QED BY <2>1
<1> QED BY <1>1

\* A place of the graph is a listed, included step; and every such step has one.
LEMMA ListedSteps ==
    ASSUME NEW stageDefs \in Defs, NEW products
    PROVE  LET graph == Generate(stageDefs, products)
           IN /\ \A g \in DOMAIN graph : \A j \in DOMAIN graph[g].steps :
                   \E k \in DOMAIN stageDefs :
                     /\ graph[g].stage = stageDefs[k].stage
                     /\ graph[g].steps[j] \in ToSet(stageDefs[k].steps)
                     /\ IsStepIncluded(graph[g].steps[j], products)
              /\ \A k \in DOMAIN stageDefs : \A ref \in ToSet(stageDefs[k].steps) :
                   IsStepIncluded(ref, products) =>
                     \E g \in DOMAIN graph : /\ graph[g].stage = stageDefs[k].stage
                                             /\ \E j \in DOMAIN graph[g].steps :
                                                  graph[g].steps[j] = ref
<1> DEFINE graph == Generate(stageDefs, products)
           stages == StagesOf(stageDefs, products)
<1>1. graph \in Graphs
  BY GenerateType
<1>2. /\ \A k \in DOMAIN graph : [graph[k] EXCEPT !.steps = ToSet(@)] \in stages
      /\ \A def \in stages : \E k \in DOMAIN graph :
           def = [graph[k] EXCEPT !.steps = ToSet(@)]
  BY GraphStages
<1> HIDE DEF graph
<1>3. ASSUME NEW g \in DOMAIN graph, NEW j \in DOMAIN graph[g].steps
      PROVE  \E k \in DOMAIN stageDefs :
               /\ graph[g].stage = stageDefs[k].stage
               /\ graph[g].steps[j] \in ToSet(stageDefs[k].steps)
               /\ IsStepIncluded(graph[g].steps[j], products)
  <2> DEFINE made == [stage |-> graph[g].stage, ask |-> graph[g].ask,
                      steps |-> ToSet(graph[g].steps)]
  <2>1. made \in stages
    BY <1>1, <1>2, AsSetsIs
  <2>2. PICK k \in DOMAIN stageDefs : made = StageOf(stageDefs[k], products)
    BY <2>1 DEF StagesOf
  <2>3. graph[g].steps[j] \in ToSet(graph[g].steps)
    BY DEF ToSet
  <2>4. /\ graph[g].stage = made.stage /\ ToSet(graph[g].steps) = made.steps
        /\ made.stage = stageDefs[k].stage
        /\ made.steps = {ref \in ToSet(stageDefs[k].steps) : IsStepIncluded(ref, products)}
    <3>1. graph[g].stage = made.stage /\ ToSet(graph[g].steps) = made.steps
      OBVIOUS
    <3> HIDE DEF made
    <3> QED BY <2>2, <3>1 DEF StageOf
  <2> HIDE DEF made
  <2> QED BY <2>3, <2>4
<1>4. ASSUME NEW k \in DOMAIN stageDefs, NEW ref \in ToSet(stageDefs[k].steps),
             IsStepIncluded(ref, products)
      PROVE  \E g \in DOMAIN graph : /\ graph[g].stage = stageDefs[k].stage
                                     /\ \E j \in DOMAIN graph[g].steps :
                                          graph[g].steps[j] = ref
  <2> DEFINE def == StageOf(stageDefs[k], products)
  <2>1. ref \in def.steps /\ def.stage = stageDefs[k].stage
    BY <1>4 DEF StageOf
  <2>2. def \in stages
    BY <2>1 DEF StagesOf
  <2> HIDE DEF def, stages
  <2>3. PICK g \in DOMAIN graph : def = [graph[g] EXCEPT !.steps = ToSet(@)]
    BY <1>2, <2>2
  <2>4. def = [stage |-> graph[g].stage, ask |-> graph[g].ask, steps |-> ToSet(graph[g].steps)]
    BY <1>1, <2>3, AsSetsIs
  <2>5. def.stage = graph[g].stage /\ def.steps = ToSet(graph[g].steps)
    BY <2>4
  <2> QED BY <2>1, <2>5 DEF ToSet
<1> QED BY <1>3, <1>4 DEF graph

\* The rows of a new booking, whatever was booked and however the yml is ordered,
\* are one per shared step and one per step of a booked product and item of it, at
\* the step's own stage; nothing is left out and nothing added (graph.service.ts:
\* 22-62, booking.service.ts:79-101).
THEOREM RowsComplete == Spec => []RowsAsExpected
<1>1. RowsOfBorn => RowsAsExpected
  <2> SUFFICES ASSUME RowsOfBorn, saga # NoBooking
               PROVE  ToSet(rows) = Expected
    BY DEF RowsAsExpected
  <2> DEFINE products == ProductsOf(count)
             graph == Generate(born.stages, products)
             places == Places(graph, count)
  <2>1. /\ count \in [Product -> Nat] /\ born.stages \in Defs
        /\ \A p \in Product : count[p] \in 0..MaxItems
        /\ rows = Placements(born.stages, count)
        /\ MaxItems \in Nat
    BY ConfigType, ReloadAssumption DEF RowsOfBorn
  <2>2. PICK order : /\ Lists(order, places)
                     /\ rows = [n \in DOMAIN order |-> RowAt(graph, count, order[n])]
    BY <2>1, PlacementsAre
  <2>3. graph \in Graphs
    BY <2>1, GenerateType
  <2>4. /\ \A g \in DOMAIN graph : \A j \in DOMAIN graph[g].steps :
             \E k \in DOMAIN born.stages :
               /\ graph[g].stage = born.stages[k].stage
               /\ graph[g].steps[j] \in ToSet(born.stages[k].steps)
               /\ IsStepIncluded(graph[g].steps[j], products)
        /\ \A k \in DOMAIN born.stages : \A ref \in ToSet(born.stages[k].steps) :
             IsStepIncluded(ref, products) =>
               \E g \in DOMAIN graph : /\ graph[g].stage = born.stages[k].stage
                                       /\ \E j \in DOMAIN graph[g].steps :
                                            graph[g].steps[j] = ref
    <3> HIDE DEF products
    <3> QED BY <2>1, ListedSteps
  <2> HIDE DEF graph
  <2>5. ToSet(rows) = {RowAt(graph, count, p) : p \in places}
    <3> HIDE DEF places
    <3>1. /\ DOMAIN rows = DOMAIN order
          /\ \A n \in DOMAIN order : rows[n] = RowAt(graph, count, order[n])
      BY <2>2
    <3> QED BY <2>2, <3>1 DEF ToSet, Lists
  <2>6. \A p : p \in places <=>
                 /\ p \in Nat \X Nat \X Nat
                 /\ p[1] \in DOMAIN graph
                 /\ p[2] \in DOMAIN graph[p[1]].steps
                 /\ p[3] \in DOMAIN ExpandStep(graph[p[1]].steps[p[2]], count)
    BY <2>1, <2>3, PlacesAre
  <2> HIDE DEF places
  <2>7. ASSUME NEW p \in places
        PROVE  RowAt(graph, count, p) \in Expected
    <3> DEFINE ref == graph[p[1]].steps[p[2]]
               item == ExpandStep(ref, count)[p[3]]
    <3>1. /\ p[1] \in DOMAIN graph /\ p[2] \in DOMAIN graph[p[1]].steps
          /\ p[3] \in DOMAIN ExpandStep(ref, count)
      BY <2>6
    <3>2. ref \in Refs
      BY <2>3, <3>1, GraphAt
    <3>3. PICK k \in DOMAIN born.stages : /\ graph[p[1]].stage = born.stages[k].stage
                                          /\ ref \in ToSet(born.stages[k].steps)
      BY <2>4, <3>1
    <3>4. RowAt(graph, count, p) = [stage |-> graph[p[1]].stage, ref |-> ref, item |-> item]
      BY DEF RowAt
    <3> HIDE DEF ref
    <3>5. /\ item \in [product : Product, number : 1..MaxItems] \cup {NoItem}
          /\ item.product = Steps[ref].product
          /\ item # NoItem => item.number <= count[item.product]
      <4>1. CASE Steps[ref].product = "itinerary"
        <5>1. item = NoItem
          BY <2>1, <3>1, <3>2, <4>1, ExpandStepIs
        <5> QED BY <4>1, <5>1 DEF NoItem
      <4>2. CASE Steps[ref].product # "itinerary"
        <5>1. /\ Steps[ref].product \in Product
              /\ p[3] \in 1..count[Steps[ref].product]
              /\ item = [product |-> Steps[ref].product, number |-> p[3]]
          BY <2>1, <3>1, <3>2, <4>2, ExpandStepIs
        <5>2. item.product = Steps[ref].product /\ item.number = p[3]
          BY <5>1
        <5>3. p[3] \in 1..MaxItems /\ p[3] <= count[Steps[ref].product]
          BY <2>1, <5>1
        <5> HIDE DEF item
        <5> QED BY <5>1, <5>2, <5>3
      <4> QED BY <4>1, <4>2
    <3> HIDE DEF item
    <3> QED BY <3>2, <3>3, <3>4, <3>5 DEF Expected, Refs
  <2>8. ASSUME NEW row \in Expected
        PROVE  \E p \in places : row = RowAt(graph, count, p)
    <3>1. /\ row \in [stage : {born.stages[k].stage : k \in DOMAIN born.stages},
                      ref : Refs,
                      item : [product : Product, number : 1..MaxItems] \cup {NoItem}]
          /\ row.item.product = Steps[row.ref].product
          /\ row.item # NoItem => row.item.number <= count[row.item.product]
      BY DEF Expected, Refs
    <3>2. PICK k \in DOMAIN born.stages : /\ born.stages[k].stage = row.stage
                                          /\ row.ref \in ToSet(born.stages[k].steps)
      BY DEF Expected
    <3>3. PICK n \in DOMAIN ExpandStep(row.ref, count) : ExpandStep(row.ref, count)[n] = row.item
      <4>1. CASE row.item = NoItem
        <5>1. Steps[row.ref].product = "itinerary"
          BY <3>1, <4>1 DEF NoItem
        <5> QED BY <2>1, <3>1, <4>1, <5>1, ExpandStepIs
      <4>2. CASE row.item # NoItem
        <5>1. row.item \in [product : Product, number : 1..MaxItems]
          BY <3>1, <4>2
        <5>2. /\ row.item.product \in Product /\ row.item.product # "itinerary"
              /\ row.item.number \in 1..count[row.item.product]
              /\ row.item = [product |-> row.item.product, number |-> row.item.number]
          <6>1. row.item.product \in Product /\ row.item.number \in 1..MaxItems
                /\ row.item = [product |-> row.item.product, number |-> row.item.number]
            BY <5>1
          <6> QED BY <2>1, <3>1, <4>2, <6>1 DEF Product
        <5>3. Steps[row.ref].product = row.item.product
          BY <3>1
        <5> HIDE DEF products
        <5> QED BY <2>1, <3>1, <5>2, <5>3, ExpandStepIs
      <4> QED BY <4>1, <4>2
    <3>4. IsStepIncluded(row.ref, products)
      <4>1. CASE Steps[row.ref].product = "itinerary"
        BY <4>1 DEF IsStepIncluded
      <4>2. CASE Steps[row.ref].product # "itinerary"
        <5>1. Steps[row.ref].product \in Product /\ n \in 1..count[Steps[row.ref].product]
          BY <2>1, <3>1, <3>3, <4>2, ExpandStepIs
        <5>2. count[Steps[row.ref].product] > 0
          BY <2>1, <5>1
        <5> QED BY <5>1, <5>2 DEF IsStepIncluded, ProductsOf
      <4> QED BY <4>1, <4>2
    <3>5. PICK g \in DOMAIN graph : /\ graph[g].stage = row.stage
                                    /\ \E j \in DOMAIN graph[g].steps :
                                         graph[g].steps[j] = row.ref
      BY <2>4, <3>2, <3>4
    <3>6. PICK j \in DOMAIN graph[g].steps : graph[g].steps[j] = row.ref
      BY <3>5
    <3> DEFINE p == <<g, j, n>>
    <3>7. p \in places
      <4>1. g \in Nat /\ j \in Nat
        BY <2>3, GraphAt
      <4>2. n \in Nat
        BY <2>1, <3>1, <3>3, ExpandStepIs
      <4>3. p[1] = g /\ p[2] = j /\ p[3] = n /\ p \in Nat \X Nat \X Nat
        BY <4>1, <4>2
      <4> HIDE DEF p
      <4> QED BY <2>6, <3>3, <3>6, <4>3
    <3>8. RowAt(graph, count, p) = [stage |-> row.stage, ref |-> row.ref, item |-> row.item]
      BY <3>3, <3>5, <3>6 DEF RowAt
    <3>9. row = [stage |-> row.stage, ref |-> row.ref, item |-> row.item]
      BY <3>1
    <3> QED BY <3>7, <3>8, <3>9
  <2> QED BY <2>5, <2>7, <2>8
<1> QED BY <1>1, RowsInvariant, PTL

-----------------------------------------------------------------------------
(* Edits that leave the stages of the booked products alone. *)

\* Stages in ascending order, each once.
Ascends(f, R) ==
    /\ \A x \in R : x.stage \in Nat
    /\ \E m \in Nat : f \in [1..m -> R]
    /\ \A x \in R : \E k \in DOMAIN f : f[k] = x
    /\ \A j, k \in DOMAIN f : j < k => f[j].stage < f[k].stage

\* Up to b the two have the same stages at the same places.
Agree(f, g, b) ==
    \A k \in 1..b : /\ k \in DOMAIN f <=> k \in DOMAIN g
                    /\ k \in DOMAIN f => f[k] = g[k]

LEMMA NotBefore == ASSUME NEW a \in Nat, NEW b \in Nat, b = a \/ b < a PROVE ~(a < b)
OBVIOUS

LEMMA NextInOther ==
    ASSUME NEW R, NEW f, NEW g, Ascends(f, R), Ascends(g, R),
           NEW b \in Nat, Agree(f, g, b), b + 1 \in DOMAIN f
    PROVE  b + 1 \in DOMAIN g /\ ~(f[b+1].stage < g[b+1].stage)
<1> DEFINE c == b + 1
           fc == f[c]
<1>1. PICK n \in Nat : g \in [1..n -> R]
  BY DEF Ascends
<1>2. PICK m \in Nat : f \in [1..m -> R]
  BY DEF Ascends
<1>3. c \in Nat /\ c \in DOMAIN f /\ fc \in R
  BY <1>2
<1>4. PICK l \in DOMAIN g : g[l] = fc
  BY <1>3 DEF Ascends
<1>5. l \in Nat /\ l >= 1 /\ l <= n
  BY <1>1, <1>4
<1>6. ~(l <= b)
  <2> SUFFICES ASSUME l <= b PROVE FALSE
    OBVIOUS
  <2>1. l \in 1..b
    BY <1>5
  <2>2. f[l] = fc /\ l \in DOMAIN f /\ l < c
    BY <1>4, <1>5, <2>1 DEF Agree
  <2>3. f[l].stage < f[c].stage /\ f[l].stage = f[c].stage /\ f[c].stage \in Nat
    <3> HIDE DEF c
    <3> QED BY <1>3, <2>2 DEF Ascends
  <2> HIDE DEF c
  <2> QED BY <2>3
<1>7. c \in DOMAIN g /\ (l = c \/ c < l)
  BY <1>1, <1>5, <1>6
<1> HIDE DEF c
<1>8. g[c].stage \in Nat /\ fc.stage \in Nat
  BY <1>1, <1>3, <1>7 DEF Ascends
<1>9. g[c].stage = fc.stage \/ g[c].stage < fc.stage
  BY <1>4, <1>7 DEF Ascends
<1>10. ~(fc.stage < g[c].stage)
  <2> HIDE DEF fc
  <2> QED BY <1>8, <1>9, NotBefore
<1> QED BY <1>7, <1>10 DEF c

\* There is one way to put a set of stages in ascending order.
LEMMA OneAscendingOrder ==
    ASSUME NEW R, NEW f, NEW g, Ascends(f, R), Ascends(g, R)
    PROVE  f = g
<1> DEFINE Good == {b \in Nat : Agree(f, g, b)}
<1>1. 0 \in Good
  BY DEF Agree
<1>2. ASSUME NEW b \in Nat, b \in Good
      PROVE  b + 1 \in Good
  <2>1. Agree(f, g, b) /\ Agree(g, f, b)
    BY <1>2 DEF Agree
  <2>2. b + 1 \in DOMAIN f => b + 1 \in DOMAIN g /\ ~(f[b+1].stage < g[b+1].stage)
    BY <2>1, NextInOther
  <2>3. b + 1 \in DOMAIN g => b + 1 \in DOMAIN f /\ ~(g[b+1].stage < f[b+1].stage)
    BY <2>1, NextInOther
  <2>4. ASSUME b + 1 \in DOMAIN f, b + 1 \in DOMAIN g
        PROVE  f[b+1] = g[b+1]
    <3> DEFINE c == b + 1
    <3>1. PICK n \in Nat : g \in [1..n -> R]
      BY DEF Ascends
    <3>2. PICK m \in Nat : f \in [1..m -> R]
      BY DEF Ascends
    <3>3. f[c] \in R /\ g[c] \in R /\ c \in Nat /\ c \in DOMAIN f
      BY <2>4, <3>1, <3>2
    <3>4. ~(f[c].stage < g[c].stage) /\ ~(g[c].stage < f[c].stage)
      BY <2>2, <2>3, <2>4
    <3> HIDE DEF c
    <3>5. f[c].stage \in Nat /\ g[c].stage \in Nat
      BY <3>3 DEF Ascends
    <3>6. f[c].stage = g[c].stage
      BY <3>4, <3>5
    <3>7. PICK l \in DOMAIN f : f[l] = g[c]
      BY <3>3 DEF Ascends
    <3>8. l \in Nat
      BY <3>2, <3>7
    <3>9. ~(l < c) /\ ~(c < l)
      <4>1. f[l].stage = f[c].stage
        BY <3>6, <3>7
      <4>2. ~(f[l].stage < f[c].stage) /\ ~(f[c].stage < f[l].stage)
        BY <3>5, <4>1
      <4> QED BY <3>3, <3>7, <4>2 DEF Ascends
    <3>10. l = c
      BY <3>3, <3>8, <3>9
    <3> QED BY <3>7, <3>10 DEF c
  <2>5. \A k \in 1..(b + 1) : k \in 1..b \/ k = b + 1
    OBVIOUS
  <2>6. Agree(f, g, b + 1)
    BY <2>1, <2>2, <2>3, <2>4, <2>5 DEF Agree
  <2> QED BY <2>6
<1>3. Nat \subseteq Good
  <2> HIDE DEF Good
  <2> QED BY <1>1, <1>2, NatSetInduction
<1>4. \A k \in Nat \ {0} : /\ k \in DOMAIN f <=> k \in DOMAIN g
                           /\ k \in DOMAIN f => f[k] = g[k]
  <2> TAKE k \in Nat \ {0}
  <2>1. k \in Good
    <3> HIDE DEF Good
    <3> QED BY <1>3
  <2>2. k \in 1..k
    OBVIOUS
  <2> QED BY <2>1, <2>2 DEF Agree
<1>5. PICK n \in Nat : g \in [1..n -> R]
  BY DEF Ascends
<1>6. PICK m \in Nat : f \in [1..m -> R]
  BY DEF Ascends
<1>7. DOMAIN f = DOMAIN g /\ \A k \in DOMAIN f : f[k] = g[k]
  <2>1. DOMAIN f \subseteq Nat \ {0} /\ DOMAIN g \subseteq Nat \ {0}
    BY <1>5, <1>6
  <2> QED BY <1>4, <2>1
<1> QED BY <1>5, <1>6, <1>7

\* A graph is the ascending order of its stages.
LEMMA GraphAscends ==
    ASSUME NEW c \in Ymls, Authored(c)
    PROVE  Ascends(Graph(c), StagesOf(c.stages, Booked))
<1> DEFINE graph == Generate(c.stages, Booked)
           R == StagesOf(c.stages, Booked)
<1>1. graph \in Graphs /\ c.stages \in Defs
  BY YmlStages, GenerateType
<1>2. DOMAIN graph = 1..Len(graph) /\ Len(graph) \in Nat
  BY <1>1, GraphAt
<1>3. /\ \A k \in DOMAIN graph : [graph[k] EXCEPT !.steps = ToSet(@)] \in R
      /\ \A def \in R : \E k \in DOMAIN graph : def = [graph[k] EXCEPT !.steps = ToSet(@)]
  BY <1>1, GraphStages
<1>4. \A j, k \in DOMAIN graph : j < k => graph[j].stage < graph[k].stage
  BY GraphOf
<1>5. Graph(c) = [k \in DOMAIN graph |-> [graph[k] EXCEPT !.steps = ToSet(@)]]
  BY DEF Graph
<1>6. \A k \in DOMAIN graph :
        [graph[k] EXCEPT !.steps = ToSet(@)]
          = [stage |-> graph[k].stage, ask |-> graph[k].ask, steps |-> ToSet(graph[k].steps)]
  BY <1>1, AsSetsIs
<1>7. \A x \in R : x.stage \in Nat
  <2>1. c.stages \in [1..Len(c.stages) -> [stage : Nat, ask : BOOLEAN, steps : Seq(Refs)]]
    BY <1>1, LenProperties DEF Defs
  <2>2. \A k \in DOMAIN c.stages : c.stages[k].stage \in Nat
    BY <2>1
  <2> QED BY <2>2 DEF StagesOf, StageOf
<1> HIDE DEF graph, R
<1>8. \A k \in DOMAIN graph : Graph(c)[k] = [graph[k] EXCEPT !.steps = ToSet(@)]
  BY <1>5
<1>9. \A k \in DOMAIN graph : Graph(c)[k].stage = graph[k].stage
  BY <1>6, <1>8
<1>10. DOMAIN Graph(c) = 1..Len(graph) /\ Graph(c) \in [1..Len(graph) -> R]
  BY <1>2, <1>3, <1>5
<1>11. Ascends(Graph(c), R)
  BY <1>2, <1>3, <1>4, <1>7, <1>8, <1>9, <1>10 DEF Ascends
<1> QED BY <1>11 DEF R

LEMMA SameGraph ==
    ASSUME NEW c \in Ymls, Authored(c), NEW d \in Ymls, Authored(d), SameFor(c, d)
    PROVE  Graph(c) = Graph(d) /\ Supports(c) = Supports(d) /\ Undoable(c) = Undoable(d)
<1> DEFINE R == StagesOf(c.stages, Booked)
<1>1. /\ {def \in StepsFor(c) : def.steps # {}} = {def \in StepsFor(d) : def.steps # {}}
      /\ Booked \cap c.products = Booked \cap d.products
      /\ (UNION {def.steps : def \in StepsFor(c)}) \cap c.compensated
           = (UNION {def.steps : def \in StepsFor(c)}) \cap d.compensated
  BY DEF SameFor
<1>2. ASSUME NEW e
      PROVE  StagesOf(e.stages, Booked) = {def \in StepsFor(e) : def.steps # {}}
  BY DEF StagesOf, StageOf, StepsFor, IsStepIncluded
<1>3. R = StagesOf(d.stages, Booked)
  BY <1>1, <1>2
<1>4. Ascends(Graph(c), R)
  BY GraphAscends
<1>5. Ascends(Graph(d), R)
  BY <1>3, GraphAscends
<1>6. UNION {Graph(c)[k].steps : k \in DOMAIN Graph(c)} = UNION {def.steps : def \in StepsFor(c)}
  <2>1. R = {def \in StepsFor(c) : def.steps # {}}
    BY <1>2
  <2> HIDE DEF R
  <2>2. UNION {Graph(c)[k].steps : k \in DOMAIN Graph(c)} = UNION {x.steps : x \in R}
    BY <1>4 DEF Ascends
  <2>3. UNION {x.steps : x \in R} = UNION {def.steps : def \in StepsFor(c)}
    BY <2>1
  <2> QED BY <2>2, <2>3
<1> HIDE DEF R
<1>7. Graph(c) = Graph(d)
  BY <1>4, <1>5, OneAscendingOrder
<1>8. Supports(c) = Supports(d)
  BY <1>1 DEF Supports
<1>9. Undoable(c) = Undoable(d)
  BY <1>1, <1>6, <1>7 DEF Undoable
<1> QED BY <1>7, <1>8, <1>9

\* Of a configuration the handlers use the graph, whether it has the booked
\* products, and what it can undo.
Alike(c, d) == Graph(c) = Graph(d) /\ Supports(c) = Supports(d) /\ Undoable(c) = Undoable(d)

LEMMA SameNext ==
    ASSUME NEW c, NEW d, Alike(c, d), NEW stage
    PROVE  NextStage(c, stage) = NextStage(d, stage)
<1> DEFINE NextIn(graph) ==
             IF \E k \in DOMAIN graph : graph[k].stage = stage
             THEN 1 + CHOOSE k \in DOMAIN graph : graph[k].stage = stage
             ELSE 1
<1>1. NextStage(c, stage) = NextIn(Graph(c)) /\ NextStage(d, stage) = NextIn(Graph(d))
  BY DEF NextStage
<1> HIDE DEF NextIn
<1> QED BY <1>1 DEF Alike

LEMMA SameAsk ==
    ASSUME NEW c, NEW d, Alike(c, d)
    PROVE  AskStages(c) = AskStages(d)
BY DEF Alike, AskStages

LEMMA SameFinalized ==
    ASSUME NEW c, NEW d, Alike(c, d), NEW s
    PROVE  Finalized(c, s) = Finalized(d, s)
BY SameAsk DEF Alike, Finalized

LEMMA SameAdvanced ==
    ASSUME NEW c, NEW d, Alike(c, d), NEW s, NEW stage
    PROVE  Advanced(c, s, stage) = Advanced(d, s, stage)
<1> DEFINE To(graph, next, final) ==
             LET claimed == InStage(graph[next].stage) \cap With(s, "pending")
                 known == \A i \in claimed : rows[i].ref \in graph[next].steps
             IN IF next \notin DOMAIN graph THEN final
                ELSE [Mark(s, claimed, "in_progress") EXCEPT
                        !.sent = IF known THEN @ \cup claimed ELSE @]
<1>1. ASSUME NEW e
      PROVE  Advanced(e, s, stage) = To(Graph(e), NextStage(e, stage), Finalized(e, s))
  BY DEF Advanced
<1> HIDE DEF To
<1> QED BY <1>1, SameNext, SameFinalized DEF Alike

LEMMA SameGivenUp ==
    ASSUME NEW c, NEW d, Alike(c, d), NEW s
    PROVE  GivenUp(c, s) = GivenUp(d, s)
<1>1. \A t : Undone(c, t) = Undone(d, t)
  BY DEF Undone, Alike
<1> QED BY <1>1 DEF GivenUp

LEMMA SameCompleted ==
    ASSUME NEW c, NEW d, Alike(c, d), NEW s, NEW i, NEW outcome
    PROVE  Completed(c, s, i, outcome) = Completed(d, s, i, outcome)
<1> DEFINE To(graph, asks, supports, givenUp, advanced) ==
             LET now == Mark(s, {i}, outcome)
                 stage == InStage(rows[i].stage)
                 some(status) == stage \cap With(now, status) # {}
                 ask == \E k \in asks : graph[k].stage = rows[i].stage
                 settled == stage \subseteq With(now, "success") \cup With(now, "failed")
                 cancelled == IF now.booking = "in_progress" THEN givenUp ELSE now
                 paused == IF now.booking = "in_progress"
                           THEN [now EXCEPT !.booking = "awaiting_user_decision"] ELSE now
             IN CASE ~supports -> now
                  [] supports /\ some("failed") /\ ask /\ ~settled -> now
                  [] supports /\ some("failed") /\ ask /\ settled ->
                       IF some("success") THEN paused ELSE cancelled
                  [] supports /\ some("failed") /\ ~ask -> cancelled
                  [] supports /\ ~some("failed") ->
                       IF stage \subseteq With(now, "success") THEN advanced ELSE now
           now == Mark(s, {i}, outcome)
<1>1. ASSUME NEW e
      PROVE  Completed(e, s, i, outcome)
               = To(Graph(e), AskStages(e), Supports(e), GivenUp(e, now),
                    Advanced(e, now, rows[i].stage))
  BY DEF Completed
<1> HIDE DEF To, now
<1> QED BY <1>1, SameAsk, SameGivenUp, SameAdvanced DEF Alike

LEMMA SameAccepted ==
    ASSUME NEW c, NEW d, Alike(c, d), NEW s
    PROVE  Accepted(c, s) = Accepted(d, s)
<1> DEFINE now == [s EXCEPT !.booking = "in_progress"]
           To(supports, asks, advanced) == IF ~supports \/ asks = {} THEN now ELSE advanced
<1>1. ASSUME NEW e
      PROVE  Accepted(e, s)
               = To(Supports(e), AskStages(e), Advanced(e, now, Graph(e)[Min(AskStages(e))].stage))
  BY DEF Accepted
<1> HIDE DEF To, now
<1>2. Advanced(c, now, Graph(c)[Min(AskStages(c))].stage)
        = Advanced(d, now, Graph(d)[Min(AskStages(d))].stage)
  BY SameAsk, SameAdvanced DEF Alike
<1> QED BY <1>1, <1>2, SameAsk DEF Alike

LEMMA SameHandled ==
    ASSUME NEW c, NEW d, Alike(c, d), Handled(c)
    PROVE  Handled(d)
BY SameCompleted, SameAccepted, SameGivenUp
   DEF Handled, Complete, Accept, Reject, Compensate

\* A booking no edit has strayed from lives under a configuration that is the same
\* for it as the one it was created under.
NotStrayed ==
    /\ RowsOfBorn
    /\ ~strayed => SameFor(config, born)

LEMMA SameForItself == \A c : SameFor(c, c)
BY DEF SameFor

LEMMA NotStrayedInvariant == Spec => []NotStrayed
<1>1. Init => NotStrayed
  BY SameForItself DEF Init, RowsOfBorn, NotStrayed
<1>2. NotStrayed /\ RowsOfBorn' /\ [Next]_vars => NotStrayed'
  <2> SUFFICES ASSUME NotStrayed, RowsOfBorn', [Next]_vars
               PROVE  ~strayed' => SameFor(config, born)'
    BY DEF NotStrayed
  <2>1. CASE Publish
    <3>1. config' = config /\ born' = config /\ count' = count
      BY <2>1 DEF Publish
    <3> QED BY <3>1 DEF SameFor
  <2>2. CASE Handle
    BY <2>2 DEF Handle, NotStrayed, SameFor, StepsFor, Booked, ProductsOf
  <2>3. CASE Restart
    <3> SUFFICES ASSUME ~strayed' PROVE SameFor(config, born)'
      OBVIOUS
    <3>1. SameFor(config', born) /\ count' = count /\ born' = born
      BY <2>3 DEF Restart
    <3>2. Booked' = Booked
      BY <3>1 DEF Booked, ProductsOf
    <3>3. StepsFor(config)' = StepsFor(config') /\ StepsFor(born)' = StepsFor(born)
      BY <3>1, <3>2 DEF StepsFor
    <3> QED BY <3>1, <3>2, <3>3 DEF SameFor
  <2>4. CASE UNCHANGED vars
    BY <2>4 DEF vars, NotStrayed, SameFor, StepsFor, Booked, ProductsOf
  <2> QED BY <2>1, <2>2, <2>3, <2>4 DEF Next
<1> QED BY <1>1, <1>2, RowsInvariant, PTL DEF Spec

\* "edits only affect new bookings" (booking-graph.yml:4), for every edit that
\* leaves the stages of the booked products alone: stages listed in another order,
\* steps relisted within a stage, other products added or withdrawn.  What a
\* handler does to a booking after any number of them, it would have done before.
THEOREM HarmlessEdits == Spec => HarmlessEditsChangeNothing
<1>1. NotStrayed /\ [Next]_vars =>
        [strayed \/ strayed' \/ saga = NoBooking \/ Handled(born)]_saga
  <2> SUFFICES ASSUME NotStrayed, Next, ~strayed, saga # NoBooking, saga' # saga
               PROVE  Handled(born)
    BY DEF vars
  <2>1. Handled(config)
    BY DEF Next, Publish, Handle, Restart
  <2>2. config \in Ymls /\ Authored(config) /\ born \in Ymls /\ Authored(born)
    BY ConfigType DEF NotStrayed
  <2>3. Alike(config, born)
    BY <2>2, SameGraph DEF NotStrayed, Alike
  <2> QED BY <2>1, <2>3, SameHandled
<1> QED BY <1>1, NotStrayedInvariant, PTL DEF Spec, HarmlessEditsChangeNothing

-----------------------------------------------------------------------------
(* Where a booking no edit has strayed from stands. *)

Asks(i) == \E k \in AskStages(born) : Graph(born)[k].stage = rows[i].stage

\* A row its stage need not wait for any more: done, or an item the user gave up.
Passed(s, i) ==
    \/ s.status[i] = "success"
    \/ /\ s.status[i] = "failed" /\ Asks(i)
       /\ InStage(rows[i].stage) \cap With(s, "success") # {}

\* The stages before the k-th are passed; those after it have not been claimed.
Reached(s, k) ==
    \A i \in DOMAIN rows :
      /\ rows[i].stage < Graph(born)[k].stage => Passed(s, i)
      /\ rows[i].stage = Graph(born)[k].stage =>
           s.status[i] \in {"in_progress", "success", "failed"}
      /\ rows[i].stage > Graph(born)[k].stage => s.status[i] = "pending"

AtStage(s, k) ==
    /\ s.booking = "in_progress" /\ Reached(s, k)
    /\ InStage(Graph(born)[k].stage) \cap With(s, "in_progress") # {}
    /\ ~Graph(born)[k].ask => InStage(Graph(born)[k].stage) \cap With(s, "failed") = {}
Waiting(s, k) ==
    /\ s.booking = "awaiting_user_decision" /\ Reached(s, k) /\ Graph(born)[k].ask
    /\ InStage(Graph(born)[k].stage) \cap With(s, "in_progress") = {}
    /\ InStage(Graph(born)[k].stage) \cap With(s, "success") # {}

\* Publish claims stage 0 only.
Unstarted(s) ==
    /\ s.booking = "in_progress" /\ InStage(0) = {}
    /\ \A i \in DOMAIN rows : s.status[i] = "pending"
Done(s) ==
    \/ s.booking = "confirmed" /\ \A i \in DOMAIN rows : s.status[i] = "success"
    \/ /\ s.booking = "partially_confirmed"
       /\ \A i \in DOMAIN rows : \/ s.status[i] = "success"
                                 \/ s.status[i] = "failed" /\ Asks(i)

\* An agent still at work when the booking failed is in the stage that failed it.
FailedBeside(s, i) == ~Asks(i) /\ InStage(rows[i].stage) \cap With(s, "failed") # {}
Failed(s) ==
    /\ s.booking = "failed"
    /\ \A i \in DOMAIN rows :
         /\ s.status[i] = "in_progress" => FailedBeside(s, i)
         /\ s.status[i] = "success" /\ rows[i].ref \in born.compensated => FailedBeside(s, i)

Stands(s) ==
    /\ \/ Unstarted(s) \/ Done(s) \/ Failed(s)
       \/ \E k \in DOMAIN Graph(born) : AtStage(s, k) \/ Waiting(s, k)
    /\ \A i \in DOMAIN rows : s.status[i] = "in_progress" => i \in s.sent

InPhase == strayed \/ saga = NoBooking \/ (Supports(born) /\ Stands(saga))

\* The rows of the graph: each at a stage, none without a row, one stage that asks.
RowsFit ==
    /\ \E m \in Nat : DOMAIN Graph(born) = 1..m
    /\ \A k \in DOMAIN Graph(born) : Graph(born)[k].stage \in Nat
    /\ \A j, k \in DOMAIN Graph(born) :
         /\ j < k => Graph(born)[j].stage < Graph(born)[k].stage
         /\ Graph(born)[j].stage = Graph(born)[k].stage => j = k
         /\ Graph(born)[j].ask /\ Graph(born)[k].ask => j = k
    /\ \A i \in DOMAIN rows : \E k \in DOMAIN Graph(born) :
         rows[i].stage = Graph(born)[k].stage /\ rows[i].ref \in Graph(born)[k].steps
    /\ \A k \in DOMAIN Graph(born) : \E i \in DOMAIN rows : rows[i].stage = Graph(born)[k].stage

LEMMA RowsDoFit ==
    ASSUME RowsOfBorn, RowsAsExpected, saga # NoBooking
    PROVE  RowsFit
<1> DEFINE G == Graph(born)
           R == StagesOf(born.stages, Booked)
<1>1. /\ born \in Ymls /\ Authored(born) /\ born.stages \in Defs
      /\ count \in [Product -> Nat] /\ MaxItems \in Nat
      /\ \A p \in Product : count[p] \in 0..MaxItems
  BY ConfigType, ReloadAssumption DEF RowsOfBorn
<1>2. Ascends(G, R)
  BY <1>1, GraphAscends
<1>3. ToSet(rows) = Expected
  BY DEF RowsAsExpected
<1>4. PICK m \in Nat : G \in [1..m -> R]
  BY <1>2 DEF Ascends
<1>5. \A a \in DOMAIN born.stages : /\ born.stages[a].stage \in Nat
                                    /\ born.stages[a].steps \in Seq(Refs)
  <2>1. born.stages \in [1..Len(born.stages) -> [stage : Nat, ask : BOOLEAN, steps : Seq(Refs)]]
    BY <1>1, LenProperties DEF Defs
  <2> QED BY <2>1
<1>6. \A k \in DOMAIN G : \E a \in DOMAIN born.stages :
        /\ G[k] = StageOf(born.stages[a], Booked) /\ G[k].steps # {}
        /\ G[k].stage = born.stages[a].stage /\ G[k].ask = born.stages[a].ask
        /\ G[k].steps = {ref \in ToSet(born.stages[a].steps) : IsStepIncluded(ref, Booked)}
  <2> SUFFICES ASSUME NEW k \in DOMAIN G
               PROVE  \E a \in DOMAIN born.stages :
                        /\ G[k] = StageOf(born.stages[a], Booked) /\ G[k].steps # {}
                        /\ G[k].stage = born.stages[a].stage /\ G[k].ask = born.stages[a].ask
                        /\ G[k].steps = {ref \in ToSet(born.stages[a].steps) :
                                           IsStepIncluded(ref, Booked)}
    OBVIOUS
  <2>1. G[k] \in R
    BY <1>4
  <2> HIDE DEF G
  <2>2. PICK a \in DOMAIN born.stages : G[k] = StageOf(born.stages[a], Booked) /\ G[k].steps # {}
    BY <2>1 DEF StagesOf
  <2>3. /\ StageOf(born.stages[a], Booked).stage = born.stages[a].stage
        /\ StageOf(born.stages[a], Booked).ask = born.stages[a].ask
        /\ StageOf(born.stages[a], Booked).steps
             = {ref \in ToSet(born.stages[a].steps) : IsStepIncluded(ref, Booked)}
    BY DEF StageOf
  <2> QED BY <2>2, <2>3, Zenon
<1>7. \A a \in DOMAIN born.stages : \A ref \in ToSet(born.stages[a].steps) :
        IsStepIncluded(ref, Booked) =>
          \E k \in DOMAIN G : G[k].stage = born.stages[a].stage /\ ref \in G[k].steps
  <2> SUFFICES ASSUME NEW a \in DOMAIN born.stages, NEW ref \in ToSet(born.stages[a].steps),
                      IsStepIncluded(ref, Booked)
               PROVE  \E k \in DOMAIN G : G[k].stage = born.stages[a].stage /\ ref \in G[k].steps
    OBVIOUS
  <2> DEFINE def == StageOf(born.stages[a], Booked)
  <2>1. ref \in def.steps /\ def.stage = born.stages[a].stage
    BY DEF StageOf
  <2>2. def \in R
    BY <2>1 DEF StagesOf
  <2> HIDE DEF def, G, R
  <2>3. PICK k \in DOMAIN G : G[k] = def
    BY <1>2, <2>2 DEF Ascends
  <2> QED BY <2>1, <2>3
<1> HIDE DEF G, R
<1>8. \A j, k \in DOMAIN G : j < k => G[j].stage < G[k].stage
  BY <1>2 DEF Ascends
<1>9. \A k \in DOMAIN G : G[k].stage \in Nat
  BY <1>5, <1>6
<1>10. \A j, k \in DOMAIN G : G[j].stage = G[k].stage => j = k
  <2> SUFFICES ASSUME NEW j \in DOMAIN G, NEW k \in DOMAIN G, G[j].stage = G[k].stage
               PROVE  j = k
    OBVIOUS
  <2>1. j \in Nat /\ k \in Nat
    BY <1>4
  <2>2. ~(G[j].stage < G[k].stage) /\ ~(G[k].stage < G[j].stage)
    BY <1>9
  <2> QED BY <1>8, <2>1, <2>2
<1>11. ASSUME NEW j \in DOMAIN G, NEW k \in DOMAIN G, G[j].ask, G[k].ask
       PROVE  j = k
  <2>1. PICK a \in DOMAIN born.stages : /\ G[j].stage = born.stages[a].stage
                                        /\ G[j].ask = born.stages[a].ask
    BY <1>6
  <2>2. PICK b \in DOMAIN born.stages : /\ G[k].stage = born.stages[b].stage
                                        /\ G[k].ask = born.stages[b].ask
    BY <1>6
  <2>3. a = b
    BY <1>1, <1>11, <2>1, <2>2 DEF Authored
  <2> QED BY <1>10, <2>1, <2>2, <2>3
<1>12. ASSUME NEW i \in DOMAIN rows
       PROVE  \E k \in DOMAIN G : rows[i].stage = G[k].stage /\ rows[i].ref \in G[k].steps
  <2>1. rows[i] \in Expected
    BY <1>3 DEF ToSet
  <2>2. /\ rows[i].item \in [product : Product, number : 1..MaxItems] \cup {NoItem}
        /\ rows[i].item.product = Steps[rows[i].ref].product
        /\ rows[i].item # NoItem => rows[i].item.number <= count[rows[i].item.product]
    BY <2>1 DEF Expected
  <2>3. PICK a \in DOMAIN born.stages : /\ born.stages[a].stage = rows[i].stage
                                        /\ rows[i].ref \in ToSet(born.stages[a].steps)
    BY <2>1 DEF Expected
  <2>4. IsStepIncluded(rows[i].ref, Booked)
    <3>1. CASE rows[i].item = NoItem
      BY <2>2, <3>1 DEF NoItem, IsStepIncluded
    <3>2. CASE rows[i].item # NoItem
      <4>1. rows[i].item.product \in Product /\ rows[i].item.number \in 1..MaxItems
        BY <2>2, <3>2
      <4>2. count[rows[i].item.product] > 0
        BY <1>1, <2>2, <3>2, <4>1
      <4> QED BY <2>2, <4>1, <4>2 DEF IsStepIncluded, Booked, ProductsOf
    <3> QED BY <3>1, <3>2
  <2>5. PICK k \in DOMAIN G : G[k].stage = born.stages[a].stage /\ rows[i].ref \in G[k].steps
    BY <1>7, <2>3, <2>4
  <2> QED BY <2>3, <2>5
<1>13. ASSUME NEW k \in DOMAIN G
       PROVE  \E i \in DOMAIN rows : rows[i].stage = G[k].stage
  <2>1. PICK a \in DOMAIN born.stages :
          /\ G[k].steps # {} /\ G[k].stage = born.stages[a].stage
          /\ G[k].steps = {ref \in ToSet(born.stages[a].steps) : IsStepIncluded(ref, Booked)}
    BY <1>6
  <2>2. PICK ref \in ToSet(born.stages[a].steps) : IsStepIncluded(ref, Booked)
    BY <2>1
  <2>3. ref \in Refs
    BY <1>5, ElementOfSeq DEF ToSet
  <2> DEFINE item == IF Steps[ref].product = "itinerary" THEN NoItem
                     ELSE [product |-> Steps[ref].product, number |-> 1]
             row == [stage |-> born.stages[a].stage, ref |-> ref, item |-> item]
  <2>4. /\ item \in [product : Product, number : 1..MaxItems] \cup {NoItem}
        /\ item.product = Steps[ref].product
        /\ item # NoItem => item.number <= count[item.product]
    <3>1. CASE Steps[ref].product = "itinerary"
      BY <3>1 DEF NoItem
    <3>2. CASE Steps[ref].product # "itinerary"
      <4>1. Steps[ref].product \in Product /\ count[Steps[ref].product] > 0
        BY <2>2, <3>2 DEF IsStepIncluded, Booked, ProductsOf
      <4>2. 1 <= count[Steps[ref].product] /\ 1 \in 1..MaxItems
        BY <1>1, <4>1
      <4>3. item = [product |-> Steps[ref].product, number |-> 1]
        BY <3>2
      <4>4. item.product = Steps[ref].product /\ item.number = 1
        BY <4>3
      <4> HIDE DEF item
      <4> QED BY <4>1, <4>2, <4>3, <4>4
    <3> QED BY <3>1, <3>2
  <2> HIDE DEF item
  <2>5. row \in Expected
    BY <2>3, <2>4 DEF Expected, Refs
  <2>6. row.stage = born.stages[a].stage
    OBVIOUS
  <2> HIDE DEF row
  <2>7. PICK i \in DOMAIN rows : rows[i] = row
    BY <1>3, <2>5 DEF ToSet
  <2> QED BY <2>1, <2>6, <2>7
<1>14. \E n \in Nat : DOMAIN G = 1..n
  BY <1>4
<1> QED BY <1>8, <1>9, <1>10, <1>11, <1>12, <1>13, <1>14 DEF RowsFit, G

LEMMA StatusIs ==
    ASSUME NEW s \in Sagas
    PROVE  /\ \A v, i : i \in With(s, v) <=> i \in DOMAIN rows /\ s.status[i] = v
           /\ \A n, i : i \in InStage(n) <=> i \in DOMAIN rows /\ rows[i].stage = n
<1>1. DOMAIN s.status = DOMAIN rows
  BY DEF Sagas
<1> QED BY <1>1 DEF With, InStage

LEMMA NextStageIs ==
    ASSUME RowsFit, NEW k \in DOMAIN Graph(born)
    PROVE  NextStage(born, Graph(born)[k].stage) = k + 1 /\ k \in Nat
<1> DEFINE G == Graph(born)
           c == CHOOSE j \in DOMAIN G : G[j].stage = G[k].stage
<1>1. c \in DOMAIN G /\ G[c].stage = G[k].stage
  OBVIOUS
<1>2. c = k /\ k \in Nat
  <2> HIDE DEF c
  <2> QED BY <1>1 DEF RowsFit
<1>3. NextStage(born, G[k].stage) = 1 + c
  BY DEF NextStage
<1> HIDE DEF c
<1> QED BY <1>2, <1>3

\* When a stage is over the next one is claimed, or the booking is finished.
LEMMA AdvancedStands ==
    ASSUME RowsFit, NEW s \in Sagas, NEW k \in DOMAIN Graph(born),
           s.booking = "in_progress",
           \A i \in DOMAIN rows :
             /\ rows[i].stage <= Graph(born)[k].stage => Passed(s, i)
             /\ rows[i].stage > Graph(born)[k].stage => s.status[i] = "pending"
    PROVE  Stands(Advanced(born, s, Graph(born)[k].stage))
<1> DEFINE G == Graph(born)
           next == NextStage(born, G[k].stage)
           claimed == InStage(G[next].stage) \cap With(s, "pending")
           known == \A i \in claimed : rows[i].ref \in G[next].steps
           marked == Mark(s, claimed, "in_progress")
           t == [marked EXCEPT !.sent = IF known THEN @ \cup claimed ELSE @]
<1>1. next = k + 1 /\ k \in Nat
  BY NextStageIs
<1>2. PICK m \in Nat : DOMAIN G = 1..m
  BY DEF RowsFit
<1>3. /\ \A j \in DOMAIN G : G[j].stage \in Nat
      /\ \A j, l \in DOMAIN G : j < l => G[j].stage < G[l].stage
      /\ \A j, l \in DOMAIN G : G[j].stage = G[l].stage => j = l
      /\ \A i \in DOMAIN rows : \E l \in DOMAIN G :
           rows[i].stage = G[l].stage /\ rows[i].ref \in G[l].steps
      /\ \A l \in DOMAIN G : \E i \in DOMAIN rows : rows[i].stage = G[l].stage
  BY DEF RowsFit
<1>4. \A i \in DOMAIN rows :
        /\ rows[i].stage <= G[k].stage => Passed(s, i)
        /\ rows[i].stage > G[k].stage => s.status[i] = "pending"
  OBVIOUS
<1>5. CASE next \in DOMAIN G
  <2>1. Advanced(born, s, G[k].stage) = t
    BY <1>5 DEF Advanced
  <2>2. k < next /\ G[k].stage < G[next].stage /\ k \in DOMAIN G
    BY <1>1, <1>3, <1>5
  <2> DEFINE here == G[k].stage
             there == G[next].stage
  <2>3. here \in Nat /\ there \in Nat /\ here < there
    BY <1>3, <1>5, <2>2
  <2>4. \A i \in DOMAIN rows : rows[i].stage \in Nat
                               /\ (rows[i].stage < there => rows[i].stage <= here)
    <3> SUFFICES ASSUME NEW i \in DOMAIN rows
                 PROVE  rows[i].stage \in Nat
                        /\ (rows[i].stage < there => rows[i].stage <= here)
      OBVIOUS
    <3>1. PICK l \in DOMAIN G : rows[i].stage = G[l].stage
      BY <1>3
    <3>2. l \in Nat /\ G[l].stage \in Nat
      BY <1>2, <1>3
    <3> HIDE DEF G, next
    <3>3. l = next \/ l < next \/ next < l
      BY <1>1, <3>2
    <3>4. l < next => l = k \/ l < k
      BY <1>1, <3>2
    <3>5. \/ rows[i].stage = there \/ there < rows[i].stage
          \/ rows[i].stage = here \/ rows[i].stage < here
      BY <1>3, <1>5, <2>2, <3>1, <3>3, <3>4
    <3>6. rows[i].stage \in Nat
      BY <3>1, <3>2
    <3> HIDE DEF here, there
    <3> QED BY <2>3, <3>5, <3>6
  <2> HIDE DEF next
  <2>5. \A i : i \in claimed <=> i \in DOMAIN rows /\ rows[i].stage = there
    <3>1. \A i \in DOMAIN rows : rows[i].stage = there => s.status[i] = "pending"
      BY <1>4, <2>3
    <3>2. \A i : i \in claimed <=> /\ i \in DOMAIN rows /\ rows[i].stage = there
                                   /\ s.status[i] = "pending"
      BY StatusIs
    <3> HIDE DEF claimed, there
    <3> QED BY <3>1, <3>2
  <2>6. known
    <3> SUFFICES ASSUME NEW i \in claimed PROVE rows[i].ref \in G[next].steps
      OBVIOUS
    <3>1. i \in DOMAIN rows /\ rows[i].stage = G[next].stage
      BY <2>5
    <3>2. PICK l \in DOMAIN G : rows[i].stage = G[l].stage /\ rows[i].ref \in G[l].steps
      BY <1>3, <3>1
    <3> HIDE DEF G
    <3> QED BY <1>3, <1>5, <3>1, <3>2
  <2>7. /\ marked \in Sagas /\ marked.booking = s.booking /\ marked.sent = s.sent
        /\ \A i \in DOMAIN rows :
             marked.status[i] = IF i \in claimed THEN "in_progress" ELSE s.status[i]
    <3> HIDE DEF claimed
    <3> QED BY MarkType DEF RowStatuses
  <2>8. claimed \subseteq DOMAIN rows
    BY <2>5
  <2> HIDE DEF known, claimed, marked
  <2>9. /\ t \in Sagas /\ t.booking = "in_progress" /\ claimed \subseteq t.sent
        /\ t.status = marked.status
    BY <2>6, <2>7, <2>8 DEF Sagas
  <2> HIDE DEF t
  <2>10. \A i \in DOMAIN rows :
           /\ rows[i].stage = there => t.status[i] = "in_progress"
           /\ rows[i].stage # there => t.status[i] = s.status[i]
    BY <2>5, <2>7, <2>9
  <2> HIDE DEF here, there
  <2>11. ASSUME NEW i \in DOMAIN rows, rows[i].stage < there
         PROVE  Passed(t, i)
    <3>1. rows[i].stage <= here /\ rows[i].stage # there
      BY <2>3, <2>4, <2>11
    <3>2. Passed(s, i)
      BY <1>4, <3>1 DEF here
    <3>3. \A j \in DOMAIN rows : rows[j].stage = rows[i].stage => t.status[j] = s.status[j]
      BY <2>10, <3>1
    <3>4. InStage(rows[i].stage) \cap With(s, "success") # {} =>
            InStage(rows[i].stage) \cap With(t, "success") # {}
      <4> SUFFICES ASSUME NEW j \in InStage(rows[i].stage) \cap With(s, "success")
                   PROVE  j \in InStage(rows[i].stage) \cap With(t, "success")
        OBVIOUS
      <4> QED BY <2>9, <3>3, StatusIs
    <3> QED BY <3>2, <3>3, <3>4 DEF Passed
  <2>12. ASSUME NEW i \in DOMAIN rows, rows[i].stage > there
         PROVE  t.status[i] = "pending"
    <3>1. rows[i].stage # there /\ rows[i].stage > here
      BY <2>3, <2>4, <2>12
    <3> QED BY <1>4, <2>10, <3>1 DEF here
  <2>13. Reached(t, next)
    BY <2>10, <2>11, <2>12 DEF Reached, there
  <2>14. InStage(G[next].stage) \cap With(t, "in_progress") # {}
    <3>1. PICK i \in DOMAIN rows : rows[i].stage = there
      BY <1>3, <1>5 DEF there
    <3> QED BY <2>9, <2>10, <3>1, StatusIs DEF there
  <2>15. InStage(G[next].stage) \cap With(t, "failed") = {}
    BY <2>9, <2>10, StatusIs DEF there
  <2>16. AtStage(t, next)
    BY <2>9, <2>13, <2>14, <2>15 DEF AtStage
  <2>17. \A i \in DOMAIN rows : t.status[i] = "in_progress" => i \in t.sent
    <3> SUFFICES ASSUME NEW i \in DOMAIN rows, rows[i].stage # there
                 PROVE  t.status[i] # "in_progress"
      BY <2>5, <2>9 DEF there
    <3>1. rows[i].stage <= here \/ rows[i].stage > here
      BY <2>3, <2>4
    <3>2. s.status[i] # "in_progress"
      BY <1>4, <3>1 DEF here, Passed
    <3> QED BY <2>10, <3>2
  <2> QED BY <1>5, <2>1, <2>16, <2>17 DEF Stands
<1>6. CASE next \notin DOMAIN G
  <2>1. Advanced(born, s, G[k].stage) = Finalized(born, s)
    BY <1>6 DEF Advanced
  <2>2. \A i \in DOMAIN rows : Passed(s, i)
    <3> SUFFICES ASSUME NEW i \in DOMAIN rows PROVE Passed(s, i)
      OBVIOUS
    <3>1. PICK l \in DOMAIN G : rows[i].stage = G[l].stage
      BY <1>3
    <3>2. l <= k /\ l \in Nat /\ k \in DOMAIN G
      BY <1>1, <1>2, <1>6
    <3>3. l = k \/ l < k
      BY <1>1, <3>2
    <3> HIDE DEF G
    <3>4. G[l].stage = G[k].stage \/ G[l].stage < G[k].stage
      BY <1>3, <3>2, <3>3
    <3>5. G[l].stage <= G[k].stage
      BY <1>3, <3>2, <3>4
    <3> QED BY <1>4, <3>1, <3>5
  <2> DEFINE asked == UNION {InStage(Graph(born)[j].stage) : j \in AskStages(born)}
             mixed == asked \cap With(s, "success") # {} /\ asked \cap With(s, "failed") # {}
             u == [s EXCEPT !.booking = IF mixed THEN "partially_confirmed" ELSE "confirmed"]
  <2>3. Finalized(born, s) = u
    BY DEF Finalized
  <2>4. ~mixed => \A i \in DOMAIN rows : s.status[i] = "success"
    <3> SUFFICES ASSUME NEW i \in DOMAIN rows, s.status[i] # "success"
                 PROVE  mixed
      OBVIOUS
    <3>1. s.status[i] = "failed" /\ Asks(i)
          /\ InStage(rows[i].stage) \cap With(s, "success") # {}
      BY <2>2 DEF Passed
    <3>2. InStage(rows[i].stage) \subseteq asked
      BY <3>1 DEF Asks
    <3>3. i \in InStage(rows[i].stage) \cap With(s, "failed")
      BY <3>1, StatusIs
    <3> HIDE DEF asked
    <3> QED BY <3>1, <3>2, <3>3
  <2>5. /\ u.status = s.status /\ u.sent = s.sent
        /\ u.booking = IF mixed THEN "partially_confirmed" ELSE "confirmed"
    <3> HIDE DEF mixed
    <3> QED BY DEF Sagas
  <2> HIDE DEF mixed, u
  <2>6. Done(u)
    BY <2>2, <2>4, <2>5 DEF Done, Passed
  <2>7. \A i \in DOMAIN rows : u.status[i] # "in_progress"
    BY <2>2, <2>5 DEF Passed
  <2> QED BY <2>1, <2>3, <2>6, <2>7 DEF Stands
<1> QED BY <1>5, <1>6

LEMMA SupportsUndoes ==
    ASSUME RowsFit
    PROVE  \A i \in DOMAIN rows : rows[i].ref \in Undoable(born) <=> rows[i].ref \in born.compensated
<1>1. \A i \in DOMAIN rows : \E l \in DOMAIN Graph(born) : rows[i].ref \in Graph(born)[l].steps
  BY DEF RowsFit
<1> QED BY <1>1 DEF Undoable

\* Giving a booking up fails what was not started and undoes what was done.
LEMMA GivenUpStands ==
    ASSUME RowsFit, Supports(born), NEW s \in Sagas,
           \A i \in DOMAIN rows : s.status[i] = "in_progress" => FailedBeside(s, i) /\ i \in s.sent
    PROVE  Stands(GivenUp(born, s))
<1> DEFINE b == [s EXCEPT !.booking = "failed"]
           f == Mark(b, With(s, "pending"), "failed")
           undone == {i \in With(f, "success") : rows[i].ref \in Undoable(born)}
           t == Mark(f, undone, "compensating")
<1>1. /\ b \in Sagas /\ b.booking = "failed" /\ b.status = s.status /\ b.sent = s.sent
  BY BookedType DEF BookingStatuses
<1>2. GivenUp(born, s) = t
  BY DEF GivenUp, Undone
<1> HIDE DEF b
<1>3. /\ f \in Sagas /\ f.booking = "failed" /\ f.sent = s.sent
      /\ \A i \in DOMAIN rows :
           f.status[i] = IF i \in With(s, "pending") THEN "failed" ELSE s.status[i]
  BY <1>1, MarkType DEF RowStatuses
<1> HIDE DEF f
<1>4. /\ t \in Sagas /\ t.booking = "failed" /\ t.sent = s.sent
      /\ \A i \in DOMAIN rows :
           t.status[i] = IF i \in undone THEN "compensating" ELSE f.status[i]
  BY <1>3, MarkType DEF RowStatuses
<1>5. \A i : i \in undone <=> /\ i \in DOMAIN rows /\ f.status[i] = "success"
                             /\ rows[i].ref \in born.compensated
  <2>1. \A i : i \in undone <=> /\ i \in DOMAIN rows /\ f.status[i] = "success"
                               /\ rows[i].ref \in Undoable(born)
    BY <1>3, StatusIs
  <2> HIDE DEF undone
  <2> QED BY <2>1, SupportsUndoes
<1> HIDE DEF undone, t
<1>6. \A i \in DOMAIN rows :
        /\ s.status[i] = "failed" => t.status[i] = "failed"
        /\ t.status[i] = "in_progress" => s.status[i] = "in_progress"
        /\ t.status[i] = "success" => rows[i].ref \notin born.compensated
  BY <1>3, <1>4, <1>5, StatusIs
<1>7. ASSUME NEW i \in DOMAIN rows, s.status[i] = "in_progress"
      PROVE  FailedBeside(t, i) /\ i \in t.sent
  <2>1. ~Asks(i) /\ i \in s.sent
    BY <1>7 DEF FailedBeside
  <2>2. PICK j \in DOMAIN rows : rows[j].stage = rows[i].stage /\ s.status[j] = "failed"
    BY <1>7, StatusIs DEF FailedBeside
  <2>3. j \in InStage(rows[i].stage) \cap With(t, "failed")
    BY <1>4, <1>6, <2>2, StatusIs
  <2> QED BY <1>4, <2>1, <2>3 DEF FailedBeside
<1>8. Failed(t)
  BY <1>4, <1>6, <1>7 DEF Failed
<1> QED BY <1>2, <1>6, <1>7, <1>8 DEF Stands

\* Asks and the stage's own ask are the same.
LEMMA AsksIs ==
    ASSUME RowsFit, NEW i \in DOMAIN rows, NEW k \in DOMAIN Graph(born),
           rows[i].stage = Graph(born)[k].stage
    PROVE  Asks(i) <=> Graph(born)[k].ask
BY DEF Asks, AskStages, RowsFit

LEMMA CompletedIs ==
    ASSUME Supports(born), NEW s, NEW i \in DOMAIN rows, NEW outcome,
           NEW now, now = Mark(s, {i}, outcome), NEW stage, stage = InStage(rows[i].stage)
    PROVE  LET done == Completed(born, s, i, outcome)
               success == stage \cap With(now, "success") # {}
               failed == stage \cap With(now, "failed") # {}
               settled == stage \subseteq With(now, "success") \cup With(now, "failed")
               cancelled == IF now.booking = "in_progress" THEN GivenUp(born, now) ELSE now
               paused == IF now.booking = "in_progress"
                         THEN [now EXCEPT !.booking = "awaiting_user_decision"] ELSE now
           IN /\ failed /\ Asks(i) /\ ~settled => done = now
              /\ failed /\ Asks(i) /\ settled /\ success => done = paused
              /\ failed /\ Asks(i) /\ settled /\ ~success => done = cancelled
              /\ failed /\ ~Asks(i) => done = cancelled
              /\ ~failed => done = IF stage \subseteq With(now, "success")
                                   THEN Advanced(born, now, rows[i].stage) ELSE now
BY DEF Completed, Asks

LEMMA CompletedStands ==
    ASSUME RowsFit, Supports(born), NEW s \in Sagas, Stands(s),
           NEW i \in DOMAIN rows, s.status[i] = "in_progress", NEW outcome \in {"success", "failed"}
    PROVE  Stands(Completed(born, s, i, outcome))
<1> DEFINE now == Mark(s, {i}, outcome)
           stage == InStage(rows[i].stage)
           done == Completed(born, s, i, outcome)
           success == stage \cap With(now, "success") # {}
           failed == stage \cap With(now, "failed") # {}
           settled == stage \subseteq With(now, "success") \cup With(now, "failed")
           cancelled == IF now.booking = "in_progress" THEN GivenUp(born, now) ELSE now
           paused == IF now.booking = "in_progress"
                     THEN [now EXCEPT !.booking = "awaiting_user_decision"] ELSE now
<1>1. /\ now \in Sagas /\ now.booking = s.booking /\ now.sent = s.sent
      /\ now.status[i] = outcome
      /\ \A j \in DOMAIN rows : j # i => now.status[j] = s.status[j]
  BY MarkType DEF RowStatuses
<1>2. /\ failed /\ Asks(i) /\ ~settled => done = now
      /\ failed /\ Asks(i) /\ settled /\ success => done = paused
      /\ failed /\ Asks(i) /\ settled /\ ~success => done = cancelled
      /\ failed /\ ~Asks(i) => done = cancelled
      /\ ~failed => done = IF stage \subseteq With(now, "success")
                           THEN Advanced(born, now, rows[i].stage) ELSE now
  BY CompletedIs
<1> HIDE DEF now, done
<1>3. \A j : /\ j \in stage <=> j \in DOMAIN rows /\ rows[j].stage = rows[i].stage
             /\ \A v : j \in With(now, v) <=> j \in DOMAIN rows /\ now.status[j] = v
  BY <1>1, StatusIs
<1>4. \A j \in DOMAIN rows : now.status[j] = "in_progress" =>
        j # i /\ s.status[j] = "in_progress" /\ j \in now.sent
  BY <1>1 DEF Stands
<1> HIDE DEF stage
<1>5. CASE Failed(s)
  <2>1. FailedBeside(s, i) /\ s.booking = "failed"
    BY <1>5 DEF Failed
  <2>2. \A j \in DOMAIN rows : s.status[j] = "failed" => now.status[j] = "failed"
    BY <1>1
  <2>3. \A j \in DOMAIN rows : FailedBeside(s, j) => FailedBeside(now, j)
    <3> SUFFICES ASSUME NEW j \in DOMAIN rows, FailedBeside(s, j)
                 PROVE  FailedBeside(now, j)
      OBVIOUS
    <3>1. PICK l \in InStage(rows[j].stage) : l \in With(s, "failed")
      BY DEF FailedBeside
    <3>2. l \in InStage(rows[j].stage) \cap With(now, "failed")
      BY <1>3, <2>2, <3>1, StatusIs
    <3> QED BY <3>2 DEF FailedBeside
  <2>4. failed /\ ~Asks(i)
    BY <2>1, <2>3 DEF FailedBeside, stage
  <2>5. done = now
    BY <1>1, <1>2, <2>1, <2>4
  <2>6. Failed(now)
    <3>1. ASSUME NEW j \in DOMAIN rows
          PROVE  /\ now.status[j] = "in_progress" => FailedBeside(now, j)
                 /\ now.status[j] = "success" /\ rows[j].ref \in born.compensated
                      => FailedBeside(now, j)
      <4>1. CASE j = i
        BY <2>1, <2>3, <4>1
      <4>2. CASE j # i
        BY <1>1, <1>5, <2>3, <4>2 DEF Failed
      <4> QED BY <4>1, <4>2
    <3> QED BY <1>1, <2>1, <3>1 DEF Failed
  <2> QED BY <1>4, <2>5, <2>6 DEF Stands, done
<1>6. CASE \E k \in DOMAIN Graph(born) : AtStage(s, k)
  <2>1. PICK k \in DOMAIN Graph(born) : AtStage(s, k)
    BY <1>6
  <2> DEFINE here == Graph(born)[k].stage
  <2>2. /\ s.booking = "in_progress" /\ here \in Nat
        /\ \A j \in DOMAIN rows :
             /\ rows[j].stage \in Nat
             /\ rows[j].stage < here => Passed(s, j)
             /\ rows[j].stage = here => s.status[j] \in {"in_progress", "success", "failed"}
             /\ rows[j].stage > here => s.status[j] = "pending"
    <3>1. /\ s.booking = "in_progress"
          /\ \A j \in DOMAIN rows :
               /\ rows[j].stage < here => Passed(s, j)
               /\ rows[j].stage = here => s.status[j] \in {"in_progress", "success", "failed"}
               /\ rows[j].stage > here => s.status[j] = "pending"
      BY <2>1 DEF AtStage, Reached
    <3>2. here \in Nat /\ \A j \in DOMAIN rows : rows[j].stage \in Nat
      BY DEF RowsFit
    <3> QED BY <3>1, <3>2
  <2>3. ~Graph(born)[k].ask => InStage(here) \cap With(s, "failed") = {}
    BY <2>1 DEF AtStage
  <2>4. rows[i].stage = here
    <3>1. ~Passed(s, i)
      BY DEF Passed
    <3> HIDE DEF here
    <3>2. ~(rows[i].stage < here) /\ ~(rows[i].stage > here)
      BY <2>2, <3>1
    <3> QED BY <2>2, <3>2
  <2>5. Asks(i) <=> Graph(born)[k].ask
    BY <2>4, AsksIs
  <2> HIDE DEF here
  <2>6. \A j \in DOMAIN rows : rows[j].stage < here => Passed(now, j)
    <3> SUFFICES ASSUME NEW j \in DOMAIN rows, rows[j].stage < here
                 PROVE  Passed(now, j)
      OBVIOUS
    <3>1. rows[j].stage # here /\ j # i /\ Passed(s, j)
      BY <2>2, <2>4
    <3>2. \A l \in DOMAIN rows : rows[l].stage = rows[j].stage => now.status[l] = s.status[l]
      BY <1>1, <2>4, <3>1
    <3>3. InStage(rows[j].stage) \cap With(s, "success") # {} =>
            InStage(rows[j].stage) \cap With(now, "success") # {}
      <4> SUFFICES ASSUME NEW l \in InStage(rows[j].stage) \cap With(s, "success")
                   PROVE  l \in InStage(rows[j].stage) \cap With(now, "success")
        OBVIOUS
      <4> QED BY <1>3, <3>2, StatusIs
    <3> QED BY <3>1, <3>2, <3>3 DEF Passed
  <2>7. \A j \in DOMAIN rows :
          /\ rows[j].stage = here => now.status[j] \in {"in_progress", "success", "failed"}
          /\ rows[j].stage > here => now.status[j] = "pending"
    <3>1. \A j \in DOMAIN rows : rows[j].stage > here => j # i
      BY <2>2, <2>4
    <3> QED BY <1>1, <2>2, <3>1
  <2>8. Reached(now, k) /\ now.booking = "in_progress"
    BY <1>1, <2>2, <2>6, <2>7 DEF Reached, here
  <2>9. stage = InStage(Graph(born)[k].stage)
    BY <2>4 DEF stage, here
  <2>10. \A j \in stage : now.status[j] \in {"in_progress", "success", "failed"}
    BY <1>3, <2>4, <2>7
  <2>11. \A j \in DOMAIN rows : now.status[j] = "in_progress" => j \in stage
    <3> SUFFICES ASSUME NEW j \in DOMAIN rows, now.status[j] = "in_progress", j \notin stage
                 PROVE  FALSE
      OBVIOUS
    <3>1. rows[j].stage # here
      BY <1>3, <2>4
    <3>2. rows[j].stage < here \/ rows[j].stage > here
      BY <2>2, <3>1
    <3> QED BY <2>6, <2>7, <3>2 DEF Passed
  <2>12. ASSUME stage \cap With(now, "in_progress") # {}, Asks(i) \/ ~failed
         PROVE  Stands(now)
    <3>1. AtStage(now, k)
      BY <2>5, <2>8, <2>9, <2>12 DEF AtStage
    <3> QED BY <1>4, <3>1 DEF Stands
  <2>13. ASSUME \A j \in DOMAIN rows : now.status[j] = "in_progress" => FailedBeside(now, j)
         PROVE  Stands(GivenUp(born, now))
    BY <1>1, <1>4, <2>13, GivenUpStands
  <2>14. CASE failed /\ ~Asks(i)
    <3>1. done = GivenUp(born, now)
      BY <1>2, <2>8, <2>14
    <3>2. ASSUME NEW j \in DOMAIN rows, now.status[j] = "in_progress"
          PROVE  FailedBeside(now, j)
      <4>1. rows[j].stage = rows[i].stage
        BY <1>3, <2>11, <3>2
      <4> QED BY <2>14, <4>1 DEF FailedBeside, Asks, stage
    <3> QED BY <2>13, <3>1, <3>2 DEF done
  <2>15. CASE failed /\ Asks(i) /\ ~settled
    <3>1. done = now
      BY <1>2, <2>15
    <3>2. stage \cap With(now, "in_progress") # {}
      BY <1>3, <2>10, <2>15
    <3> QED BY <2>12, <2>15, <3>1, <3>2 DEF done
  <2>16. CASE failed /\ Asks(i) /\ settled
    <3>1. stage \cap With(now, "in_progress") = {}
      <4> SUFFICES ASSUME NEW j \in stage, j \in With(now, "in_progress") PROVE FALSE
        OBVIOUS
      <4>1. now.status[j] = "in_progress" /\ j \in With(now, "success") \cup With(now, "failed")
        BY <1>3, <2>16
      <4> QED BY <1>3, <4>1
    <3>2. \A j \in DOMAIN rows : now.status[j] # "in_progress"
      BY <1>3, <2>11, <3>1
    <3>3. CASE success
      <4> DEFINE w == [now EXCEPT !.booking = "awaiting_user_decision"]
      <4>1. done = w
        BY <1>2, <2>8, <2>16, <3>3
      <4>2. w.booking = "awaiting_user_decision" /\ w.status = now.status /\ w.sent = now.sent
        BY <1>1, BookedType DEF BookingStatuses
      <4> HIDE DEF w
      <4>3. \A v : With(w, v) = With(now, v)
        BY <4>2 DEF With
      <4>4. Reached(w, k)
        BY <2>8, <4>2, <4>3 DEF Reached, Passed
      <4>5. Waiting(w, k)
        BY <2>5, <2>9, <2>16, <3>1, <3>3, <4>2, <4>3, <4>4 DEF Waiting
      <4> QED BY <3>2, <4>1, <4>2, <4>5 DEF Stands, done
    <3>4. CASE ~success
      <4>1. done = GivenUp(born, now)
        BY <1>2, <2>8, <2>16, <3>4
      <4> QED BY <2>13, <3>2, <4>1 DEF done
    <3> QED BY <3>3, <3>4
  <2>17. CASE ~failed /\ stage \subseteq With(now, "success")
    <3>1. done = Advanced(born, now, Graph(born)[k].stage)
      BY <1>2, <2>4, <2>17 DEF here
    <3>2. \A j \in DOMAIN rows : rows[j].stage = here => Passed(now, j)
      BY <1>3, <2>4, <2>17 DEF Passed
    <3>3. \A j \in DOMAIN rows : rows[j].stage <= here =>
            rows[j].stage < here \/ rows[j].stage = here
      BY <2>2
    <3>4. \A j \in DOMAIN rows : /\ rows[j].stage <= here => Passed(now, j)
                                 /\ rows[j].stage > here => now.status[j] = "pending"
      BY <2>6, <2>7, <3>2, <3>3
    <3>5. Stands(Advanced(born, now, Graph(born)[k].stage))
      BY <1>1, <2>8, <3>4, AdvancedStands DEF here
    <3> QED BY <3>1, <3>5 DEF done
  <2>18. CASE ~failed /\ ~(stage \subseteq With(now, "success"))
    <3>1. done = now
      BY <1>2, <2>18
    <3>2. stage \cap With(now, "in_progress") # {}
      <4>1. PICK j \in stage : j \notin With(now, "success")
        BY <2>18
      <4>2. now.status[j] # "success" /\ now.status[j] # "failed"
        BY <1>3, <2>18, <4>1
      <4> QED BY <1>3, <2>10, <4>1, <4>2
    <3> QED BY <2>12, <2>18, <3>1, <3>2 DEF done
  <2> QED BY <2>14, <2>15, <2>16, <2>17, <2>18
<1>7. ~Unstarted(s) /\ ~Done(s)
  BY DEF Unstarted, Done
<1>8. ASSUME NEW k \in DOMAIN Graph(born), Waiting(s, k)
      PROVE  FALSE
  <2>1. i \notin InStage(Graph(born)[k].stage)
    BY <1>8, StatusIs DEF Waiting
  <2>2. rows[i].stage # Graph(born)[k].stage
    BY <2>1, StatusIs
  <2>3. rows[i].stage \in Nat /\ Graph(born)[k].stage \in Nat
    BY DEF RowsFit
  <2> QED BY <1>8, <2>2, <2>3 DEF Waiting, Reached, Passed
<1> QED BY <1>5, <1>6, <1>7, <1>8 DEF Stands

LEMMA WaitingStands ==
    ASSUME NEW s \in Sagas, Stands(s), s.booking = "awaiting_user_decision"
    PROVE  \E k \in DOMAIN Graph(born) : Waiting(s, k)
BY DEF Stands, Unstarted, Done, Failed, AtStage

\* An acceptance resumes after the stage that asked.
LEMMA AcceptedStands ==
    ASSUME RowsFit, Supports(born), NEW s \in Sagas, Stands(s),
           s.booking = "awaiting_user_decision"
    PROVE  Stands(Accepted(born, s))
<1> DEFINE now == [s EXCEPT !.booking = "in_progress"]
<1>1. PICK k \in DOMAIN Graph(born) : Waiting(s, k)
  BY WaitingStands
<1>2. AskStages(born) = {k}
  BY <1>1 DEF Waiting, AskStages, RowsFit
<1>3. Min(AskStages(born)) = k
  <2>1. k <= k
    BY DEF RowsFit
  <2>2. \A x \in {k} : \A y \in {k} : x <= y
    BY <2>1
  <2> QED BY <1>2, <2>2 DEF Min
<1>4. Accepted(born, s) = Advanced(born, now, Graph(born)[k].stage)
  BY <1>2, <1>3 DEF Accepted
<1>5. /\ now \in Sagas /\ now.booking = "in_progress" /\ now.status = s.status
      /\ now.sent = s.sent
  BY BookedType DEF BookingStatuses
<1> HIDE DEF now
<1> DEFINE here == Graph(born)[k].stage
<1>6. \A v : With(now, v) = With(s, v)
  BY <1>5 DEF With
<1>7. \A i \in DOMAIN rows : Passed(s, i) => Passed(now, i)
  BY <1>5, <1>6 DEF Passed
<1>8. \A i \in DOMAIN rows :
        /\ rows[i].stage < here => Passed(s, i)
        /\ rows[i].stage = here => s.status[i] \in {"in_progress", "success", "failed"}
        /\ rows[i].stage > here => s.status[i] = "pending"
  BY <1>1 DEF Waiting, Reached
<1>9. ASSUME NEW i \in DOMAIN rows, rows[i].stage = here
      PROVE  Passed(s, i)
  <2>1. s.status[i] # "in_progress"
    BY <1>1, <1>9, StatusIs DEF Waiting
  <2>2. Asks(i)
    BY <1>1, <1>9, AsksIs DEF Waiting
  <2>3. InStage(rows[i].stage) \cap With(s, "success") # {}
    BY <1>1, <1>9 DEF Waiting
  <2> QED BY <1>8, <1>9, <2>1, <2>2, <2>3 DEF Passed
<1>10. here \in Nat /\ \A i \in DOMAIN rows : rows[i].stage \in Nat
  BY DEF RowsFit
<1>11. \A i \in DOMAIN rows :
         /\ rows[i].stage <= here => Passed(now, i)
         /\ rows[i].stage > here => now.status[i] = "pending"
  <2> HIDE DEF here
  <2>1. \A i \in DOMAIN rows : rows[i].stage <= here =>
          rows[i].stage < here \/ rows[i].stage = here
    BY <1>10
  <2> QED BY <1>5, <1>7, <1>8, <1>9, <2>1
<1> QED BY <1>4, <1>5, <1>11, AdvancedStands

LEMMA RejectedStands ==
    ASSUME RowsFit, Supports(born), NEW s \in Sagas, Stands(s),
           s.booking = "awaiting_user_decision"
    PROVE  Stands(GivenUp(born, s))
<1>1. PICK k \in DOMAIN Graph(born) : Waiting(s, k)
  BY WaitingStands
<1>2. ASSUME NEW i \in DOMAIN rows, s.status[i] = "in_progress"
      PROVE  FALSE
  <2>1. rows[i].stage # Graph(born)[k].stage
    BY <1>1, <1>2, StatusIs DEF Waiting
  <2>2. rows[i].stage \in Nat /\ Graph(born)[k].stage \in Nat
    BY DEF RowsFit
  <2>3. rows[i].stage < Graph(born)[k].stage \/ rows[i].stage > Graph(born)[k].stage
    BY <2>1, <2>2
  <2> QED BY <1>1, <1>2, <2>3 DEF Waiting, Reached, Passed
<1> QED BY <1>2, GivenUpStands

LEMMA CompensatedStands ==
    ASSUME RowsFit, NEW s \in Sagas, Stands(s), NEW i \in DOMAIN rows,
           s.status[i] = "compensating"
    PROVE  Stands(Mark(s, {i}, "compensated"))
<1> DEFINE t == Mark(s, {i}, "compensated")
<1>1. /\ t \in Sagas /\ t.booking = s.booking /\ t.sent = s.sent
      /\ t.status[i] = "compensated"
      /\ \A j \in DOMAIN rows : j # i => t.status[j] = s.status[j]
  BY MarkType DEF RowStatuses
<1> HIDE DEF t
<1>2. ASSUME NEW k \in DOMAIN Graph(born), Reached(s, k)
      PROVE  FALSE
  <2>1. rows[i].stage \in Nat /\ Graph(born)[k].stage \in Nat
    BY DEF RowsFit
  <2>2. \/ rows[i].stage < Graph(born)[k].stage \/ rows[i].stage = Graph(born)[k].stage
        \/ rows[i].stage > Graph(born)[k].stage
    BY <2>1
  <2> QED BY <1>2, <2>2 DEF Reached, Passed
<1>3. Failed(s)
  BY <1>2 DEF Stands, Unstarted, Done, AtStage, Waiting
<1>4. \A j \in DOMAIN rows : FailedBeside(s, j) => FailedBeside(t, j)
  <2> SUFFICES ASSUME NEW j \in DOMAIN rows, FailedBeside(s, j)
               PROVE  FailedBeside(t, j)
    OBVIOUS
  <2>1. PICK l \in InStage(rows[j].stage) : l \in With(s, "failed")
    BY DEF FailedBeside
  <2>2. l \in InStage(rows[j].stage) \cap With(t, "failed")
    BY <1>1, <2>1, StatusIs
  <2> QED BY <2>2 DEF FailedBeside
<1>5. Failed(t)
  <2>1. ASSUME NEW j \in DOMAIN rows
        PROVE  /\ t.status[j] = "in_progress" => FailedBeside(t, j)
               /\ t.status[j] = "success" /\ rows[j].ref \in born.compensated
                    => FailedBeside(t, j)
    <3>1. CASE j = i
      BY <1>1, <3>1
    <3>2. CASE j # i
      BY <1>1, <1>3, <1>4, <3>2 DEF Failed
    <3> QED BY <3>1, <3>2
  <2> QED BY <1>1, <1>3, <2>1 DEF Failed
<1>6. \A j \in DOMAIN rows : t.status[j] = "in_progress" => j \in t.sent
  BY <1>1 DEF Stands
<1> QED BY <1>5, <1>6 DEF Stands, t

\* What publish makes of a booking.
Fresh ==
    /\ saga = [booking |-> "in_progress",
               status |-> [i \in DOMAIN rows |->
                             IF i \in InStage(0) THEN "in_progress" ELSE "pending"],
               sent |-> InStage(0)]
    /\ Supports(born)

LEMMA FreshStands == Fresh /\ RowsOfBorn /\ RowsAsExpected => InPhase
<1> SUFFICES ASSUME Fresh, RowsOfBorn, RowsAsExpected
             PROVE  Stands(saga)
  BY DEF InPhase, Fresh
<1>1. saga # NoBooking /\ saga \in Sagas
  BY DEF Fresh, NoBooking, RowsOfBorn
<1>2. RowsFit
  BY <1>1, RowsDoFit
<1>3. /\ saga.booking = "in_progress" /\ saga.sent = InStage(0)
      /\ \A i \in DOMAIN rows :
           saga.status[i] = IF i \in InStage(0) THEN "in_progress" ELSE "pending"
  BY DEF Fresh
<1>4. CASE InStage(0) = {}
  <2>1. Unstarted(saga)
    BY <1>3, <1>4 DEF Unstarted
  <2> QED BY <1>3, <2>1 DEF Stands
<1>5. CASE InStage(0) # {}
  <2>1. PICK i \in DOMAIN rows : rows[i].stage = 0
    BY <1>5 DEF InStage
  <2>2. PICK k \in DOMAIN Graph(born) : Graph(born)[k].stage = 0
    BY <1>2, <2>1 DEF RowsFit
  <2>3. \A j \in DOMAIN rows : rows[j].stage \in Nat
    BY <1>2 DEF RowsFit
  <2>4. \A j \in DOMAIN rows : ~(rows[j].stage < 0) /\ (rows[j].stage > 0 => rows[j].stage # 0)
    BY <2>3
  <2>5. \A j \in DOMAIN rows :
          /\ rows[j].stage = 0 => saga.status[j] = "in_progress"
          /\ rows[j].stage # 0 => saga.status[j] = "pending"
    BY <1>3 DEF InStage
  <2>6. Reached(saga, k)
    BY <2>2, <2>4, <2>5 DEF Reached
  <2>7. InStage(0) \cap With(saga, "in_progress") # {}
    BY <1>1, <2>1, <2>5, StatusIs
  <2>8. InStage(0) \cap With(saga, "failed") = {}
    BY <1>1, <2>5, StatusIs
  <2>9. AtStage(saga, k)
    BY <1>3, <2>2, <2>6, <2>7, <2>8 DEF AtStage
  <2> QED BY <1>3, <2>9 DEF Stands
<1> QED BY <1>4, <1>5

LEMMA HandledStands ==
    ASSUME RowsFit, Supports(born), RowsOfBorn, Stands(saga), Handled(born)
    PROVE  Stands(saga')
<1>1. saga \in Sagas
  BY HandledType
<1>2. CASE \E i \in DOMAIN rows, o \in {"success", "failed"} : Complete(born, i, o)
  BY <1>1, <1>2, CompletedStands DEF Complete
<1>3. CASE Accept(born)
  BY <1>1, <1>3, AcceptedStands DEF Accept
<1>4. CASE Reject(born)
  BY <1>1, <1>4, RejectedStands DEF Reject
<1>5. CASE \E i \in DOMAIN rows : Compensate(i)
  BY <1>1, <1>5, CompensatedStands DEF Compensate
<1> QED BY <1>2, <1>3, <1>4, <1>5 DEF Handled

\* Where a booking stands depends on nothing else that changes.
LEMMA StandsStill ==
    ASSUME rows' = rows, born' = born, count' = count, Stands(saga')
    PROVE  Stands(saga)'
<1>1. Booked' = Booked
  BY DEF Booked, ProductsOf
<1>2. Graph(born)' = Graph(born)
  BY <1>1 DEF Graph
<1>3. AskStages(born)' = AskStages(born)
  BY <1>2 DEF AskStages
<1>4. \A n : InStage(n)' = InStage(n)
  BY DEF InStage
<1>5. \A i : Asks(i)' <=> Asks(i)
  BY <1>2, <1>3 DEF Asks
<1>6. \A i : Passed(saga, i)' <=> Passed(saga', i)
  BY <1>4, <1>5 DEF Passed, With
<1>7. \A k : Reached(saga, k)' <=> Reached(saga', k)
  BY <1>2, <1>6 DEF Reached
<1>8. \A k : /\ AtStage(saga, k)' <=> AtStage(saga', k)
             /\ Waiting(saga, k)' <=> Waiting(saga', k)
  BY <1>2, <1>4, <1>7 DEF AtStage, Waiting, With
<1>9. Unstarted(saga)' <=> Unstarted(saga')
  BY <1>4 DEF Unstarted
<1>10. Done(saga)' <=> Done(saga')
  BY <1>5 DEF Done
<1>11. Failed(saga)' <=> Failed(saga')
  BY <1>4, <1>5 DEF Failed, FailedBeside, With
<1> QED BY <1>2, <1>8, <1>9, <1>10, <1>11 DEF Stands

LEMMA InPhaseInvariant == Spec => []InPhase
<1>1. Init => InPhase
  BY DEF Init, InPhase
<1>2. InPhase /\ NotStrayed /\ RowsAsExpected /\ [Next]_vars => InPhase' \/ Fresh'
  <2> SUFFICES ASSUME InPhase, NotStrayed, RowsAsExpected, [Next]_vars
               PROVE  InPhase' \/ Fresh'
    OBVIOUS
  <2>1. CASE Publish
    <3> DEFINE placed == Placements(config.stages, count)
               first == {i \in DOMAIN placed : placed[i].stage = 0}
    <3>1. /\ rows' = placed /\ born' = config /\ count' = count /\ Supports(config)
          /\ saga' = [booking |-> "in_progress",
                      status |-> [i \in DOMAIN placed |->
                                    IF i \in first THEN "in_progress" ELSE "pending"],
                      sent |-> first]
      BY <2>1 DEF Publish
    <3>2. InStage(0)' = first
      BY <3>1 DEF InStage
    <3>3. Supports(born)'
      BY <3>1 DEF Supports, Booked, ProductsOf
    <3> HIDE DEF placed, first
    <3>4. Fresh'
      BY <3>1, <3>2, <3>3 DEF Fresh
    <3> QED BY <3>4
  <2>2. CASE Handle
    <3>1. Handled(config) /\ UNCHANGED <<config, count, rows, born, strayed>>
      BY <2>2 DEF Handle
    <3>2. RowsOfBorn
      BY DEF NotStrayed
    <3>3. saga \in Sagas /\ saga # NoBooking
      BY <3>1, <3>2, HandledType, NotABooking
    <3>4. CASE strayed
      BY <3>1, <3>4 DEF InPhase
    <3>5. CASE ~strayed
      <4>1. Supports(born) /\ Stands(saga)
        BY <3>3, <3>5 DEF InPhase
      <4>2. Alike(config, born)
        BY <3>2, <3>5, ConfigType, SameGraph DEF NotStrayed, Alike
      <4>3. Stands(saga')
        BY <3>1, <3>2, <3>3, <4>1, <4>2, SameHandled, RowsDoFit, HandledStands
      <4>4. Stands(saga)'
        BY <3>1, <4>3, StandsStill
      <4>5. Supports(born)'
        BY <3>1, <4>1 DEF Supports, Booked, ProductsOf
      <4> QED BY <4>4, <4>5 DEF InPhase
    <3> QED BY <3>4, <3>5
  <2>3. ASSUME UNCHANGED <<count, rows, saga, born>>, strayed => strayed'
        PROVE  InPhase'
    <3>1. CASE strayed
      BY <2>3, <3>1 DEF InPhase
    <3>2. CASE saga = NoBooking
      BY <2>3, <3>2 DEF InPhase, NoBooking
    <3>3. CASE Supports(born) /\ Stands(saga)
      <4>1. Stands(saga)'
        BY <2>3, <3>3, StandsStill
      <4>2. Supports(born)'
        BY <2>3, <3>3 DEF Supports, Booked, ProductsOf
      <4> QED BY <4>1, <4>2 DEF InPhase
    <3> QED BY <3>1, <3>2, <3>3 DEF InPhase
  <2>4. CASE Restart
    BY <2>3, <2>4 DEF Restart
  <2>5. CASE UNCHANGED vars
    BY <2>3, <2>5 DEF vars
  <2> QED BY <2>1, <2>2, <2>4, <2>5 DEF Next
<1> QED BY <1>1, <1>2, FreshStands, RowsInvariant, NotStrayedInvariant, RowsComplete, PTL
        DEF Spec

\* A booking nobody works on and nobody has to decide is final.  Not so, in the code,
\* when its graph was edited under it or had no stage 0, which publish starts literally
\* (booking.service.ts:111-121); the theorem says that nothing else strands it.
THEOREM Stranding == Spec => []StrandedOnlyByEdits
<1>1. InPhase /\ RowsOfBorn => StrandedOnlyByEdits
  <2> SUFFICES ASSUME InPhase, RowsOfBorn, saga.booking = "in_progress",
                      ~strayed, InStage(0) # {}
               PROVE  AtWork
    BY DEF StrandedOnlyByEdits
  <2>1. saga # NoBooking
    BY DEF NoBooking
  <2>2. saga \in Sagas /\ Stands(saga)
    BY <2>1 DEF InPhase, RowsOfBorn
  <2>3. PICK k \in DOMAIN Graph(born) : AtStage(saga, k)
    BY <2>2 DEF Stands, Unstarted, Done, Failed, Waiting
  <2>4. PICK i \in DOMAIN rows : saga.status[i] = "in_progress"
    BY <2>2, <2>3, StatusIs DEF AtStage
  <2>5. i \in saga.sent
    BY <2>2, <2>4 DEF Stands
  <2> QED BY <2>4, <2>5 DEF AtWork
<1> QED BY <1>1, InPhaseInvariant, RowsInvariant, PTL

\* A final status tells the truth about the rows: confirmed, all done; partially
\* confirmed, all done but what the user gave up; failed, nothing done and not undone
\* that could be, but what finished beside the failure of a stage that does not ask
\* (stage-advancement.service.ts:65-68).
THEOREM Endings == Spec => []EndsAsGenerated
<1>1. InPhase /\ RowsOfBorn => EndsAsGenerated
  <2> SUFFICES ASSUME InPhase, RowsOfBorn, ~strayed, saga # NoBooking
               PROVE  EndsAsGenerated
    BY DEF EndsAsGenerated, NoBooking
  <2>1. saga \in Sagas /\ Stands(saga)
    BY DEF InPhase, RowsOfBorn
  <2>2. saga.booking = "confirmed" => DOMAIN rows \subseteq With(saga, "success")
    <3>1. saga.booking = "confirmed" => \A i \in DOMAIN rows : saga.status[i] = "success"
      BY <2>1 DEF Stands, Unstarted, Done, Failed, AtStage, Waiting
    <3> QED BY <2>1, <3>1, StatusIs
  <2>3. saga.booking = "partially_confirmed" =>
          \A i \in DOMAIN rows \ With(saga, "success") :
            \E k \in AskStages(born) : rows[i].stage = Graph(born)[k].stage
    <3>1. saga.booking = "partially_confirmed" =>
            \A i \in DOMAIN rows : saga.status[i] = "success" \/ Asks(i)
      BY <2>1 DEF Stands, Unstarted, Done, Failed, AtStage, Waiting
    <3>2. \A i \in DOMAIN rows \ With(saga, "success") : saga.status[i] # "success"
      BY <2>1, StatusIs
    <3> QED BY <3>1, <3>2 DEF Asks
  <2>4. saga.booking = "failed" => \A i \in With(saga, "success") : ~LeftBehind(i)
    <3> SUFFICES ASSUME saga.booking = "failed", NEW i \in With(saga, "success")
                 PROVE  ~LeftBehind(i)
      OBVIOUS
    <3>1. Failed(saga)
      BY <2>1 DEF Stands, Unstarted, Done, AtStage, Waiting
    <3>2. i \in DOMAIN rows /\ saga.status[i] = "success"
      BY <2>1, StatusIs
    <3>3. rows[i].ref \in born.compensated => FailedBeside(saga, i)
      BY <3>1, <3>2 DEF Failed
    <3> QED BY <3>3 DEF LeftBehind, FailedBeside, Asks
  <2> QED BY <2>2, <2>3, <2>4 DEF EndsAsGenerated
<1> QED BY <1>1, InPhaseInvariant, RowsInvariant, PTL
=============================================================================
