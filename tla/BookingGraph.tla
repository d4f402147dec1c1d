---------------------------- MODULE BookingGraph ----------------------------
(***************************************************************************)
(* The booking graph: the template of booking-graph.yml, the staged graph  *)
(* GraphService.generate builds from it for a set of product types, and    *)
(* the fan-out of that graph into one BookingStep row per step and item.   *)
(*                                                                         *)
(* Of a step the models keep its reference ("flight.allotment"), the       *)
(* product it belongs to ("itinerary" for a shared step), whether it has a *)
(* compensate action and its retry policy; agent names, routing keys and   *)
(* timeouts tell nothing apart.                                            *)
(***************************************************************************)
EXTENDS Naturals, SequencesExt

Product == {"flight", "hotel"}

StepConfig(product, compensate, max, backoffMs) ==
    [product |-> product, compensate |-> compensate, max |-> max,
     backoffMs |-> backoffMs]

\* products.*.steps and itinerary.sharedSteps, by step reference.
Steps ==
    [ref \in {"flight.availability", "flight.allotment", "hotel.availability",
              "hotel.allotment", "itinerary.fraud", "itinerary.payment",
              "itinerary.notify"} |->
       CASE ref = "flight.availability" -> StepConfig("flight", FALSE, 3, 1000)
         [] ref = "flight.allotment"    -> StepConfig("flight", TRUE, 2, 2000)
         [] ref = "hotel.availability"  -> StepConfig("hotel", FALSE, 3, 1000)
         [] ref = "hotel.allotment"     -> StepConfig("hotel", TRUE, 2, 2000)
         [] ref = "itinerary.fraud"     -> StepConfig("itinerary", FALSE, 0, 1000)
         [] ref = "itinerary.payment"   -> StepConfig("itinerary", TRUE, 2, 2000)
         [] ref = "itinerary.notify"    -> StepConfig("itinerary", FALSE, 3, 1000)]

StageDef(stage, ask, refs) == [stage |-> stage, ask |-> ask, steps |-> refs]

\* itinerary.stages; ask stands for join: all_or_ask.
Stages ==
    <<StageDef(0, FALSE, <<"flight.availability", "hotel.availability">>),
      StageDef(1, FALSE, <<"itinerary.fraud">>),
      StageDef(2, TRUE,  <<"flight.allotment", "hotel.allotment">>),
      StageDef(3, FALSE, <<"itinerary.payment">>),
      StageDef(4, FALSE, <<"itinerary.notify">>)>>

-----------------------------------------------------------------------------

\* The elements of S in the order in which earlier[x] precede x: the k-th is the
\* one that k - 1 others precede.
Listed(S, earlier) ==
    [k \in 1..Cardinality(S) |-> CHOOSE x \in S : Cardinality(earlier[x]) = k - 1]

Ascending(S) == Listed(S, [j \in S |-> {l \in S : l < j}])

\* What f has for the elements of a list.
Mapped(f, order) == [k \in DOMAIN order |-> f[order[k]]]

\* The steps of the booked products, and every shared step.
IsStepIncludedUnshared(ref, products) == Steps[ref].product \in products
IsStepIncluded(ref, products) ==
    Steps[ref].product \in products \cup {"itinerary"}

\* Which of the steps of a stage are included, as they are listed.
Chosen(refs, products) == {j \in DOMAIN refs : IsStepIncluded(refs[j], products)}
StageSteps(refs, products) == Mapped(refs, Ascending(Chosen(refs, products)))

\* Stages in ascending order, those of one number as they are listed.
EarlierStagesAsListed(stageDefs, i) == {j \in DOMAIN stageDefs : j < i}
EarlierStages(stageDefs, i) ==
    {j \in DOMAIN stageDefs :
       \/ stageDefs[j].stage < stageDefs[i].stage
       \/ stageDefs[j].stage = stageDefs[i].stage /\ j < i}
InStageOrder(S, stageDefs) ==
    Listed(S, [i \in S |-> S \cap EarlierStages(stageDefs, i)])

\* A stage left without steps is dropped.
Kept(stageDefs, products) ==
    {i \in DOMAIN stageDefs : DOMAIN StageSteps(stageDefs[i].steps, products) # {}}

\* The stages with the steps of the booked products.
Generate(stageDefs, products) ==
    Mapped([i \in DOMAIN stageDefs |->
              [stageDefs[i] EXCEPT !.steps = StageSteps(@, products)]],
           InStageOrder(Kept(stageDefs, products), stageDefs))

\* The items publish inserts for a product, of which count[product] were
\* submitted: one per flight leg, one per hotel stay.
NoItem == [product |-> "itinerary", number |-> 0]
ItemsOf(product, count) ==
    [n \in 1..count[product] |-> [product |-> product, number |-> n]]

ExpandStepOneItem(ref, count) ==
    IF Steps[ref].product = "itinerary" THEN <<NoItem>>
    ELSE [n \in 1..count[Steps[ref].product] |->
            [product |-> Steps[ref].product, number |-> 1]]
ExpandStep(ref, count) ==
    IF Steps[ref].product = "itinerary" THEN <<NoItem>>
    ELSE ItemsOf(Steps[ref].product, count)

ProductsOf(count) == {p \in Product : count[p] > 0}

\* A place is an item of a step of a stage of the graph; places are taken stage
\* by stage, step by step and item by item.
Places(graph, count) ==
    UNION {UNION {{<<k, j, n>> : n \in DOMAIN ExpandStep(graph[k].steps[j], count)} :
                    j \in DOMAIN graph[k].steps} : k \in DOMAIN graph}
EarlierPlaces(places, p) ==
    {q \in places : \/ q[1] < p[1]
                    \/ q[1] = p[1] /\ q[2] < p[2]
                    \/ q[1] = p[1] /\ q[2] = p[2] /\ q[3] < p[3]}
InPlaceOrder(places) == Listed(places, [p \in places |-> EarlierPlaces(places, p)])

\* The rows publish creates, in the order of their stepIndex: a product step
\* once per item of its product, a shared step once.
RowAt(graph, count, p) ==
    LET ref == graph[p[1]].steps[p[2]]
    IN [stage |-> graph[p[1]].stage, ref |-> ref, item |-> ExpandStep(ref, count)[p[3]]]
Fanned(graph, count) ==
    Mapped([p \in Places(graph, count) |-> RowAt(graph, count, p)],
           InPlaceOrder(Places(graph, count)))
Placements(stageDefs, count) ==
    Fanned(Generate(stageDefs, ProductsOf(count)), count)
=============================================================================
