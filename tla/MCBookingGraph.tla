--------------------------- MODULE MCBookingGraph ---------------------------
(***************************************************************************)
(* booking-graph.yml with its stages listed in any order, and the edits an *)
(* operator may make to it before a restart.                               *)
(***************************************************************************)
EXTENDS GraphReload

AsFiled == Config(Stages, Product, {ref \in DOMAIN Steps : Steps[ref].compensate})

Restaged(stageDefs) == [AsFiled EXCEPT !.stages = stageDefs]
Without(n) == Restaged(SelectSeq(Stages, LAMBDA def : def.stage # n))

Relistings ==
    {Restaged([i \in DOMAIN Stages |-> Stages[order[i]]]) :
       order \in Permutations(DOMAIN Stages)}

\* A product is withdrawn: its steps, and the product itself.
Withdrawn(product) ==
    LET kept(ref) == Steps[ref].product # product
    IN [Restaged([i \in DOMAIN Stages |->
                    [Stages[i] EXCEPT !.steps = SelectSeq(@, kept)]])
        EXCEPT !.products = @ \ {product}]

Edited ==
    {AsFiled,
     Restaged(Reverse(Stages)),
     Withdrawn("hotel"),
     Without(1),                        \* no fraud check
     Without(4),                        \* no notification; or it is new
     Restaged([i \in DOMAIN Stages |->
                 [Stages[i] EXCEPT !.stage = @ + 1]]),     \* numbered from 1
     Restaged([i \in DOMAIN Stages |->
                 [Stages[i] EXCEPT !.ask = FALSE]]),       \* nobody is asked
     [AsFiled EXCEPT !.compensated = {"itinerary.payment"}]}

FiledOrEdited == Relistings \cup Edited
=============================================================================
