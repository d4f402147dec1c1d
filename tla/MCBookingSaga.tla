--------------------------- MODULE MCBookingSaga ---------------------------
(***************************************************************************)
(* The saga of a booking of Flights flight legs and Hotels hotel stays.  A *)
(* row is known by its stepIndex; the rows of a .cfg are written out, and  *)
(* checked against those the graph of booking-graph.yml places.            *)
(***************************************************************************)
EXTENDS BookingSaga, BookingGraph

CONSTANTS Flights, Hotels

ASSUME RowsAssumption ==
    LET row == Placements(Stages, [flight |-> Flights, hotel |-> Hotels])
    IN /\ Step = DOMAIN row
       /\ \A s \in Step : Stage[s] = row[s].stage
       /\ Compensatable = {s \in Step : Steps[row[s].ref].compensate}
       /\ \A i \in DOMAIN Stages : Stages[i].ask <=> Stages[i].stage = AskStage

\* Stage[s] for one item, two items and three items.
StageOne   == <<0, 1, 2, 3, 4>>
StageTwo   == <<0, 0, 1, 2, 2, 3, 4>>
StageThree == <<0, 0, 0, 1, 2, 2, 2, 3, 4>>

\* Requests are interchangeable, and so are sweeps.
Symmetry == Permutations(Client) \cup Permutations(Sweep)
=============================================================================
