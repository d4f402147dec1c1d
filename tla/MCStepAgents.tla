---------------------------- MODULE MCStepAgents ----------------------------
(***************************************************************************)
(* A hotel availability check for two rooms, a flight availability check   *)
(* for two seats and the payment of a declined user.                       *)
(***************************************************************************)
EXTENDS StepAgents, TLC

CONSTANTS hotel, flight, payment

AgentOf == hotel :> "hotel.availability" @@ flight :> "flight.availability"
           @@ payment :> "payment"
OnSale == hotel :> 2 @@ flight :> 1
TwoEach == [d \in Dispatch |-> 2]
=============================================================================
