----------------------------- MODULE MCAllotment -----------------------------
(***************************************************************************)
(* Three items compete for three units: a and b ask for one, c for two, so *)
(* they do not all fit, yet any two of them do.                            *)
(***************************************************************************)
EXTENDS Allotment

CONSTANTS a, b, c

MCItem == {a, b, c}
MCDemand == [i \in MCItem |-> IF i = c THEN 2 ELSE 1]
=============================================================================
