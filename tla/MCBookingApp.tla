---------------------------- MODULE MCBookingApp ----------------------------
(***************************************************************************)
(* One flight with a single seat left and one type of room with two.       *)
(***************************************************************************)
EXTENDS BookingApp

CONSTANTS f1, r1

Few == [i \in {f1, r1} |-> IF i = f1 THEN 1 ELSE 2]
=============================================================================
