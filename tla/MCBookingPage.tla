--------------------------- MODULE MCBookingPage ---------------------------
(***************************************************************************)
(* A booking of two allotments and the payment after them, the rows whose  *)
(* statuses take every path through BookingLifecycle.                      *)
(***************************************************************************)
EXTENDS BookingPage

StageOfRows == <<0, 0, 1>>
=============================================================================
