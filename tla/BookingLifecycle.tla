-------------------------- MODULE BookingLifecycle --------------------------
(***************************************************************************)
(* What a booking promises to whoever watches its rows (the client polling *)
(* GET /bookings/:id): the statuses of the booking and of its steps, and   *)
(* the order in which they may change.  No handler, queue or failure       *)
(* appears here; BookingSaga is shown to implement it.                     *)
(***************************************************************************)
EXTENDS Naturals

CONSTANTS
    Step,           \* the rows of the booking
    Stage,          \* Stage[s]: the stage of row s
    AskStage,       \* the stage whose partial failure the client decides on
    Compensatable   \* the rows that can be undone

VARIABLES
    booking,        \* the status of the booking
    step,           \* the status of each row
    accepted        \* whether the client took what could be reserved

vars == <<booking, step, accepted>>

Open == booking = "in_progress"
Final == {"confirmed", "partially_confirmed", "failed"}

Relabelled(S, from, to) ==
    [s \in Step |-> IF s \in S /\ step[s] = from THEN to ELSE step[s]]

Asked == {s \in Step : Stage[s] = AskStage}

\* Some of what was asked for could be reserved, some could not.
Mixed ==
    /\ \A s \in Asked : step[s] \in {"success", "failed"}
    /\ \E s \in Asked : step[s] = "success"
    /\ \E s \in Asked : step[s] = "failed"

\* A row that does not stand in the way of what comes after it.
Cleared(s) == step[s] = "success" \/ (accepted /\ Mixed /\ s \in Asked)

Init ==
    /\ booking = "none"
    /\ step = [s \in Step |-> "none"]
    /\ accepted = FALSE

Request ==
    /\ booking = "none"
    /\ booking' = "in_progress"
    /\ UNCHANGED <<step, accepted>>

AddRows(S) ==
    /\ Open
    /\ step' = Relabelled(S, "none", "pending")
    /\ UNCHANGED <<booking, accepted>>

\* A stage starts once every row of every earlier stage is cleared.
Begin(k) ==
    /\ Open
    /\ \A s \in Step : Stage[s] < k => Cleared(s)
    /\ step' = Relabelled({s \in Step : Stage[s] = k}, "pending", "in_progress")
    /\ UNCHANGED <<booking, accepted>>

Settle(s, outcome) ==
    /\ step[s] = "in_progress"
    /\ step' = [step EXCEPT ![s] = outcome]
    /\ UNCHANGED <<booking, accepted>>

Ask ==
    /\ Open
    /\ Mixed
    /\ ~accepted
    /\ booking' = "awaiting_user_decision"
    /\ UNCHANGED <<step, accepted>>

Accept ==
    /\ booking = "awaiting_user_decision"
    /\ booking' = "in_progress"
    /\ accepted' = TRUE
    /\ UNCHANGED step

\* Somebody gave up on the booking: a row failed that the client could not
\* be asked about, or the client (or the deadline) refused.
Hopeless ==
    \/ \E s \in Step \ Asked : step[s] = "failed"
    \/ \E s \in Asked : step[s] = "failed" /\ \A t \in Asked : step[t] = "failed"

Fail ==
    /\ \/ booking = "awaiting_user_decision"
       \/ Open /\ Hopeless
    /\ booking' = "failed"
    /\ UNCHANGED <<step, accepted>>

FailPending ==
    /\ booking = "failed"
    /\ step' = Relabelled(Step, "pending", "failed")
    /\ UNCHANGED <<booking, accepted>>

Undo(S) ==
    /\ booking = "failed"
    /\ step' = Relabelled(S, "success", "compensating")
    /\ UNCHANGED <<booking, accepted>>

Undone(s) ==
    /\ step' = Relabelled({s}, "compensating", "compensated")
    /\ UNCHANGED <<booking, accepted>>

Confirm ==
    /\ Open
    /\ \A s \in Step : Cleared(s)
    /\ booking' = IF Mixed THEN "partially_confirmed" ELSE "confirmed"
    /\ UNCHANGED <<step, accepted>>

Next ==
    \/ Request \/ Ask \/ Accept \/ Fail \/ FailPending \/ Confirm
    \/ \E S \in SUBSET Step : AddRows(S)
    \/ \E s \in Step : Begin(Stage[s]) \/ Undone(s)
    \/ \E s \in Step, outcome \in {"success", "failed"} : Settle(s, outcome)
    \/ \E S \in SUBSET Compensatable : Undo(S)

Spec == Init /\ [][Next]_vars
=============================================================================
