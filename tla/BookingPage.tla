----------------------------- MODULE BookingPage -----------------------------
(***************************************************************************)
(* The confirmation page of apps/web, which watches one booking by polling *)
(* GET /bookings/:id and posts the decision of the user.  The service is   *)
(* the one BookingLifecycle promises; the page sees it through answers     *)
(* that may be late, and that findById puts together from two reads.       *)
(***************************************************************************)
EXTENDS Naturals

CONSTANTS
    Step, Stage, AskStage, Compensatable,   \* as in BookingLifecycle
    MaxFailures                             \* requests that may fail

ASSUME PageAssumption == MaxFailures \in Nat

VARIABLES
    booking, step, accepted,   \* the service: BookingLifecycle
    post,         \* the POST that opened the booking
    shown,        \* confirmedBooking, the snapshot on display
    timer,        \* whether the timeout of the polling effect is running
    get,          \* the GET of the poll, and the one that follows a decision
    answer,       \* what the service has read for each of them
    decision,     \* the POST of the decision under way
    failures      \* history: requests that failed

service == <<booking, step, accepted>>
requests == <<get, answer>>
page == <<post, shown, timer, requests, decision>>
vars == <<service, page, failures>>

Service == INSTANCE BookingLifecycle

RowStatus == {"none", "pending", "in_progress", "success", "failed",
              "compensating", "compensated"}
BookingStatus == {"none", "in_progress", "awaiting_user_decision"} \cup Service!Final
Snapshot == [booking : BookingStatus, step : [Step -> RowStatus]]
Nothing == [booking |-> "none", step |-> [s \in Step |-> "none"]]

Get == {"poll", "decision"}

TypeOK ==
    /\ booking \in BookingStatus
    /\ step \in [Step -> RowStatus]
    /\ accepted \in BOOLEAN
    /\ post \in {"sent", "answered"}
    /\ shown \in Snapshot
    /\ timer \in BOOLEAN
    /\ get \in [Get -> {"idle", "sent", "reading", "answered"}]
    /\ answer \in [Get -> Snapshot]
    /\ decision \in {"none", "accept_partial", "reject_all"}
    /\ failures \in Nat

Init ==
    /\ Service!Init
    /\ post = "sent"
    /\ shown = Nothing
    /\ timer = FALSE
    /\ get = [g \in Get |-> "idle"]
    /\ answer = [g \in Get |-> Nothing]
    /\ decision = "none"
    /\ failures = 0

-----------------------------------------------------------------------------

Fails == failures < MaxFailures /\ failures' = failures + 1
GoesWell == UNCHANGED failures

TERMINAL_STEP_STATUSES == {"success", "failed", "compensated"}
StopPollingEarly(rows) == \E s \in Step : rows[s] \in TERMINAL_STEP_STATUSES
StopPolling(rows) == \A s \in Step : rows[s] \in TERMINAL_STEP_STATUSES

\* setConfirmedBooking: the effect of the last snapshot is cleaned up, with
\* its timeout and its request, and a new timeout starts unless every row of
\* the new snapshot is terminal.
Show(snapshot, gets) ==
    /\ shown' = snapshot
    /\ timer' = ~StopPolling(snapshot.step)
    /\ get' = [gets EXCEPT !["poll"] = "idle"]

(* POST /bookings returns the rows as they were inserted, the first stage  *)
(* marked in progress, whatever happened to them since.                    *)

FirstStage == {s \in Step : Stage[s] = 0}
Submitted ==
    /\ post = "sent"
    /\ \A s \in Step : /\ step[s] # "none"
                       /\ s \in FirstStage => step[s] # "pending"
    /\ post' = "answered"
    /\ Show([booking |-> "in_progress",
             step |-> [s \in Step |-> IF s \in FirstStage THEN "in_progress"
                                      ELSE "pending"]], get)
    /\ UNCHANGED <<service, answer, decision>>
    /\ GoesWell

-----------------------------------------------------------------------------
(* The poll. *)

PollFires ==
    /\ timer
    /\ timer' = FALSE
    /\ get' = [get EXCEPT !["poll"] = "sent"]
    /\ UNCHANGED <<service, post, shown, answer, decision>>
    /\ GoesWell

\* findById awaits the booking first and its rows afterwards: the rows that
\* ReadBooking sees are replaced by ReadRows.
ReadBooking(g) ==
    /\ get[g] = "sent"
    /\ get' = [get EXCEPT ![g] = "reading"]
    /\ answer' = [answer EXCEPT ![g] = [booking |-> booking, step |-> step]]
    /\ UNCHANGED <<service, post, shown, timer, decision>>
    /\ GoesWell

ReadBookingLast(g) ==
    /\ get[g] = "reading"
    /\ get' = [get EXCEPT ![g] = "answered"]
    /\ answer' = [answer EXCEPT ![g].booking = booking]
    /\ UNCHANGED <<service, post, shown, timer, decision>>
    /\ GoesWell

ReadRowsOfStage(g) ==
    /\ get[g] = "reading"
    /\ get' = [get EXCEPT ![g] = "answered"]
    /\ answer' = [answer EXCEPT ![g].step = [s \in FirstStage |-> step[s]]]
    /\ UNCHANGED <<service, post, shown, timer, decision>>
    /\ GoesWell

ReadRows(g) ==
    /\ get[g] = "reading"
    /\ get' = [get EXCEPT ![g] = "answered"]
    /\ answer' = [answer EXCEPT ![g].step = step]
    /\ UNCHANGED <<service, post, shown, timer, decision>>
    /\ GoesWell

PollAnswered ==
    /\ get["poll"] = "answered"
    /\ Show(answer["poll"], get)
    /\ UNCHANGED <<service, post, answer, decision>>
    /\ GoesWell

\* The error is logged; the snapshot stays, so the effect does not run again.
PollFails ==
    /\ get["poll"] # "idle"
    /\ Fails
    /\ get' = [get EXCEPT !["poll"] = "idle"]
    /\ UNCHANGED <<service, post, shown, timer, answer, decision>>

-----------------------------------------------------------------------------
(* The decision: POST, then a GET of its own, then the snapshot replaced.   *)

\* The buttons are disabled while a decision is under way.
Decide(choice) ==
    /\ shown.booking = "awaiting_user_decision"
    /\ decision = "none" /\ get["decision"] = "idle"
    /\ decision' = choice
    /\ UNCHANGED <<service, post, shown, timer, requests>>
    /\ GoesWell

\* The service applies it, and the page asks for the booking as it is now.
\* What a rejection does to the rows may not be over when the answer comes.
DecisionTaken ==
    /\ \/ decision = "accept_partial" /\ Service!Accept
       \/ decision = "reject_all" /\ booking = "awaiting_user_decision" /\ Service!Fail
    /\ decision' = "none"
    /\ get' = [get EXCEPT !["decision"] = "sent"]
    /\ UNCHANGED <<post, shown, timer, answer>>
    /\ GoesWell

\* 409: resolved by somebody else, or by the deadline.  The page shows an
\* error and leaves its snapshot to the poll.
DecisionRefused ==
    /\ decision # "none"
    /\ booking # "awaiting_user_decision"
    /\ decision' = "none"
    /\ UNCHANGED <<service, post, shown, timer, requests>>
    /\ GoesWell

DecisionAnswered ==
    /\ get["decision"] = "answered"
    /\ Show(answer["decision"], [get EXCEPT !["decision"] = "idle"])
    /\ UNCHANGED <<service, post, answer, decision>>
    /\ GoesWell

\* The POST, or the GET after it, fails.
DecisionFails ==
    /\ Fails
    /\ \/ decision # "none"
       \/ get["decision"] # "idle"
    /\ decision' = "none"
    /\ get' = [get EXCEPT !["decision"] = "idle"]
    /\ UNCHANGED <<service, post, shown, timer, answer>>

\* "Book another trip": the effect is cleaned up, a decision goes on.
Reset ==
    /\ shown # Nothing
    /\ shown' = Nothing
    /\ timer' = FALSE
    /\ get' = [get EXCEPT !["poll"] = "idle"]
    /\ UNCHANGED <<service, post, answer, decision>>
    /\ GoesWell

-----------------------------------------------------------------------------

ServiceStep == Service!Next /\ UNCHANGED page /\ GoesWell

Polling == PollFires \/ PollAnswered \/ DecisionAnswered
Serving(g) == ReadBooking(g) \/ ReadRows(g)

Next ==
    \/ ServiceStep
    \/ Submitted
    \/ Polling
    \/ \E g \in Get : Serving(g)
    \/ PollFails
    \/ \E choice \in {"accept_partial", "reject_all"} : Decide(choice)
    \/ DecisionTaken
    \/ DecisionRefused
    \/ DecisionFails
    \/ Reset

Spec == Init /\ [][Next]_vars

\* Timers fire and requests are answered.  Nothing is assumed of the service's
\* progress, nor of the user.
Fairness ==
    /\ WF_vars(PollFires)
    /\ WF_vars(PollAnswered)
    /\ WF_vars(DecisionAnswered)
    /\ \A g \in Get : WF_vars(Serving(g))

FairSpec == Spec /\ Fairness

-----------------------------------------------------------------------------
(* Properties *)

Asked == {s \in Step : Stage[s] = AskStage}

\* What a final status says of the rows: all of the booking, or all but what
\* was given up of the asked stage when the client kept the rest.
Fulfilled(status, rows) ==
    /\ status = "confirmed" => \A s \in Step : rows[s] = "success"
    /\ status = "partially_confirmed" =>
         /\ \A s \in Step : rows[s] = "success" \/ (s \in Asked /\ rows[s] = "failed")
         /\ \E s \in Asked : rows[s] = "success"
         /\ \E s \in Asked : rows[s] = "failed"

\* A page that says "confirmed" shows every row successful; one that says
\* "partially confirmed" shows at least one item of the asked stage kept, at
\* least one failed, and every other row successful.  findById reads the
\* booking before its rows (booking.service.ts:137-156).
ConfirmedIsComplete == Fulfilled(shown.booking, shown.step)

\* The user is asked what to keep only when the page shows how every item
\* fared ("N succeeded and M failed", BookingConfirmation.tsx:126).
OfferIsSettled ==
    shown.booking = "awaiting_user_decision" =>
      \A s \in Asked : shown.step[s] \notin {"none", "pending", "in_progress"}

\* The strengthening every step preserves: a status that was read first is as
\* true of the rows that are read after it, because neither is ever taken back.
AskedSettled(rows) ==
    \A s \in Asked : rows[s] \notin {"none", "pending", "in_progress"}

Known ==
    /\ Fulfilled(booking, step)
    /\ booking = "awaiting_user_decision" => AskedSettled(step)
    /\ \A g \in Get :
         /\ answer[g].booking \in {"confirmed", "partially_confirmed"} =>
              booking = answer[g].booking
         /\ Fulfilled(answer[g].booking, answer[g].step)
         /\ answer[g].booking = "awaiting_user_decision" =>
              AskedSettled(step) /\ AskedSettled(answer[g].step)

IInv == TypeOK /\ Known /\ ConfirmedIsComplete /\ OfferIsSettled

AllTerminal(rows) == \A s \in Step : rows[s] \in {"success", "failed", "compensated"}

\* "Poll until every step reaches a terminal status" (App.tsx:101-102), as
\* long as every request is answered: however late polls and decisions are,
\* the page does not stop at an older snapshot with open rows.
PollsToTheEnd ==
    ([](failures = 0) /\ <>[]AllTerminal(step)) =>
      <>[](shown = Nothing \/ AllTerminal(shown.step))

\* "Payment fails after seats and rooms are reserved, so you can watch them
\* get released (compensated)" (ProjectIntroDialog.tsx:26-27).
ReleaseIsWatched ==
    \A s \in Step : step[s] = "compensated" ~>
                      (shown = Nothing \/ shown.step[s] = "compensated")
=============================================================================
