----------------------------- MODULE BookingSaga -----------------------------
(***************************************************************************)
(* The saga of ONE booking, as the orchestrator of apps/api drives it:     *)
(* the HTTP request that opens the booking, the consumers of step          *)
(* completions and of compensation results, the decision endpoint and the  *)
(* sweep that expires decisions.  All of them share the rows of the        *)
(* booking in PostgreSQL and exchange messages with the agents through     *)
(* RabbitMQ.                                                               *)
(*                                                                         *)
(* An actor is one asynchronous invocation of a handler: its program       *)
(* counter names the database statement or publish it awaits next, and     *)
(* every such statement is one atomic step.  Between two of them any other *)
(* actor may run, because the completion listener has no prefetch limit    *)
(* (main.ts) and Node switches handlers at every await.                    *)
(***************************************************************************)
EXTENDS Naturals

CONSTANTS
    Step,           \* the BookingStep rows of the booking
    Stage,          \* Stage[s]: the stage number of row s
    AskStage,       \* the stage joined by all_or_ask
    Compensatable,  \* rows whose graph step has a compensate action
    Publisher,      \* the POST /bookings request
    Client,         \* POST /bookings/:id/decision requests
    Sweep,          \* sweeps of DecisionTimeoutService that may overlap
    Faults,         \* which failures the environment may inject
    MaxFailures     \* how many of them one behaviour may contain

Fault == {"crash", "db", "publish", "redeliver"}

ASSUME GraphAssumption ==
    /\ Stage \in [Step -> Nat]
    /\ AskStage \in Nat
    /\ Compensatable \subseteq Step

ASSUME ActorAssumption ==
    /\ Publisher \notin Step \cup Client \cup Sweep
    /\ Step \cap Client = {}
    /\ Step \cap Sweep = {}
    /\ Client \cap Sweep = {}

ASSUME FaultAssumption == Faults \subseteq Fault /\ MaxFailures \in Nat

\* A completion handler is named by the step it settles (CanSettle lets one
\* completion per step through), so the rows themselves name those actors.
Actor == Step \cup Client \cup Sweep \cup {Publisher}

BookingStatus == {"none", "in_progress", "awaiting_user_decision",
                  "partially_confirmed", "confirmed", "failed"}
StepStatus == {"none", "pending", "in_progress", "success", "failed",
               "compensating", "compensated"}
Outcome == {"success", "failed"}

PC == {"idle", "rows", "claimFirst", "maybeAdvance", "pause", "cancel",
       "failPending", "compensate", "claimUndo", "dispatchUndo", "advance",
       "compete", "dispatch", "confirmed", "partially_confirmed",
       "reject", "accept", "done", "dead"}

VARIABLES
    booking,      \* Booking.status, "none" before the row exists
    deadline,     \* Booking.decisionExpiresAt: "none", in the future, passed
    step,         \* BookingStep.status of each row
    pc,           \* where each actor is
    work,         \* rows an actor read or claimed and will act upon
    dispatched,   \* copies of each dispatch message in the worker queues
    completed,    \* completions waiting in booking.step.completed
    compensate,   \* compensation commands waiting for their agent
    compensated,  \* results waiting in booking.step.compensated
    sent,         \* history: dispatches ever published for each row
    undone,       \* history: compensation commands ever published
    pauses,       \* history: times the booking was paused for a decision
    accepted,     \* history: whether an accept_partial took effect
    failures      \* history: failures injected so far

rows == <<booking, deadline, step>>
control == <<pc, work>>
queues == <<dispatched, completed, compensate, compensated>>
history == <<sent, undone, pauses, accepted>>
vars == <<rows, control, queues, history, failures>>

\* A deadline is stored exactly while a decision is awaited: the update that
\* pauses the booking sets it, each update that resumes or fails it clears it.
TypeOK ==
    /\ booking \in BookingStatus
    /\ deadline \in {"none", "open", "passed"}
    /\ step \in [Step -> StepStatus]
    /\ pc \in [Actor -> PC]
    /\ work \in [Actor -> SUBSET Step]
    /\ dispatched \in [Step -> Nat]
    /\ completed \in [Step -> [Outcome -> Nat]]
    /\ compensate \in [Step -> Nat]
    /\ compensated \in [Step -> Nat]
    /\ sent \in [Step -> Nat]
    /\ undone \in [Step -> Nat]
    /\ pauses \in Nat
    /\ accepted \in BOOLEAN
    /\ failures \in Nat
    /\ booking = "awaiting_user_decision" <=> deadline # "none"

Init ==
    /\ booking = "none"
    /\ deadline = "none"
    /\ step = [s \in Step |-> "none"]
    /\ pc = [a \in Actor |-> "idle"]
    /\ work = [a \in Actor |-> {}]
    /\ dispatched = [s \in Step |-> 0]
    /\ completed = [s \in Step |-> [o \in Outcome |-> 0]]
    /\ compensate = [s \in Step |-> 0]
    /\ compensated = [s \in Step |-> 0]
    /\ sent = [s \in Step |-> 0]
    /\ undone = [s \in Step |-> 0]
    /\ pauses = 0
    /\ accepted = FALSE
    /\ failures = 0

-----------------------------------------------------------------------------
(* Helpers: the graph of the booking, and one actor moving on. *)

RowsAt(k) == {t \in Step : Stage[t] = k}

\* booking-graph.yml: what can be undone belongs to the all_or_ask stage, or is
\* alone in its stage, as the payment is.
ASSUME UndoAssumption ==
    \A s \in Compensatable : Stage[s] = AskStage \/ RowsAt(Stage[s]) = {s}

\* graph.stages[currentIndex + 1]: the rows of the next stage that has any.
HasNext(k) == \E u \in Step : Stage[u] > k
NextRows(k) ==
    {t \in Step : /\ Stage[t] > k
                  /\ \A u \in Step : Stage[u] > k => Stage[t] <= Stage[u]}

\* The stage a handler advances from: its own row's, or, for a client whose
\* acceptance resumes the saga, the all_or_ask stage.
FromStage(a) == IF a \in Step THEN Stage[a] ELSE AskStage

\* A handler that returns: a sweep goes back to waiting for its timer.
Finished(a) == IF a \in Sweep THEN "idle" ELSE "done"
Dropped(a) == IF a \in Sweep THEN "idle" ELSE "dead"

Goto(a, label) == pc' = [pc EXCEPT ![a] = label]

Put(queue, s) == [queue EXCEPT ![s] = @ + 1]
Take(queue, s) == [queue EXCEPT ![s] = @ - 1]

\* The rows of S whose status is from get status to.
Relabel(S, from, to) ==
    [t \in Step |-> IF t \in S /\ step[t] = from THEN to ELSE step[t]]

\* A failure of one of these kinds happens, or goes well.
Fails(kinds) ==
    /\ Faults \cap kinds # {}
    /\ failures < MaxFailures
    /\ failures' = failures + 1
GoesWell == UNCHANGED failures

-----------------------------------------------------------------------------
(* POST /bookings *)

CreateBooking ==
    /\ pc[Publisher] = "idle"
    /\ booking' = "in_progress" /\ deadline' = "none"
    /\ Goto(Publisher, "rows")
    /\ UNCHANGED <<step, work, queues, history>>
    /\ GoesWell

\* All rows are inserted concurrently; one insert that throws fails the
\* request and leaves the rows that were inserted.
CreateRows(inserted) ==
    /\ pc[Publisher] = "rows"
    /\ IF inserted = Step THEN GoesWell ELSE Fails({"db", "crash"})
    /\ step' = Relabel(inserted, "none", "pending")
    /\ Goto(Publisher, IF inserted = Step THEN "claimFirst" ELSE "dead")
    /\ UNCHANGED <<booking, deadline, work, queues, history>>

\* The first stage is the literal 0, not the lowest stage of the graph.
ClaimFirstStage ==
    /\ pc[Publisher] = "claimFirst"
    /\ step' = Relabel(RowsAt(0), "pending", "in_progress")
    /\ work' = [work EXCEPT ![Publisher] = RowsAt(0)]
    /\ Goto(Publisher, IF RowsAt(0) = {} THEN "done" ELSE "dispatch")
    /\ UNCHANGED <<booking, deadline, queues, history>>
    /\ GoesWell

-----------------------------------------------------------------------------
(* The completion consumer: applyCompletion, then maybeAdvance. *)

\* WHERE id = .. AND status = 'in_progress' (every attempt is attempt 0).
SettlesAnyTime(s) == TRUE
CanSettle(s) == step[s] = "in_progress"

ApplyCompletion(s, o) ==
    /\ completed[s][o] > 0
    /\ completed' = [completed EXCEPT ![s][o] = @ - 1]
    /\ IF CanSettle(s)
       THEN /\ step' = [step EXCEPT ![s] = o]
            /\ Goto(s, "maybeAdvance")
       ELSE UNCHANGED <<step, pc>>
    /\ UNCHANGED <<booking, deadline, work, dispatched, compensate,
                   compensated, history>>
    /\ GoesWell

\* What maybeAdvance does next, from one read of the rows of the stage.
HasStatus(S, status) == \E t \in S : step[t] = status
AllSettled(S) == \A t \in S : step[t] \in Outcome
AllSuccess(S) == \A t \in S : step[t] = "success"

StageVerdictEager(s) ==
    LET peers == RowsAt(Stage[s]) IN
    CASE HasStatus(peers, "failed") -> "cancel"
      [] AllSuccess(peers)          -> "advance"
      [] OTHER                      -> "done"

StageVerdictHopeful(s) ==
    IF AllSuccess(RowsAt(Stage[s])) THEN "advance" ELSE "done"

StageVerdict(s) ==
    LET peers == RowsAt(Stage[s])
        ask == Stage[s] = AskStage
    IN IF HasStatus(peers, "failed")
       THEN CASE ask /\ ~AllSettled(peers)          -> "done"
              [] ask /\ AllSettled(peers)
                   /\ HasStatus(peers, "success")    -> "pause"
              [] OTHER                               -> "cancel"
       ELSE IF AllSuccess(peers) THEN "advance" ELSE "done"

MaybeAdvance(s) ==
    /\ pc[s] = "maybeAdvance"
    /\ Goto(s, StageVerdict(s))
    /\ UNCHANGED <<rows, work, queues, history>>
    /\ GoesWell

PauseForDecision(s) ==
    /\ pc[s] = "pause"
    /\ IF booking = "in_progress"
       THEN /\ booking' = "awaiting_user_decision"
            /\ deadline' = "open"
            /\ pauses' = pauses + 1
       ELSE UNCHANGED <<booking, deadline, pauses>>
    /\ Goto(s, "done")
    /\ UNCHANGED <<step, work, queues, sent, undone, accepted>>
    /\ GoesWell

-----------------------------------------------------------------------------
(* advanceFromStage: claim and dispatch the next stage, or finalize. *)

FinalStatus ==
    IF /\ HasStatus(RowsAt(AskStage), "success")
       /\ HasStatus(RowsAt(AskStage), "failed")
    THEN "partially_confirmed" ELSE "confirmed"

\* The bulk update claims the rows that are still pending.
ClaimableUnclaimed(k) == NextRows(k)
Claimable(k) == {t \in NextRows(k) : step[t] = "pending"}

AdvanceFromStage(a) ==
    LET k == FromStage(a)
        claimed == Claimable(k)
        ask == \E t \in claimed : Stage[t] = AskStage
    IN /\ pc[a] = "advance"
       /\ IF HasNext(k)
          THEN /\ step' = [t \in Step |-> IF t \in claimed THEN "in_progress"
                                          ELSE step[t]]
               /\ work' = [work EXCEPT ![a] = claimed]
               /\ Goto(a, IF claimed = {} THEN Finished(a)
                          ELSE IF ask THEN "compete" ELSE "dispatch")
          ELSE /\ Goto(a, FinalStatus)
               /\ UNCHANGED <<step, work>>
       /\ UNCHANGED <<booking, deadline, queues, history>>
       /\ GoesWell

\* The demo competitor takes inventory before the all_or_ask stage goes out.
TakeMarkedItems(a) ==
    /\ pc[a] = "compete"
    /\ Goto(a, "dispatch")
    /\ UNCHANGED <<rows, work, queues, history>>
    /\ GoesWell

\* Promise.allSettled over publishes: they go out in any order, and one that
\* fails is only logged.
DispatchSteps(a, s, published) ==
    /\ pc[a] = "dispatch"
    /\ s \in work[a]
    /\ IF published
       THEN dispatched' = Put(dispatched, s) /\ sent' = Put(sent, s) /\ GoesWell
       ELSE UNCHANGED <<dispatched, sent>> /\ Fails({"publish"})
    /\ work' = [work EXCEPT ![a] = @ \ {s}]
    /\ Goto(a, IF work[a] = {s} THEN Finished(a) ELSE "dispatch")
    /\ UNCHANGED <<rows, completed, compensate, compensated, undone, pauses,
                   accepted>>

FinalizeBooking(a) ==
    /\ pc[a] \in {"confirmed", "partially_confirmed"}
    /\ booking' = IF booking = "in_progress" THEN pc[a] ELSE booking
    /\ Goto(a, Finished(a))
    /\ UNCHANGED <<deadline, step, work, queues, history>>
    /\ GoesWell

-----------------------------------------------------------------------------
(* cancelBooking and rejectAwaitingBooking, then the saga compensation. *)

CancelBooking(s) ==
    /\ pc[s] = "cancel"
    /\ IF booking = "in_progress"
       THEN booking' = "failed" /\ Goto(s, "failPending")
       ELSE UNCHANGED booking /\ Goto(s, "done")
    /\ UNCHANGED <<deadline, step, work, queues, history>>
    /\ GoesWell

RejectKeepingDeadline(a) ==
    /\ pc[a] = "reject"
    /\ IF booking = "awaiting_user_decision"
       THEN booking' = "failed" /\ Goto(a, "failPending")
       ELSE UNCHANGED booking /\ Goto(a, Finished(a))
    /\ UNCHANGED <<deadline, step, work, queues, history>>
    /\ GoesWell

RejectAwaitingBooking(a) ==
    /\ pc[a] = "reject"
    /\ IF booking = "awaiting_user_decision"
       THEN /\ booking' = "failed"
            /\ deadline' = "none"
            /\ Goto(a, "failPending")
       ELSE UNCHANGED <<booking, deadline>> /\ Goto(a, Finished(a))
    /\ UNCHANGED <<step, work, queues, history>>
    /\ GoesWell

FailPendingSteps(a) ==
    /\ pc[a] = "failPending"
    /\ step' = Relabel(Step, "pending", "failed")
    /\ Goto(a, "compensate")
    /\ UNCHANGED <<booking, deadline, work, queues, history>>
    /\ GoesWell

EligibleWithoutPayment ==
    {t \in Compensatable : step[t] = "success" /\ Stage[t] <= AskStage}
Eligible == {t \in Compensatable : step[t] = "success"}

CompensateSuccessfulSteps(a) ==
    /\ pc[a] = "compensate"
    /\ work' = [work EXCEPT ![a] = Eligible]
    /\ Goto(a, IF Eligible = {} THEN Finished(a) ELSE "claimUndo")
    /\ UNCHANGED <<rows, queues, history>>
    /\ GoesWell

\* One conditional update per row, awaited together.  If one throws, or the
\* process dies, the updates already sent still take effect.
ClaimCompensations(a, updated) ==
    LET claimed == {t \in updated : step[t] = "success"}
    IN /\ pc[a] = "claimUndo"
       /\ IF updated = work[a] THEN GoesWell ELSE Fails({"db", "crash"})
       /\ step' = Relabel(updated, "success", "compensating")
       /\ work' = [work EXCEPT ![a] = IF updated = work[a] THEN claimed ELSE {}]
       /\ Goto(a, IF updated # work[a] THEN Dropped(a)
                  ELSE IF claimed = {} THEN Finished(a) ELSE "dispatchUndo")
       /\ UNCHANGED <<booking, deadline, queues, history>>

DispatchCompensations(a, s, published) ==
    /\ pc[a] = "dispatchUndo"
    /\ s \in work[a]
    /\ IF published
       THEN compensate' = Put(compensate, s) /\ undone' = Put(undone, s) /\ GoesWell
       ELSE UNCHANGED <<compensate, undone>> /\ Fails({"publish"})
    /\ work' = [work EXCEPT ![a] = @ \ {s}]
    /\ Goto(a, IF work[a] = {s} THEN Finished(a) ELSE "dispatchUndo")
    /\ UNCHANGED <<rows, dispatched, completed, compensated, sent, pauses,
                   accepted>>

ApplyCompensated(s) ==
    /\ compensated[s] > 0
    /\ compensated' = Take(compensated, s)
    /\ step' = Relabel({s}, "compensating", "compensated")
    /\ UNCHANGED <<booking, deadline, control, dispatched, completed,
                   compensate, history>>
    /\ GoesWell

-----------------------------------------------------------------------------
(* The decision endpoint and the decision sweep. *)

\* Any other status answers 404 or 409 and changes nothing.
Decide(c, decision) ==
    /\ pc[c] = "idle"
    /\ booking = "awaiting_user_decision"
    /\ Goto(c, IF deadline = "passed" \/ decision = "reject_all"
               THEN "reject" ELSE "accept")
    /\ UNCHANGED <<rows, work, queues, history>>
    /\ GoesWell

AcceptPartial(c) ==
    /\ pc[c] = "accept"
    /\ IF booking = "awaiting_user_decision"
       THEN /\ booking' = "in_progress"
            /\ deadline' = "none"
            /\ accepted' = TRUE
            /\ Goto(c, "advance")
       ELSE UNCHANGED <<booking, deadline, accepted>> /\ Goto(c, "done")
    /\ UNCHANGED <<step, work, queues, sent, undone, pauses>>
    /\ GoesWell

ExpireDueDecisions(w) ==
    /\ pc[w] = "idle"
    /\ booking = "awaiting_user_decision"
    /\ deadline = "passed"
    /\ Goto(w, "reject")
    /\ UNCHANGED <<rows, work, queues, history>>
    /\ GoesWell

DeadlinePasses ==
    /\ deadline = "open"
    /\ deadline' = "passed"
    /\ UNCHANGED <<booking, step, control, queues, history>>
    /\ GoesWell

-----------------------------------------------------------------------------
(* The agents, seen from the orchestrator, and the failures. *)

\* An agent answers a dispatch; the retry router answers for one that keeps
\* throwing.  The dispatch is acknowledged before the answer is published.
Work(s, o) ==
    /\ dispatched[s] > 0
    /\ dispatched' = Take(dispatched, s)
    /\ completed' = [completed EXCEPT ![s][o] = @ + 1]
    /\ UNCHANGED <<rows, control, compensate, compensated, history>>
    /\ GoesWell

\* Acknowledged, but the publish fails or the process dies first.
WorkLost(s) ==
    /\ Fails({"publish", "crash"})
    /\ dispatched[s] > 0
    /\ dispatched' = Take(dispatched, s)
    /\ UNCHANGED <<rows, control, completed, compensate, compensated, history>>

\* The answer goes out, but the acknowledgement does not reach the broker.
WorkRedelivered(s, o) ==
    /\ Fails({"redeliver"})
    /\ dispatched[s] > 0
    /\ completed' = [completed EXCEPT ![s][o] = @ + 1]
    /\ UNCHANGED <<rows, control, dispatched, compensate, compensated, history>>

Undo(s) ==
    /\ compensate[s] > 0
    /\ compensate' = Take(compensate, s)
    /\ compensated' = Put(compensated, s)
    /\ UNCHANGED <<rows, control, dispatched, completed, history>>
    /\ GoesWell

\* A release that throws is archived without retry; a lost result likewise
\* leaves the row compensating.
UndoLost(s) ==
    /\ Fails({"db", "publish", "crash"})
    /\ compensate[s] > 0
    /\ compensate' = Take(compensate, s)
    /\ UNCHANGED <<rows, control, dispatched, completed, compensated, history>>

\* A database error inside a consumer dead-letters its message, which the
\* retry router archives: nobody processes it again.
CompletionDeadLettered(s, o) ==
    /\ Fails({"db"})
    /\ completed[s][o] > 0
    /\ completed' = [completed EXCEPT ![s][o] = @ - 1]
    /\ UNCHANGED <<rows, control, dispatched, compensate, compensated, history>>

CompensatedDeadLettered(s) ==
    /\ Fails({"db"})
    /\ compensated[s] > 0
    /\ compensated' = Take(compensated, s)
    /\ UNCHANGED <<rows, control, dispatched, completed, compensate, history>>

\* Dispatching never throws: dispatchSteps settles every publish.
Awaiting == PC \ {"idle", "done", "dead"}
DbAwaiting == Awaiting \ {"dispatch", "dispatchUndo", "rows", "claimUndo"}

HandlerFails(a) ==
    /\ Fails({"db"})
    /\ pc[a] \in DbAwaiting
    /\ Goto(a, Dropped(a))
    /\ work' = [work EXCEPT ![a] = {}]
    /\ UNCHANGED <<rows, queues, history>>

\* The process dies: every running handler is lost, and the broker requeues
\* the completions they had not acknowledged.
HeldOutcome(s) == IF step[s] = "failed" THEN "failed" ELSE "success"

Crash ==
    /\ Fails({"crash"})
    /\ \E a \in Actor : pc[a] \in Awaiting
    /\ pc' = [a \in Actor |-> IF pc[a] \in Awaiting THEN Dropped(a) ELSE pc[a]]
    /\ work' = [a \in Actor |-> {}]
    /\ completed' =
         [s \in Step |-> IF pc[s] \in Awaiting
                         THEN [completed[s] EXCEPT ![HeldOutcome(s)] = @ + 1]
                         ELSE completed[s]]
    /\ UNCHANGED <<rows, dispatched, compensate, compensated, history>>

-----------------------------------------------------------------------------

Publish ==
    \/ CreateBooking
    \/ \E inserted \in SUBSET Step : CreateRows(inserted)
    \/ ClaimFirstStage

\* What an actor that is running does next.
Proceed(a) ==
    \/ AdvanceFromStage(a)
    \/ TakeMarkedItems(a)
    \/ \E s \in work[a], published \in BOOLEAN :
          DispatchSteps(a, s, published) \/ DispatchCompensations(a, s, published)
    \/ FinalizeBooking(a)
    \/ RejectAwaitingBooking(a)
    \/ FailPendingSteps(a)
    \/ CompensateSuccessfulSteps(a)
    \/ \E updated \in SUBSET work[a] : ClaimCompensations(a, updated)

CompletionHandler(s) ==
    \/ \E o \in Outcome : ApplyCompletion(s, o)
    \/ MaybeAdvance(s)
    \/ PauseForDecision(s)
    \/ CancelBooking(s)

DecisionRequest(c) ==
    \/ \E decision \in {"accept_partial", "reject_all"} : Decide(c, decision)
    \/ AcceptPartial(c)

Agent(s) ==
    \/ \E o \in Outcome : Work(s, o)
    \/ Undo(s)
    \/ ApplyCompensated(s)

Failure ==
    \/ \E s \in Step :
         \/ WorkLost(s)
         \/ UndoLost(s)
         \/ CompensatedDeadLettered(s)
         \/ \E o \in Outcome : WorkRedelivered(s, o) \/ CompletionDeadLettered(s, o)
    \/ \E a \in Actor : HandlerFails(a)
    \/ Crash

Next ==
    \/ Publish
    \/ \E a \in Actor : Proceed(a)
    \/ \E s \in Step : CompletionHandler(s) \/ Agent(s)
    \/ \E c \in Client : DecisionRequest(c)
    \/ \E w \in Sweep : ExpireDueDecisions(w)
    \/ DeadlinePasses
    \/ Failure

Spec == Init /\ [][Next]_vars

\* The behaviours in which no handler pauses the booking a second time: what
\* is left when the late pause of the stale_pause run is put aside.
NextAskedOnce == Next /\ pauses' <= 1
SpecAskedOnce == Init /\ [][NextAskedOnce]_vars

\* What goes on by itself: handlers that run are scheduled again, queues that
\* are not empty are consumed, time passes and the timer fires.  Nothing
\* obliges a client to open a request or to decide.
Unaided ==
    \/ \E s \in Step : CompletionHandler(s) \/ Agent(s)
    \/ \E a \in Actor : Proceed(a)
    \/ \E c \in Client : AcceptPartial(c)
    \/ \E w \in Sweep : ExpireDueDecisions(w)
    \/ DeadlinePasses
    \/ ClaimFirstStage
    \/ \E inserted \in SUBSET Step : CreateRows(inserted)

\* No run of the saga goes on for ever, so it is enough that as long as
\* something can go on, something does.
Fairness == WF_vars(Unaided /\ pauses' <= 1)

FairSpec == SpecAskedOnce /\ Fairness

-----------------------------------------------------------------------------
(* Properties *)

Lifecycle == INSTANCE BookingLifecycle

\* No row is dispatched twice and none is compensated twice, however many
\* completions, decisions, sweeps and redeliveries race to start the next
\* stage or to give the booking up: each conditional update
\* (stage-advancement.service.ts:115-121, saga-compensation.service.ts:49-55)
\* hands a row to one caller only.
CommandedOnce == \A s \in Step : sent[s] <= 1 /\ undone[s] <= 1

\* The strengthening of CommandedOnce that every step preserves.  Rows an
\* actor has claimed but not yet published:
Claimed(a) == IF pc[a] \in {"compete", "dispatch"} THEN work[a] ELSE {}
UndoClaimed(a) == IF pc[a] = "dispatchUndo" THEN work[a] ELSE {}

\* Nothing but the publisher runs before the first stage is claimed.
Opening ==
    pc[Publisher] \in {"idle", "rows", "claimFirst"} =>
      /\ booking # "awaiting_user_decision"
      /\ \A a \in Actor \ {Publisher} : pc[a] = "idle"
      /\ \A s \in Step :
           /\ step[s] = IF pc[Publisher] = "claimFirst" THEN "pending" ELSE "none"
           /\ dispatched[s] = 0
           /\ \A o \in Outcome : completed[s][o] = 0

SentOnce ==
    \A s \in Step :
      /\ sent[s] <= 1
      /\ step[s] \in {"none", "pending"} => sent[s] = 0
      /\ \A a \in Actor : s \in Claimed(a) =>
           /\ step[s] \notin {"none", "pending"}
           /\ sent[s] = 0
           /\ \A b \in Actor \ {a} : s \notin Claimed(b)

UndoneOnce ==
    \A s \in Step :
      /\ undone[s] <= 1
      /\ step[s] \notin {"compensating", "compensated"} => undone[s] = 0
      /\ \A a \in Actor : s \in UndoClaimed(a) =>
           /\ step[s] \in {"compensating", "compensated"}
           /\ undone[s] = 0
           /\ \A b \in Actor \ {a} : s \notin UndoClaimed(b)

IInv == TypeOK /\ Opening /\ SentOnce /\ UndoneOnce

\* The invariant of the behaviours that ask once, from which FailedIsFrozen and
\* the refinement of BookingLifecycle follow.  While the booking has not failed,
\* a stage is begun as a whole and only after every earlier one is cleared.
Begun(s) == step[s] \notin {"none", "pending"}

InOrder ==
    booking # "failed" => \A s, u \in Step : Begun(s) =>
      /\ step[s] \notin {"compensating", "compensated"}
      /\ Stage[u] < Stage[s] => Lifecycle!Cleared(u)
      /\ Stage[u] = Stage[s] => Begun(u)

\* Once it failed, a row that failed marks how far it had come: what is before
\* that row or beside it was begun, what is after it never will be.
Blocks(t) ==
    /\ step[t] = "failed"
    /\ \A u \in Step : IF Stage[u] <= Stage[t] THEN Begun(u)
                       ELSE step[u] \in {"pending", "failed"}
Ended ==
    /\ booking = "failed" => \E t \in Step : Blocks(t)
    /\ booking \in {"confirmed", "partially_confirmed"} =>
         \A s \in Step : Lifecycle!Cleared(s)

Created ==
    /\ \A s, u \in Step : Begun(s) => step[u] # "none"
    /\ pc[Publisher] = "idle" <=> booking = "none"
    /\ pc[Publisher] \in {"rows", "claimFirst"} => booking = "in_progress"

AskedOnce ==
    /\ booking = "awaiting_user_decision" => Lifecycle!Mixed /\ ~accepted
    /\ booking = "awaiting_user_decision" \/ accepted => pauses >= 1

\* What an actor has read still holds, or no longer matters.
Reached(k) ==
    /\ \E t \in RowsAt(k) : Begun(t)
    /\ \A u \in Step : Stage[u] <= k => Lifecycle!Cleared(u)
Past(k) == \A t \in NextRows(k) : step[t] # "pending"

Informed(a) ==
    /\ pc[a] \in {"failPending", "compensate", "claimUndo", "dispatchUndo"}
         => booking = "failed"
    /\ pc[a] = "claimUndo" => work[a] \subseteq Compensatable
    /\ pc[a] = "maybeAdvance" => a \in Step /\ Begun(a)
    /\ pc[a] = "advance" =>
         IF booking = "failed" THEN Past(FromStage(a)) ELSE Reached(FromStage(a))
    /\ pc[a] = "pause" => booking = "failed" \/ Lifecycle!Mixed
    /\ pc[a] = "cancel" => Lifecycle!Hopeless
    /\ pc[a] \in {"confirmed", "partially_confirmed"} =>
         \/ booking = "failed"
         \/ /\ \A s \in Step : Lifecycle!Cleared(s)
            /\ pc[a] = "partially_confirmed" <=> Lifecycle!Mixed

RowsInv == InOrder /\ Ended /\ Created /\ AskedOnce
OrderInv ==
    /\ IInv /\ RowsInv
    /\ \A a \in Actor : Informed(a)

\* A booking that has failed has no reservation or charge still in flight:
\* compensateSuccessfulSteps reads the successful rows once, so one that
\* succeeds later would never be undone.
FailedIsFrozen ==
    booking = "failed" => \A s \in Compensatable : step[s] # "in_progress"

\* Nobody is running and no message is under way.
Quiet ==
    /\ \A a \in Actor : pc[a] \notin Awaiting
    /\ \A s \in Step :
         /\ dispatched[s] = 0 /\ compensate[s] = 0 /\ compensated[s] = 0
         /\ \A o \in Outcome : completed[s][o] = 0

\* When everything has come to rest, nothing a failed booking reserved or
\* charged is left: booking-graph.yml:117-118 promises that a refusal and an
\* expired decision "reject_all_and_compensate", cancelBooking does the same.
RejectedIsUndone ==
    booking = "failed" /\ Quiet =>
      \A s \in Compensatable : step[s] \notin {"success", "compensating"}

\* At rest the booking has its final status or waits for the client: no
\* completion of a stage is dropped between the handlers that race to apply it
\* ("only the active attempt may settle the step and advance its stage",
\* step-completion.service.ts:19-20).
NeverStranded ==
    booking # "none" /\ Quiet =>
      booking \in Lifecycle!Final \cup {"awaiting_user_decision"}

\* The invariant from which the two follow where messages are redelivered but
\* none is lost and no handler dies: whatever is left to do has a doer.
RedeliveryOnly == Faults \subseteq {"redeliver"}

Unanswered ==
    \A s \in Step : step[s] \in {"none", "pending", "in_progress"} => pc[s] = "idle"

\* A row in progress is still to be published, with its agent, or answered.
InFlight ==
    \A s \in Step : step[s] = "in_progress" =>
      \/ dispatched[s] > 0
      \/ \E o \in Outcome : completed[s][o] > 0
      \/ \E a \in Actor : s \in Claimed(a)

\* A booking in progress has a stage that nothing has gone beyond, with a row in
\* progress or a handler that is about to judge the stage or to leave it.
Driving == {"maybeAdvance", "advance", "pause", "cancel",
            "confirmed", "partially_confirmed"}
Foremost(t) == Begun(t) /\ \A u \in Step : Stage[u] > Stage[t] => ~Begun(u)
Moving(k) ==
    \/ \E u \in RowsAt(k) : step[u] = "in_progress"
    \/ \E a \in Actor : pc[a] \in Driving /\ FromStage(a) = k
Driven ==
    booking = "in_progress" =>
      \/ pc[Publisher] \in {"rows", "claimFirst"}
      \/ \E t \in Step : Foremost(t) /\ Moving(Stage[t])

\* A row to be undone is about to be read, claimed, published or answered.
Undoing ==
    /\ booking = "failed" =>
         \/ \E a \in Actor : pc[a] \in {"failPending", "compensate"}
         \/ \A s \in Compensatable : step[s] = "success" =>
              \E a \in Actor : pc[a] = "claimUndo" /\ s \in work[a]
    /\ \A s \in Step : step[s] = "compensating" =>
         \/ \E a \in Actor : pc[a] = "dispatchUndo" /\ s \in work[a]
         \/ compensate[s] > 0
         \/ compensated[s] > 0

WorkInv == Unanswered /\ InFlight /\ Driven /\ Undoing

\* The rows keep the promise of BookingLifecycle.
LifecycleSpec == Lifecycle!Spec

\* Every booking comes to a final status: confirmed, partly confirmed or
\* failed, whatever the agents answer and whether or not the client decides.
Ends == booking # "none" ~> booking \in Lifecycle!Final \/ failures > 0

\* A booking that failed ends with everything it had reserved undone.
Undoes ==
    booking = "failed" ~> failures > 0 \/
      \A s \in Compensatable : step[s] \notin {"success", "compensating"}
=============================================================================
