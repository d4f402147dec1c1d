----------------------------- MODULE RetryRouter -----------------------------
(***************************************************************************)
(* What becomes of a message that a consumer rejects.  Every worker queue  *)
(* dead-letters to the retry inbox, where RetryRouterService either parks  *)
(* the message in a delay queue that hands it back to the worker, or, once *)
(* its retries are used up, publishes a failed completion on the worker's  *)
(* behalf and archives the message.  Messages of the other queues          *)
(* (compensation commands, completions) are archived at once.              *)
(*                                                                         *)
(* A copy of a message is told apart by the rejections its x-death header  *)
(* records.  The router confirms each publish before it acknowledges, so a *)
(* failure between the two duplicates a copy and never loses one.          *)
(***************************************************************************)
EXTENDS Naturals, FiniteSetsExt

CONSTANTS
    Dispatch,     \* step dispatches in the primary worker queues
    Foreign,      \* messages of the queues the router has no route for
    Slot,         \* deliveries the router handles at once (prefetchCount)
    MaxRetries,   \* retry.max of the dispatched steps
    MaxFailures   \* failures of workers and router one behaviour may contain

ASSUME RouterAssumption ==
    /\ Dispatch \cap Foreign = {}
    /\ IsFiniteSet(Slot)
    /\ MaxRetries \in Nat
    /\ MaxFailures \in Nat

Message == Dispatch \cup Foreign

\* No copy is rejected more often than this: see RetriesAreBounded.
Deaths == 0..(MaxRetries + 1)

Copy == [message : Message, deaths : Deaths]
NoCopy == [message |-> "none", deaths |-> 0]

VARIABLES
    queue,        \* copies in the queue of their consumer
    inbox,        \* copies in booking.retry.inbox
    delayed,      \* copies in <queue>.retry.<delay>
    slot,         \* the copy each router invocation holds, unacknowledged
    pc,           \* the publish it awaits next
    archived,     \* copies of each message in booking.dlq
    answered,     \* completions workers published for each dispatch
    exhausted,    \* failed completions the router published for each dispatch
    rejections,   \* history: how often each message was rejected
    failures      \* history: failures so far

answers == <<answered, exhausted>>
router == <<slot, pc>>
vars == <<queue, inbox, delayed, router, archived, answers, rejections, failures>>

\* An invocation holds its copy exactly as long as it runs: each way through
\* handle ends in an acknowledgement or a requeue, and frees its slot.
TypeOK ==
    /\ queue \in [Copy -> Nat]
    /\ inbox \in [Copy -> Nat]
    /\ delayed \in [Copy -> Nat]
    /\ slot \in [Slot -> Copy \cup {NoCopy}]
    /\ pc \in [Slot -> {"idle", "route", "archive", "ack"}]
    /\ archived \in [Message -> Nat]
    /\ answered \in [Dispatch -> Nat]
    /\ exhausted \in [Dispatch -> Nat]
    /\ rejections \in [Message -> Nat]
    /\ failures \in Nat
    /\ \A r \in Slot : pc[r] = "idle" <=> slot[r] = NoCopy

Init ==
    /\ queue = [c \in Copy |-> IF c.deaths = 0 THEN 1 ELSE 0]
    /\ inbox = [c \in Copy |-> 0]
    /\ delayed = [c \in Copy |-> 0]
    /\ slot = [r \in Slot |-> NoCopy]
    /\ pc = [r \in Slot |-> "idle"]
    /\ archived = [m \in Message |-> 0]
    /\ answered = [d \in Dispatch |-> 0]
    /\ exhausted = [d \in Dispatch |-> 0]
    /\ rejections = [m \in Message |-> 0]
    /\ failures = 0

-----------------------------------------------------------------------------

Put(copies, c) == [copies EXCEPT ![c] = @ + 1]
Take(copies, c) == [copies EXCEPT ![c] = @ - 1]
Goto(r, label) == pc' = [pc EXCEPT ![r] = label]

Fails == failures < MaxFailures /\ failures' = failures + 1

(* The consumers. *)

\* The message is processed, whatever the business outcome, and acknowledged.
\* An answer that is then lost is WorkLost of BookingSaga.
Process(c) ==
    /\ queue[c] > 0
    /\ queue' = Take(queue, c)
    /\ answered' = IF c.message \in Dispatch THEN Put(answered, c.message)
                   ELSE answered
    /\ UNCHANGED <<inbox, delayed, router, archived, exhausted, rejections,
                   failures>>

\* Processed and answered, but the acknowledgement is lost: the broker
\* redelivers the copy, which is no rejection.
ProcessTwice(c) ==
    /\ c.message \in Dispatch
    /\ queue[c] > 0
    /\ Fails
    /\ answered' = Put(answered, c.message)
    /\ UNCHANGED <<queue, inbox, delayed, router, archived, exhausted, rejections>>

\* nack(message, false, false): the broker counts the rejection in x-death
\* and dead-letters the copy to the retry inbox.
Rejected(c) == [c EXCEPT !.deaths = @ + 1]

Reject(c) ==
    /\ queue[c] > 0
    /\ Rejected(c) \in Copy
    /\ queue' = Take(queue, c)
    /\ inbox' = Put(inbox, Rejected(c))
    /\ rejections' = Put(rejections, c.message)
    /\ UNCHANGED <<delayed, router, archived, answers, failures>>

-----------------------------------------------------------------------------
(* The retry router. *)

Deliver(r, c) ==
    /\ pc[r] = "idle"
    /\ inbox[c] > 0
    /\ inbox' = Take(inbox, c)
    /\ slot' = [slot EXCEPT ![r] = c]
    /\ Goto(r, "route")
    /\ UNCHANGED <<queue, delayed, archived, answers, rejections, failures>>

\* getExponentialBackoffMs answers null when the retries are used up.
RetriedOnceLess(c) == c.deaths < MaxRetries
MayRetry(c) == c.deaths <= MaxRetries

\* A primary message with a rejection on record; any other is archived.
Routable(c) == c.message \in Dispatch /\ c.deaths > 0

ScheduleRetry(r) ==
    /\ pc[r] = "route"
    /\ Routable(slot[r]) /\ MayRetry(slot[r])
    /\ delayed' = Put(delayed, slot[r])
    /\ Goto(r, "ack")
    /\ UNCHANGED <<queue, inbox, slot, archived, answers, rejections, failures>>

ArchiveUnreported(r) ==
    /\ pc[r] = "route"
    /\ Routable(slot[r]) /\ ~MayRetry(slot[r])
    /\ archived' = Put(archived, slot[r].message)
    /\ Goto(r, "ack")
    /\ UNCHANGED <<queue, inbox, delayed, slot, answers, rejections, failures>>

PublishFailedCompletion(r) ==
    /\ pc[r] = "route"
    /\ Routable(slot[r]) /\ ~MayRetry(slot[r])
    /\ exhausted' = Put(exhausted, slot[r].message)
    /\ Goto(r, "archive")
    /\ UNCHANGED <<queue, inbox, delayed, slot, archived, answered, rejections,
                   failures>>

ArchiveUnacked(r) ==
    /\ pc[r] = "archive" \/ (pc[r] = "route" /\ ~Routable(slot[r]))
    /\ archived' = Put(archived, slot[r].message)
    /\ Goto(r, "idle")
    /\ UNCHANGED <<queue, inbox, delayed, slot, answers, rejections, failures>>

Archive(r) ==
    /\ pc[r] = "archive" \/ (pc[r] = "route" /\ ~Routable(slot[r]))
    /\ archived' = Put(archived, slot[r].message)
    /\ Goto(r, "ack")
    /\ UNCHANGED <<queue, inbox, delayed, slot, answers, rejections, failures>>

AckForgotten(r) ==
    /\ pc[r] = "ack"
    /\ inbox' = Put(inbox, slot[r])
    /\ slot' = [slot EXCEPT ![r] = NoCopy]
    /\ Goto(r, "idle")
    /\ UNCHANGED <<queue, delayed, archived, answers, rejections, failures>>

Ack(r) ==
    /\ pc[r] = "ack"
    /\ slot' = [slot EXCEPT ![r] = NoCopy]
    /\ Goto(r, "idle")
    /\ UNCHANGED <<queue, inbox, delayed, archived, answers, rejections, failures>>

\* A publish that is refused or never confirmed, a closed channel, a crash:
\* nack(message, false, true), or the broker itself, puts the copy back.
Dropped(copies, c) == copies
Requeued(copies, c) == Put(copies, c)

RouterFails(r) ==
    /\ pc[r] # "idle"
    /\ Fails
    /\ inbox' = Requeued(inbox, slot[r])
    /\ slot' = [slot EXCEPT ![r] = NoCopy]
    /\ Goto(r, "idle")
    /\ UNCHANGED <<queue, delayed, archived, answers, rejections>>

DelayExpiresToInbox(c) ==
    /\ delayed[c] > 0
    /\ delayed' = Take(delayed, c)
    /\ inbox' = Put(inbox, c)
    /\ UNCHANGED <<queue, router, archived, answers, rejections, failures>>

\* The TTL of the delay queue expires: back to the worker, history kept.
DelayExpires(c) ==
    /\ delayed[c] > 0
    /\ delayed' = Take(delayed, c)
    /\ queue' = Put(queue, c)
    /\ UNCHANGED <<inbox, router, archived, answers, rejections, failures>>

-----------------------------------------------------------------------------

Consumer(c) == Process(c) \/ ProcessTwice(c) \/ Reject(c)

Route(r) ==
    \/ ScheduleRetry(r)
    \/ PublishFailedCompletion(r)
    \/ Archive(r)
    \/ Ack(r)

Next ==
    \/ \E c \in Copy : Consumer(c) \/ DelayExpires(c)
    \/ \E r \in Slot, c \in Copy : Deliver(r, c)
    \/ \E r \in Slot : Route(r) \/ RouterFails(r)

Spec == Init /\ [][Next]_vars

\* Queues are consumed, delays expire, the router goes on.  Whether a worker
\* processes a copy or rejects it is up to the worker.
Fairness ==
    /\ \A c \in Copy : WF_vars(Process(c) \/ Reject(c)) /\ WF_vars(DelayExpires(c))
    /\ \A c \in Copy : WF_vars(\E r \in Slot : Deliver(r, c))
    /\ \A r \in Slot : WF_vars(Route(r))

FairSpec == Spec /\ Fairness

-----------------------------------------------------------------------------
(* Properties *)

Held(c) == {r \in Slot : slot[r] = c}
UnderWay(m) ==
    \E c \in Copy : /\ c.message = m
                    /\ \/ queue[c] > 0 \/ inbox[c] > 0 \/ delayed[c] > 0
                       \/ Held(c) # {}

\* A dispatch that a worker queue received is never lost on its way through
\* retries: it is somewhere, or it was answered ("acknowledges a rejected
\* delivery only after the retry publish is confirmed",
\* retry-router.service.spec.ts).
AnsweredOrUnderWay ==
    \A d \in Dispatch : UnderWay(d) \/ answered[d] > 0 \/ exhausted[d] > 0

\* A step is retried retry.max times, no more and no fewer: no copy goes back
\* to its worker after that, and the router gives a dispatch up only after
\* that many retries really were rejected (booking-graph.yml:6-9).
RetriesAreBounded ==
    /\ \A c \in Copy : c.deaths > MaxRetries => queue[c] + delayed[c] = 0
    /\ \A d \in Dispatch : exhausted[d] > 0 => rejections[d] > MaxRetries

\* A dispatch enters the DLQ only after its failed completion was published:
\* no archived dispatch leaves its booking waiting.
ArchivedIsAnswered ==
    \A d \in Dispatch : archived[d] > 0 => exhausted[d] > 0

\* Duplicates come from failures only, at most one more answer each: what the
\* orchestrator must put up with.
OneAnswerPerFailure ==
    \A d \in Dispatch : answered[d] + exhausted[d] <= 1 + failures

\* What it rests on: the copies that may still be answered, in a queue or in a
\* slot whose publish is not done, count like answers.
CopiesOf(d) == {c \in Copy : c.message = d}
Queued(d) == [c \in CopiesOf(d) |-> queue[c] + inbox[c] + delayed[c]]
Routed(d) == {r \in Slot : pc[r] = "route" /\ slot[r].message = d}
AnswersAhead ==
    \A d \in Dispatch :
      SumFunction(Queued(d)) + Cardinality(Routed(d)) + answered[d] + exhausted[d]
        <= 1 + failures

\* Copies that still lead to an answer: all but those whose publish is done.
Live(d) ==
    \/ \E c \in Copy : c.message = d /\ (queue[c] > 0 \/ inbox[c] > 0 \/ delayed[c] > 0)
    \/ \E r \in Slot : pc[r] = "route" /\ slot[r].message = d

LiveOrAnswered ==
    \A d \in Dispatch : Live(d) \/ answered[d] > 0 \/ exhausted[d] > 0

\* A slot that is not idle holds a rejected copy; one about to archive has
\* published the failed completion of its dispatch.
SlotsHold ==
    \A r \in Slot :
      /\ pc[r] # "idle" => slot[r] \in Copy /\ slot[r].deaths > 0
      /\ pc[r] = "archive" => /\ slot[r].message \in Dispatch
                              /\ exhausted[slot[r].message] > 0

\* x-death never records more than what happened.
HistoryIsTrue ==
    /\ \A c \in Copy : queue[c] > 0 \/ inbox[c] > 0 \/ delayed[c] > 0 =>
                        c.deaths <= rejections[c.message]
    /\ \A r \in Slot : pc[r] # "idle" =>
                        slot[r].deaths <= rejections[slot[r].message]
    /\ \A c \in Copy : inbox[c] > 0 => c.deaths > 0

\* The strengthening of the invariants above that every step preserves.
IInv == /\ TypeOK
        /\ SlotsHold
        /\ HistoryIsTrue
        /\ RetriesAreBounded
        /\ ArchivedIsAnswered
        /\ LiveOrAnswered

\* Nothing circulates for ever between the queue of a worker, the retry inbox
\* and the delay queues: all of them are empty in the end
\* (retry-router.service.ts:60-117).
Drains ==
    <>[](\A c \in Copy : queue[c] + inbox[c] + delayed[c] = 0 /\ Held(c) = {})

\* Every dispatch is answered in the end, by its worker or, when the worker
\* keeps rejecting it, by the failed completion the router publishes
\* (retry-router.service.ts:129-165).
EveryDispatchAnswered ==
    \A d \in Dispatch : <>(answered[d] + exhausted[d] > 0)
=============================================================================
