----------------------------- MODULE StepAgents -----------------------------
(***************************************************************************)
(* The agents that only look: flight and hotel availability, fraud,        *)
(* payment and notify.  All five handlers have one shape: read, decide,    *)
(* acknowledge the dispatch, publish the completion; an exception before   *)
(* the acknowledgement rejects the dispatch to the retry router, one after *)
(* it is only logged.  Each Dispatch is one step's message, whose copies   *)
(* are counted by where they are.  The listeners have no prefetch limit,   *)
(* so any number of copies is handled at once.                             *)
(***************************************************************************)
EXTENDS Integers

CONSTANTS
    Dispatch,     \* the dispatched steps
    Agent,        \* Agent[d]: who does the step
    Asked,        \* Asked[d]: seats or rooms wanted
    Blacklisted,  \* dispatches whose user is in FraudBlacklist
    Declined,     \* dispatches whose user is DECLINED_USER_ID
    Capacity,     \* Capacity[d]: bound on what an availability step can see on sale
    MaxFailures   \* bound: failures in a behaviour

Agents == {"flight.availability", "hotel.availability", "fraud", "payment", "notify"}
Outcome == {"success", "failed"}
Looking == {d \in Dispatch : Agent[d] \in {"flight.availability", "hotel.availability"}}

ASSUME AgentAssumption ==
    /\ Agent \in [Dispatch -> Agents]
    /\ Asked \in [Dispatch -> Nat \ {0}]
    /\ Blacklisted \subseteq Dispatch /\ Declined \subseteq Dispatch
    /\ Capacity \in [Looking -> Nat]
    /\ MaxFailures \in Nat

VARIABLES
    left,        \* seatsLeft or roomsLeft of what an availability step asks about
    queue,       \* copies in the agent's queue
    reading,     \* handlers that await their queries
    decided,     \* handlers whose queries are answered, not yet acknowledged
    emitting,    \* handlers that acknowledged and publish
    rejected,    \* copies in the hands of the retry router
    completed,   \* completions published
    offered,     \* history: availability steps that could have succeeded once
    lost,        \* history: dispatches an answer to which was lost
    repeats,     \* history: copies that came back although they were dealt with
    failures     \* history: failures so far

history == <<lost, repeats>>
inventory == <<left, offered>>
vars == <<inventory, queue, reading, decided, emitting, rejected, completed,
          history, failures>>

\* What may be on sale of each.
Inventory ==
    {l \in [Looking -> UNION {0..Capacity[d] : d \in Looking}] :
       \A d \in Looking : l[d] <= Capacity[d]}

TypeOK ==
    /\ left \in Inventory
    /\ {queue, reading, rejected, repeats} \subseteq [Dispatch -> Nat]
    /\ {decided, emitting, completed} \subseteq [Dispatch -> [Outcome -> Nat]]
    /\ offered \subseteq Looking
    /\ lost \subseteq Dispatch
    /\ failures \in 0..MaxFailures

None == [d \in Dispatch |-> 0]
NoAnswer == [d \in Dispatch |-> [o \in Outcome |-> 0]]

-----------------------------------------------------------------------------

Add(f, d, n) == [f EXCEPT ![d] = @ + n]
Tally(f, d, o, n) == [f EXCEPT ![d][o] = @ + n]
Total(answers) == answers["success"] + answers["failed"]

GoesWell == UNCHANGED failures
Fails ==
    /\ failures < MaxFailures
    /\ failures' = failures + 1

\* Any seat will do for a flight; a hotel needs all the rooms asked for.
HasSeat(d) == left[d] > 0
HasAnyRoom(d) == left[d] > 0
HasRooms(d) == left[d] >= Asked[d]
\* As in the code, TRUE is the bad news.
CheckFraud(d) == d \in Blacklisted
ProcessPayment(d) == d \in Declined

Accepts(d) ==
    CASE Agent[d] = "flight.availability" -> HasSeat(d)
      [] Agent[d] = "hotel.availability"  -> HasRooms(d)
      [] Agent[d] = "fraud"               -> ~CheckFraud(d)
      [] Agent[d] = "payment"             -> ~ProcessPayment(d)
      [] Agent[d] = "notify"              -> TRUE

\* What makes an availability step succeed, for the history variable offered.
Enough(d, units) ==
    units >= IF Agent[d] = "flight.availability" THEN 1 ELSE Asked[d]

Init ==
    /\ left \in Inventory
    /\ offered = {d \in Looking : Enough(d, left[d])}
    /\ queue = [d \in Dispatch |-> 1]
    /\ reading = None /\ rejected = None /\ repeats = None
    /\ decided = NoAnswer /\ emitting = NoAnswer /\ completed = NoAnswer
    /\ lost = {}
    /\ failures = 0

\* Other bookings reserve and release.
InventoryChanges(d, n) ==
    /\ n # left[d]
    /\ left' = [left EXCEPT ![d] = n]
    /\ offered' = IF Enough(d, n) THEN offered \cup {d} ELSE offered
    /\ UNCHANGED <<queue, reading, decided, emitting, rejected, completed, history>>
    /\ GoesWell

-----------------------------------------------------------------------------
(* The handlers. *)

Deliver(d) ==
    /\ queue[d] > 0
    /\ queue' = Add(queue, d, -1)
    /\ reading' = Add(reading, d, 1)
    /\ UNCHANGED <<inventory, decided, emitting, rejected, completed, history>>
    /\ GoesWell

Read(d) ==
    /\ reading[d] > 0
    /\ reading' = Add(reading, d, -1)
    /\ decided' = Tally(decided, d, IF Accepts(d) THEN "success" ELSE "failed", 1)
    /\ UNCHANGED <<inventory, queue, emitting, rejected, completed, history>>
    /\ GoesWell

ReadThrowsGoesOn(d) ==
    /\ Fails
    /\ reading[d] > 0
    /\ reading' = Add(reading, d, -1)
    /\ rejected' = Add(rejected, d, 1)
    /\ emitting' = Tally(emitting, d, "failed", 1)
    /\ UNCHANGED <<inventory, queue, decided, completed, history>>

\* nack without requeue: the copy is dead-lettered to the retry router.
ReadThrows(d) ==
    /\ Fails
    /\ reading[d] > 0
    /\ reading' = Add(reading, d, -1)
    /\ rejected' = Add(rejected, d, 1)
    /\ UNCHANGED <<inventory, queue, decided, emitting, completed, history>>

AckSuccessOnly(d, o) ==
    /\ o = "success" /\ decided[d][o] > 0
    /\ decided' = Tally(decided, d, o, -1)
    /\ emitting' = Tally(emitting, d, o, 1)
    /\ UNCHANGED <<inventory, queue, reading, rejected, completed, history>>
    /\ GoesWell

AckTwice(d, o) ==
    /\ decided[d][o] > 0
    /\ decided' = Tally(decided, d, o, -2)
    /\ emitting' = Tally(emitting, d, o, 1)
    /\ UNCHANGED <<inventory, queue, reading, rejected, completed, history>>
    /\ GoesWell

Ack(d, o) ==
    /\ decided[d][o] > 0
    /\ decided' = Tally(decided, d, o, -1)
    /\ emitting' = Tally(emitting, d, o, 1)
    /\ UNCHANGED <<inventory, queue, reading, rejected, completed, history>>
    /\ GoesWell

Emit(d, o) ==
    /\ emitting[d][o] > 0
    /\ emitting' = Tally(emitting, d, o, -1)
    /\ completed' = Tally(completed, d, o, 1)
    /\ UNCHANGED <<inventory, queue, reading, decided, rejected, history>>
    /\ GoesWell

EmitFails(d, o) ==
    /\ Fails
    /\ emitting[d][o] > 0
    /\ emitting' = Tally(emitting, d, o, -1)
    /\ lost' = lost \cup {d}
    /\ UNCHANGED <<inventory, queue, reading, decided, rejected, completed, repeats>>

-----------------------------------------------------------------------------
(* The broker, the process and the retry router. *)

Unacked(d) == reading[d] + Total(decided[d])
Listening(agent) == {d \in Dispatch : Agent[d] = agent}

\* The broker delivers again what was not acknowledged; the handlers that
\* still run fail when they acknowledge on the closed channel.
Requeue(D) ==
    /\ queue' = [d \in Dispatch |-> queue[d] + (IF d \in D THEN Unacked(d) ELSE 0)]
    /\ reading' = [d \in Dispatch |-> IF d \in D THEN 0 ELSE reading[d]]
    /\ decided' = [d \in Dispatch |-> IF d \in D THEN NoAnswer[d] ELSE decided[d]]

ChannelClosed(agent) ==
    /\ Fails
    /\ \E d \in Listening(agent) : Unacked(d) > 0
    /\ Requeue(Listening(agent))
    /\ UNCHANGED <<inventory, emitting, rejected, completed, history>>

\* The acknowledgement was written to a channel that is no more; the
\* completion goes out on another connection.
AckUnheard(d, o) ==
    /\ Fails
    /\ decided[d][o] > 0
    /\ Requeue(Listening(Agent[d]))
    /\ emitting' = Tally(emitting, d, o, 1)
    /\ repeats' = Add(repeats, d, 1)
    /\ UNCHANGED <<inventory, rejected, completed, lost>>

Crash ==
    LET answering == {d \in Dispatch : Total(emitting[d]) > 0} IN
    /\ Fails
    /\ answering # {} \/ \E d \in Dispatch : Unacked(d) > 0
    /\ Requeue(Dispatch)
    /\ emitting' = NoAnswer
    /\ lost' = lost \cup answering
    /\ UNCHANGED <<inventory, rejected, completed, repeats>>

\* The router confirms what it publishes before it acknowledges the rejected
\* copy, which it may have to do again.  When it retries and when it gives up
\* is the subject of RetryRouter.
RouterDone(d, acked) ==
    /\ rejected[d] > 0
    /\ IF acked
       THEN GoesWell /\ rejected' = Add(rejected, d, -1) /\ UNCHANGED repeats
       ELSE Fails /\ UNCHANGED rejected /\ repeats' = Add(repeats, d, 1)

Retry(d, acked) ==
    /\ RouterDone(d, acked)
    /\ queue' = Add(queue, d, 1)
    /\ UNCHANGED <<inventory, reading, decided, emitting, completed, lost>>

GiveUpSilently(d, acked) ==
    /\ RouterDone(d, acked)
    /\ UNCHANGED <<inventory, queue, reading, decided, emitting, completed, lost>>

GiveUp(d, acked) ==
    /\ RouterDone(d, acked)
    /\ completed' = Tally(completed, d, "failed", 1)
    /\ UNCHANGED <<inventory, queue, reading, decided, emitting, lost>>

-----------------------------------------------------------------------------

Handle(d) == Deliver(d) \/ Read(d) \/ \E o \in Outcome : Ack(d, o) \/ Emit(d, o)
Route(d) == \E acked \in BOOLEAN : Retry(d, acked) \/ GiveUp(d, acked)

Failure ==
    \/ \E d \in Dispatch :
         \/ ReadThrows(d)
         \/ \E o \in Outcome : EmitFails(d, o) \/ AckUnheard(d, o)
    \/ \E agent \in Agents : ChannelClosed(agent)
    \/ Crash

Next ==
    \/ \E d \in Looking : \E n \in 0..Capacity[d] : InventoryChanges(d, n)
    \/ \E d \in Dispatch : Handle(d) \/ Route(d)
    \/ Failure

\* Queues have consumers and running handlers are scheduled again; the
\* inventory may change for ever.
Fairness ==
    \A d \in Dispatch :
      /\ WF_vars(Deliver(d))
      /\ WF_vars(Read(d))
      /\ WF_vars(\E o \in Outcome : Ack(d, o))
      /\ WF_vars(\E o \in Outcome : Emit(d, o))
      /\ WF_vars(Route(d))

Spec == Init /\ [][Next]_vars
FairSpec == Spec /\ Fairness

-----------------------------------------------------------------------------
(* Properties *)

Outstanding(d) == queue[d] + Unacked(d) + Total(emitting[d]) + rejected[d]

Contract == INSTANCE StepContract
    WITH dispatched <- [d \in Dispatch |-> IF Outstanding(d) > 0 THEN 1 ELSE 0]

\* Copies, handlers, retries and restarts together look to the saga like Work,
\* WorkLost and WorkRedelivered: no answer after the last copy is gone, and
\* the last copy goes only with an answer or with a publish that was lost.
ContractSpec == Contract!Spec

\* A dispatch is answered more than once only because a copy came back after
\* it had been dealt with.  Exceptions, retries and crashes alone never do
\* that, because the handlers acknowledge before they publish and return after
\* a nack.
AnswersExplained ==
    \A d \in Dispatch : Outstanding(d) + Total(completed[d]) <= 1 + repeats[d]

\* No retry, redelivery or give-up turns a refusal into a success: a charge to
\* a declined user and the check of a blacklisted one are refused by every
\* copy, and availability is promised only if at some time there was enough.
Impossible(d) ==
    \/ Agent[d] = "fraud" /\ d \in Blacklisted
    \/ Agent[d] = "payment" /\ d \in Declined
    \/ d \in Looking \ offered

SuccessWasPossible ==
    \A d \in Dispatch : completed[d]["success"] > 0 => ~Impossible(d)

\* The inductive invariant behind both: copies are counted, whatever was on sale
\* is remembered, and no handler has decided on, acknowledged or published a
\* success that was never possible.
CountsOK ==
    /\ left \in [Looking -> Nat]
    /\ queue \in [Dispatch -> Nat] /\ reading \in [Dispatch -> Nat]
    /\ rejected \in [Dispatch -> Nat] /\ repeats \in [Dispatch -> Nat]
    /\ decided \in [Dispatch -> [Outcome -> Nat]]
    /\ emitting \in [Dispatch -> [Outcome -> Nat]]
    /\ completed \in [Dispatch -> [Outcome -> Nat]]
OffersRemembered == \A d \in Looking : Enough(d, left[d]) => d \in offered
SuccessIsBacked ==
    \A d \in Dispatch :
      decided[d]["success"] + emitting[d]["success"] + completed[d]["success"] > 0
        => ~Impossible(d)
IInv == CountsOK /\ OffersRemembered /\ SuccessIsBacked /\ AnswersExplained

\* Every dispatch is dealt with: retries and redeliveries come to an end.
Settles == \A d \in Dispatch : <>[](Outstanding(d) = 0)
=============================================================================
