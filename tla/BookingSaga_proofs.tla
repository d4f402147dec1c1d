-------------------------- MODULE BookingSaga_proofs --------------------------
(***************************************************************************)
(* Proofs about the saga of one booking, for every set of rows, stages and *)
(* actors, and for any number of failures.                                 *)
(***************************************************************************)
EXTENDS BookingSaga, NaturalsInduction, WellFoundedInduction, TLAPS

\* The groups of variables that UNCHANGED names.
LEMMA GroupsUnchanged ==
    /\ UNCHANGED rows => UNCHANGED <<booking, deadline, step>>
    /\ UNCHANGED control => UNCHANGED <<pc, work>>
    /\ UNCHANGED queues => UNCHANGED <<dispatched, completed, compensate, compensated>>
    /\ UNCHANGED history => UNCHANGED <<sent, undone, pauses, accepted>>
BY DEF rows, control, queues, history

-----------------------------------------------------------------------------
(* Type correctness *)

\* Moving an actor, relabelling rows and counting messages keep their types.
LEMMA GotoType ==
    ASSUME TypeOK, NEW a \in Actor, NEW label \in PC, Goto(a, label)
    PROVE  pc' \in [Actor -> PC]
BY DEF TypeOK, Goto

LEMMA RelabelType ==
    ASSUME TypeOK, NEW S, NEW from, NEW to \in StepStatus
    PROVE  Relabel(S, from, to) \in [Step -> StepStatus]
BY DEF TypeOK, Relabel

LEMMA PutType ==
    ASSUME NEW queue \in [Step -> Nat], NEW s \in Step
    PROVE  Put(queue, s) \in [Step -> Nat]
BY DEF Put

LEMMA TakeType ==
    ASSUME NEW queue \in [Step -> Nat], NEW s \in Step, queue[s] > 0
    PROVE  Take(queue, s) \in [Step -> Nat]
BY DEF Take

LEMMA FailuresType ==
    ASSUME TypeOK, GoesWell \/ \E kinds : Fails(kinds)
    PROVE  failures' \in Nat
BY DEF TypeOK, GoesWell, Fails

LEMMA InitType == Init => TypeOK
<1> SUFFICES ASSUME Init PROVE TypeOK
  OBVIOUS
<1>1. completed \in [Step -> [Outcome -> Nat]]
  BY DEF Init
<1>2. /\ pc \in [Actor -> PC]
      /\ step \in [Step -> StepStatus]
      /\ work \in [Actor -> SUBSET Step]
  BY DEF Init, PC, StepStatus
<1> QED BY <1>1, <1>2 DEF Init, TypeOK, BookingStatus

LEMMA PublishType ==
    ASSUME TypeOK, Publish PROVE TypeOK'
<1> USE GroupsUnchanged
<1> DEFINE A == Publisher
<1>0. A \in Actor
  BY DEF Actor
<1>1. CASE CreateBooking
  <2>1. pc' \in [Actor -> PC]
    BY <1>0, <1>1, GotoType DEF CreateBooking, PC
  <2>2. failures' \in Nat
    BY <1>1, FailuresType DEF CreateBooking
  <2> QED BY <1>1, <2>1, <2>2 DEF CreateBooking, TypeOK, BookingStatus
<1>2. ASSUME NEW inserted \in SUBSET Step, CreateRows(inserted) PROVE TypeOK'
  <2>1. pc' \in [Actor -> PC]
    BY <1>0, <1>2, GotoType DEF CreateRows, PC
  <2>2. failures' \in Nat
    BY <1>2, FailuresType DEF CreateRows
  <2>3. step' \in [Step -> StepStatus]
    BY <1>2, RelabelType DEF CreateRows, StepStatus
  <2> QED BY <1>2, <2>1, <2>2, <2>3 DEF CreateRows, TypeOK
<1>3. CASE ClaimFirstStage
  <2>1. pc' \in [Actor -> PC]
    BY <1>0, <1>3, GotoType DEF ClaimFirstStage, PC
  <2>2. failures' \in Nat
    BY <1>3, FailuresType DEF ClaimFirstStage
  <2>3. step' \in [Step -> StepStatus]
    BY <1>3, RelabelType DEF ClaimFirstStage, StepStatus
  <2>4. work' \in [Actor -> SUBSET Step]
    BY <1>0, <1>3 DEF ClaimFirstStage, TypeOK, RowsAt
  <2> QED BY <1>3, <2>1, <2>2, <2>3, <2>4 DEF ClaimFirstStage, TypeOK
<1> QED BY <1>1, <1>2, <1>3 DEF Publish

\* A handler ends in a program counter of its own kind.
LEMMA EndType ==
    /\ \A a : Finished(a) \in PC /\ Dropped(a) \in PC
    /\ \A s : StageVerdict(s) \in PC
    /\ FinalStatus \in PC
BY DEF Finished, Dropped, StageVerdict, FinalStatus, PC

LEMMA ProceedType ==
    ASSUME TypeOK, NEW a \in Actor, Proceed(a) PROVE TypeOK'
<1> USE GroupsUnchanged
<1>1. CASE AdvanceFromStage(a)
  <2> DEFINE k == FromStage(a)
             claimed == Claimable(k)
  <2>1. claimed \subseteq Step
    BY DEF Claimable, NextRows
  <2>2. pc' \in [Actor -> PC]
    <3> DEFINE ask == \E t \in claimed : Stage[t] = AskStage
               label == IF HasNext(k)
                        THEN IF claimed = {} THEN Finished(a)
                             ELSE IF ask THEN "compete" ELSE "dispatch"
                        ELSE FinalStatus
    <3>1. Goto(a, label)
      BY <1>1 DEF AdvanceFromStage
    <3>2. label \in PC
      BY EndType DEF PC
    <3> QED BY <3>1, <3>2, GotoType
  <2>3. failures' \in Nat
    BY <1>1, FailuresType DEF AdvanceFromStage
  <2>4. step' \in [Step -> StepStatus]
    BY <1>1 DEF AdvanceFromStage, TypeOK, StepStatus
  <2>5. work' \in [Actor -> SUBSET Step]
    BY <1>1, <2>1 DEF AdvanceFromStage, TypeOK
  <2> QED BY <1>1, <2>2, <2>3, <2>4, <2>5 DEF AdvanceFromStage, TypeOK
<1>2. CASE TakeMarkedItems(a)
  <2>1. pc' \in [Actor -> PC]
    BY <1>2, GotoType DEF TakeMarkedItems, PC
  <2>2. failures' \in Nat
    BY <1>2, FailuresType DEF TakeMarkedItems
  <2> QED BY <1>2, <2>1, <2>2 DEF TakeMarkedItems, TypeOK
<1>3. ASSUME NEW s \in work[a], NEW published \in BOOLEAN,
             DispatchSteps(a, s, published)
      PROVE  TypeOK'
  <2>1. s \in Step
    BY DEF TypeOK
  <2>2. pc' \in [Actor -> PC]
    BY <1>3, GotoType, EndType DEF DispatchSteps, PC
  <2>3. failures' \in Nat
    BY <1>3, FailuresType DEF DispatchSteps
  <2>4. dispatched' \in [Step -> Nat] /\ sent' \in [Step -> Nat]
    <3>1. \/ dispatched' = Put(dispatched, s) /\ sent' = Put(sent, s)
          \/ dispatched' = dispatched /\ sent' = sent
      BY <1>3 DEF DispatchSteps
    <3> QED BY <2>1, <3>1, PutType DEF TypeOK
  <2>5. work' \in [Actor -> SUBSET Step]
    BY <1>3 DEF DispatchSteps, TypeOK
  <2> QED BY <1>3, <2>2, <2>3, <2>4, <2>5 DEF DispatchSteps, TypeOK
<1>4. ASSUME NEW s \in work[a], NEW published \in BOOLEAN,
             DispatchCompensations(a, s, published)
      PROVE  TypeOK'
  <2>1. s \in Step
    BY DEF TypeOK
  <2>2. pc' \in [Actor -> PC]
    BY <1>4, GotoType, EndType DEF DispatchCompensations, PC
  <2>3. failures' \in Nat
    BY <1>4, FailuresType DEF DispatchCompensations
  <2>4. compensate' \in [Step -> Nat] /\ undone' \in [Step -> Nat]
    <3>1. \/ compensate' = Put(compensate, s) /\ undone' = Put(undone, s)
          \/ compensate' = compensate /\ undone' = undone
      BY <1>4 DEF DispatchCompensations
    <3> QED BY <2>1, <3>1, PutType DEF TypeOK
  <2>5. work' \in [Actor -> SUBSET Step]
    BY <1>4 DEF DispatchCompensations, TypeOK
  <2> QED BY <1>4, <2>2, <2>3, <2>4, <2>5 DEF DispatchCompensations, TypeOK
<1>5. CASE FinalizeBooking(a)
  <2>1. pc' \in [Actor -> PC]
    BY <1>5, GotoType, EndType DEF FinalizeBooking
  <2>2. failures' \in Nat
    BY <1>5, FailuresType DEF FinalizeBooking
  <2>3. booking' \in BookingStatus
    BY <1>5 DEF FinalizeBooking, TypeOK, BookingStatus
  <2> QED BY <1>5, <2>1, <2>2, <2>3 DEF FinalizeBooking, TypeOK
<1>6. CASE RejectAwaitingBooking(a)
  <2>1. pc' \in [Actor -> PC]
    BY <1>6, GotoType, EndType DEF RejectAwaitingBooking, PC
  <2>2. failures' \in Nat
    BY <1>6, FailuresType DEF RejectAwaitingBooking
  <2>3. booking' \in BookingStatus /\ deadline' \in {"none", "open", "passed"}
    BY <1>6 DEF RejectAwaitingBooking, TypeOK, BookingStatus
  <2> QED BY <1>6, <2>1, <2>2, <2>3 DEF RejectAwaitingBooking, TypeOK
<1>7. CASE FailPendingSteps(a)
  <2>1. pc' \in [Actor -> PC]
    BY <1>7, GotoType DEF FailPendingSteps, PC
  <2>2. failures' \in Nat
    BY <1>7, FailuresType DEF FailPendingSteps
  <2>3. step' \in [Step -> StepStatus]
    BY <1>7, RelabelType DEF FailPendingSteps, StepStatus
  <2> QED BY <1>7, <2>1, <2>2, <2>3 DEF FailPendingSteps, TypeOK
<1>8. CASE CompensateSuccessfulSteps(a)
  <2>1. pc' \in [Actor -> PC]
    BY <1>8, GotoType, EndType DEF CompensateSuccessfulSteps, PC
  <2>2. failures' \in Nat
    BY <1>8, FailuresType DEF CompensateSuccessfulSteps
  <2>3. work' \in [Actor -> SUBSET Step]
    BY <1>8, GraphAssumption DEF CompensateSuccessfulSteps, Eligible, TypeOK
  <2> QED BY <1>8, <2>1, <2>2, <2>3 DEF CompensateSuccessfulSteps, TypeOK
<1>9. ASSUME NEW updated \in SUBSET work[a], ClaimCompensations(a, updated)
      PROVE  TypeOK'
  <2>1. pc' \in [Actor -> PC]
    BY <1>9, GotoType, EndType DEF ClaimCompensations, PC
  <2>2. failures' \in Nat
    BY <1>9, FailuresType DEF ClaimCompensations
  <2>3. step' \in [Step -> StepStatus]
    BY <1>9, RelabelType DEF ClaimCompensations, StepStatus
  <2>4. work' \in [Actor -> SUBSET Step]
    BY <1>9 DEF ClaimCompensations, TypeOK
  <2> QED BY <1>9, <2>1, <2>2, <2>3, <2>4 DEF ClaimCompensations, TypeOK
<1> QED BY <1>1, <1>2, <1>3, <1>4, <1>5, <1>6, <1>7, <1>8, <1>9 DEF Proceed

LEMMA CompletionHandlerType ==
    ASSUME TypeOK, NEW s \in Step, CompletionHandler(s) PROVE TypeOK'
<1> USE GroupsUnchanged
<1>0. s \in Actor
  BY DEF Actor
<1>1. ASSUME NEW o \in Outcome, ApplyCompletion(s, o) PROVE TypeOK'
  <2>1. pc' \in [Actor -> PC]
    BY <1>0, <1>1, GotoType DEF ApplyCompletion, PC, TypeOK
  <2>2. failures' \in Nat
    BY <1>1, FailuresType DEF ApplyCompletion
  <2>3. step' \in [Step -> StepStatus]
    BY <1>1 DEF ApplyCompletion, TypeOK, StepStatus, Outcome
  <2>4. completed' \in [Step -> [Outcome -> Nat]]
    BY <1>1 DEF ApplyCompletion, TypeOK
  <2> QED BY <1>1, <2>1, <2>2, <2>3, <2>4 DEF ApplyCompletion, TypeOK
<1>2. CASE MaybeAdvance(s)
  <2>1. pc' \in [Actor -> PC]
    BY <1>0, <1>2, GotoType, EndType DEF MaybeAdvance
  <2>2. failures' \in Nat
    BY <1>2, FailuresType DEF MaybeAdvance
  <2> QED BY <1>2, <2>1, <2>2 DEF MaybeAdvance, TypeOK
<1>3. CASE PauseForDecision(s)
  <2>1. pc' \in [Actor -> PC]
    BY <1>0, <1>3, GotoType DEF PauseForDecision, PC
  <2>2. failures' \in Nat
    BY <1>3, FailuresType DEF PauseForDecision
  <2>3. /\ booking' \in BookingStatus
        /\ deadline' \in {"none", "open", "passed"}
        /\ pauses' \in Nat
    BY <1>3 DEF PauseForDecision, TypeOK, BookingStatus
  <2> QED BY <1>3, <2>1, <2>2, <2>3 DEF PauseForDecision, TypeOK
<1>4. CASE CancelBooking(s)
  <2>1. pc' \in [Actor -> PC]
    BY <1>0, <1>4, GotoType DEF CancelBooking, PC
  <2>2. failures' \in Nat
    BY <1>4, FailuresType DEF CancelBooking
  <2>3. booking' \in BookingStatus
    BY <1>4 DEF CancelBooking, TypeOK, BookingStatus
  <2> QED BY <1>4, <2>1, <2>2, <2>3 DEF CancelBooking, TypeOK
<1> QED BY <1>1, <1>2, <1>3, <1>4 DEF CompletionHandler

LEMMA DecisionType ==
    ASSUME TypeOK,
           \/ \E c \in Client : DecisionRequest(c)
           \/ \E w \in Sweep : ExpireDueDecisions(w)
           \/ DeadlinePasses
    PROVE  TypeOK'
<1> USE GroupsUnchanged
<1>1. ASSUME NEW c \in Client, NEW decision, Decide(c, decision) PROVE TypeOK'
  <2>1. pc' \in [Actor -> PC]
    BY <1>1, GotoType DEF Decide, PC, Actor
  <2>2. failures' \in Nat
    BY <1>1, FailuresType DEF Decide
  <2> QED BY <1>1, <2>1, <2>2 DEF Decide, TypeOK
<1>2. ASSUME NEW c \in Client, AcceptPartial(c) PROVE TypeOK'
  <2>1. pc' \in [Actor -> PC]
    BY <1>2, GotoType DEF AcceptPartial, PC, Actor
  <2>2. failures' \in Nat
    BY <1>2, FailuresType DEF AcceptPartial
  <2>3. /\ booking' \in BookingStatus
        /\ deadline' \in {"none", "open", "passed"}
        /\ accepted' \in BOOLEAN
    BY <1>2 DEF AcceptPartial, TypeOK, BookingStatus
  <2> QED BY <1>2, <2>1, <2>2, <2>3 DEF AcceptPartial, TypeOK
<1>3. ASSUME NEW w \in Sweep, ExpireDueDecisions(w) PROVE TypeOK'
  <2>1. pc' \in [Actor -> PC]
    BY <1>3, GotoType DEF ExpireDueDecisions, PC, Actor
  <2>2. failures' \in Nat
    BY <1>3, FailuresType DEF ExpireDueDecisions
  <2> QED BY <1>3, <2>1, <2>2 DEF ExpireDueDecisions, TypeOK
<1>4. CASE DeadlinePasses
  <2>1. failures' \in Nat
    BY <1>4, FailuresType DEF DeadlinePasses
  <2> QED BY <1>4, <2>1 DEF DeadlinePasses, TypeOK
<1> QED BY <1>1, <1>2, <1>3, <1>4 DEF DecisionRequest

LEMMA AgentType ==
    ASSUME TypeOK, NEW s \in Step, Agent(s) PROVE TypeOK'
<1> USE GroupsUnchanged
<1>1. ASSUME NEW o \in Outcome, Work(s, o) PROVE TypeOK'
  <2>1. failures' \in Nat
    BY <1>1, FailuresType DEF Work
  <2>2. dispatched' \in [Step -> Nat]
    BY <1>1, TakeType DEF Work, TypeOK
  <2>3. completed' \in [Step -> [Outcome -> Nat]]
    BY <1>1 DEF Work, TypeOK
  <2> QED BY <1>1, <2>1, <2>2, <2>3 DEF Work, TypeOK
<1>2. CASE Undo(s)
  <2>1. failures' \in Nat
    BY <1>2, FailuresType DEF Undo
  <2>2. compensate' \in [Step -> Nat] /\ compensated' \in [Step -> Nat]
    BY <1>2, TakeType, PutType DEF Undo, TypeOK
  <2> QED BY <1>2, <2>1, <2>2 DEF Undo, TypeOK
<1>3. CASE ApplyCompensated(s)
  <2>1. failures' \in Nat
    BY <1>3, FailuresType DEF ApplyCompensated
  <2>2. compensated' \in [Step -> Nat]
    BY <1>3, TakeType DEF ApplyCompensated, TypeOK
  <2>3. step' \in [Step -> StepStatus]
    BY <1>3, RelabelType DEF ApplyCompensated, StepStatus
  <2> QED BY <1>3, <2>1, <2>2, <2>3 DEF ApplyCompensated, TypeOK
<1> QED BY <1>1, <1>2, <1>3 DEF Agent

LEMMA FailureType ==
    ASSUME TypeOK, Failure PROVE TypeOK'
<1> USE GroupsUnchanged
<1>1. ASSUME NEW s \in Step, WorkLost(s) PROVE TypeOK'
  <2>1. failures' \in Nat
    BY <1>1, FailuresType DEF WorkLost
  <2>2. dispatched' \in [Step -> Nat]
    BY <1>1, TakeType DEF WorkLost, TypeOK
  <2> QED BY <1>1, <2>1, <2>2 DEF WorkLost, TypeOK
<1>2. ASSUME NEW s \in Step, UndoLost(s) PROVE TypeOK'
  <2>1. failures' \in Nat
    BY <1>2, FailuresType DEF UndoLost
  <2>2. compensate' \in [Step -> Nat]
    BY <1>2, TakeType DEF UndoLost, TypeOK
  <2> QED BY <1>2, <2>1, <2>2 DEF UndoLost, TypeOK
<1>3. ASSUME NEW s \in Step, CompensatedDeadLettered(s) PROVE TypeOK'
  <2>1. failures' \in Nat
    BY <1>3, FailuresType DEF CompensatedDeadLettered
  <2>2. compensated' \in [Step -> Nat]
    BY <1>3, TakeType DEF CompensatedDeadLettered, TypeOK
  <2> QED BY <1>3, <2>1, <2>2 DEF CompensatedDeadLettered, TypeOK
<1>4. ASSUME NEW s \in Step, NEW o \in Outcome, WorkRedelivered(s, o) PROVE TypeOK'
  <2>1. failures' \in Nat
    BY <1>4, FailuresType DEF WorkRedelivered
  <2>2. completed' \in [Step -> [Outcome -> Nat]]
    BY <1>4 DEF WorkRedelivered, TypeOK
  <2> QED BY <1>4, <2>1, <2>2 DEF WorkRedelivered, TypeOK
<1>5. ASSUME NEW s \in Step, NEW o \in Outcome, CompletionDeadLettered(s, o)
      PROVE  TypeOK'
  <2>1. failures' \in Nat
    BY <1>5, FailuresType DEF CompletionDeadLettered
  <2>2. completed' \in [Step -> [Outcome -> Nat]]
    BY <1>5 DEF CompletionDeadLettered, TypeOK
  <2> QED BY <1>5, <2>1, <2>2 DEF CompletionDeadLettered, TypeOK
<1>6. ASSUME NEW a \in Actor, HandlerFails(a) PROVE TypeOK'
  <2>1. failures' \in Nat
    BY <1>6, FailuresType DEF HandlerFails
  <2>2. pc' \in [Actor -> PC]
    BY <1>6, GotoType, EndType DEF HandlerFails
  <2>3. work' \in [Actor -> SUBSET Step]
    BY <1>6 DEF HandlerFails, TypeOK
  <2> QED BY <1>6, <2>1, <2>2, <2>3 DEF HandlerFails, TypeOK
<1>7. CASE Crash
  <2>1. failures' \in Nat
    BY <1>7, FailuresType DEF Crash
  <2>2. pc' \in [Actor -> PC]
    BY <1>7, EndType DEF Crash, TypeOK
  <2>3. work' \in [Actor -> SUBSET Step]
    BY <1>7 DEF Crash
  <2>4. completed' \in [Step -> [Outcome -> Nat]]
    <3>1. ASSUME NEW s \in Step
          PROVE  [completed[s] EXCEPT ![HeldOutcome(s)] = @ + 1] \in [Outcome -> Nat]
      BY DEF HeldOutcome, Outcome, TypeOK
    <3> QED BY <1>7, <3>1 DEF Crash, TypeOK
  <2> QED BY <1>7, <2>1, <2>2, <2>3, <2>4 DEF Crash, TypeOK
<1> QED BY <1>1, <1>2, <1>3, <1>4, <1>5, <1>6, <1>7 DEF Failure

LEMMA NextType ==
    ASSUME TypeOK, [Next]_vars PROVE TypeOK'
<1>1. CASE Next
  BY <1>1, PublishType, ProceedType, CompletionHandlerType, DecisionType,
     AgentType, FailureType DEF Next
<1>2. CASE UNCHANGED vars
  BY <1>2, GroupsUnchanged DEF vars, TypeOK
<1> QED BY <1>1, <1>2

\* Every variable keeps its type, whatever fails.
THEOREM TypeCorrect == Spec => []TypeOK
BY InitType, NextType, PTL DEF Spec

-----------------------------------------------------------------------------
(* Every command is sent once *)

\* What most steps are to the two counts: no command is published, no row
\* becomes claimable again, no claim is made and none changes hands.
Harmless ==
    /\ sent' = sent /\ undone' = undone
    /\ \A t \in Step :
         /\ step'[t] \in {"none", "pending"} => step[t] \in {"none", "pending"}
         /\ step[t] \in {"compensating", "compensated"}
              => step'[t] \in {"compensating", "compensated"}
    /\ \A b \in Actor :
         /\ Claimed(b)' \subseteq Claimed(b)
         /\ UndoClaimed(b)' \subseteq UndoClaimed(b)

LEMMA HarmlessKeeps ==
    ASSUME SentOnce, UndoneOnce, Harmless
    PROVE  SentOnce' /\ UndoneOnce'
<1>1. SentOnce'
  <2> SUFFICES ASSUME NEW s \in Step
               PROVE  /\ sent'[s] <= 1
                      /\ step'[s] \in {"none", "pending"} => sent'[s] = 0
                      /\ \A a \in Actor : s \in Claimed(a)' =>
                           /\ step'[s] \notin {"none", "pending"}
                           /\ sent'[s] = 0
                           /\ \A b \in Actor \ {a} : s \notin Claimed(b)'
    BY DEF SentOnce
  <2> QED BY DEF SentOnce, Harmless
<1>2. UndoneOnce'
  <2> SUFFICES ASSUME NEW s \in Step
               PROVE  /\ undone'[s] <= 1
                      /\ step'[s] \notin {"compensating", "compensated"}
                           => undone'[s] = 0
                      /\ \A a \in Actor : s \in UndoClaimed(a)' =>
                           /\ step'[s] \in {"compensating", "compensated"}
                           /\ undone'[s] = 0
                           /\ \A b \in Actor \ {a} : s \notin UndoClaimed(b)'
    BY DEF UndoneOnce
  <2> QED BY DEF UndoneOnce, Harmless
<1> QED BY <1>1, <1>2

\* An actor that goes on to anything but a publish makes no claim.
LEMMA MoveClaims ==
    ASSUME TypeOK, NEW a \in Actor, NEW label, Goto(a, label),
           label \notin {"compete", "dispatch", "dispatchUndo"},
           \A b \in Actor \ {a} : work'[b] = work[b]
    PROVE  \A b \in Actor :
             /\ Claimed(b)' \subseteq Claimed(b)
             /\ UndoClaimed(b)' \subseteq UndoClaimed(b)
BY DEF TypeOK, Goto, Claimed, UndoClaimed

LEMMA StayClaims ==
    ASSUME UNCHANGED <<pc, work>>
    PROVE  \A b \in Actor :
             /\ Claimed(b)' \subseteq Claimed(b)
             /\ UndoClaimed(b)' \subseteq UndoClaimed(b)
BY DEF Claimed, UndoClaimed

\* The conditional updates only move rows forward.
LEMMA RelabelForward ==
    ASSUME TypeOK, NEW S, NEW from, NEW to, step' = Relabel(S, from, to),
           \/ from = "none" /\ to = "pending"
           \/ from = "pending" /\ to \in {"in_progress", "failed"}
           \/ from = "success" /\ to = "compensating"
           \/ from = "compensating" /\ to = "compensated"
    PROVE  \A t \in Step :
             /\ step'[t] \in {"none", "pending"} => step[t] \in {"none", "pending"}
             /\ step[t] \in {"compensating", "compensated"}
                  => step'[t] \in {"compensating", "compensated"}
BY DEF TypeOK, Relabel

\* A handler that runs shows that the first stage has been claimed.
LEMMA OpenedBy ==
    ASSUME Opening, NEW a \in Actor, pc[a] \notin {"idle", "rows", "claimFirst"}
    PROVE  pc[Publisher] \notin {"idle", "rows", "claimFirst"}
BY DEF Opening

LEMMA OpenStays ==
    ASSUME TypeOK, NEW a \in Actor, NEW label, Goto(a, label),
           pc[Publisher] \notin {"idle", "rows", "claimFirst"},
           label \notin {"rows", "claimFirst"}, label = "idle" => a # Publisher
    PROVE  Opening'
BY DEF TypeOK, Goto, Opening, Actor

\* Only a sweep returns to idle.
LEMMA EndLabels ==
    \A a \in Actor :
      /\ Finished(a) \in {"idle", "done"} /\ (Finished(a) = "idle" => a # Publisher)
      /\ Dropped(a) \in {"idle", "dead"} /\ (Dropped(a) = "idle" => a # Publisher)
BY ActorAssumption DEF Finished, Dropped

LEMMA InitInv == Init => IInv
<1> SUFFICES ASSUME Init PROVE IInv
  OBVIOUS
<1>1. TypeOK
  BY InitType
<1>2. Opening
  BY DEF Init, Opening, Actor
<1>3. SentOnce /\ UndoneOnce
  BY DEF Init, SentOnce, UndoneOnce, Claimed, UndoClaimed
<1> QED BY <1>1, <1>2, <1>3 DEF IInv

LEMMA PublishInv ==
    ASSUME IInv, Publish PROVE Opening' /\ SentOnce' /\ UndoneOnce'
<1> USE GroupsUnchanged DEF IInv
<1>0. Publisher \in Actor
  BY DEF Actor
<1>1. CASE CreateBooking
  <2>1. Harmless
    BY <1>0, <1>1, MoveClaims DEF CreateBooking, Harmless
  <2>2. Opening'
    BY <1>0, <1>1 DEF CreateBooking, Opening, Goto, TypeOK
  <2> QED BY <2>1, <2>2, HarmlessKeeps
<1>2. ASSUME NEW inserted \in SUBSET Step, CreateRows(inserted)
      PROVE  Opening' /\ SentOnce' /\ UndoneOnce'
  <2>1. Harmless
    BY <1>0, <1>2, MoveClaims, RelabelForward DEF CreateRows, Harmless
  <2>2. Opening'
    BY <1>0, <1>2 DEF CreateRows, Opening, Goto, TypeOK, Relabel
  <2> QED BY <2>1, <2>2, HarmlessKeeps
<1>3. CASE ClaimFirstStage
  <2>1. Opening'
    BY <1>0, <1>3 DEF ClaimFirstStage, Opening, Goto, TypeOK
  <2>2. /\ \A t \in Step : step[t] = "pending" /\ sent[t] = 0
        /\ \A b \in Actor \ {Publisher} : pc[b] = "idle"
    BY <1>3 DEF ClaimFirstStage, Opening, SentOnce
  <2>3. /\ \A b \in Actor : Claimed(b)' # {} => b = Publisher
        /\ \A b \in Actor : UndoClaimed(b)' = {}
        /\ Claimed(Publisher)' \subseteq RowsAt(0)
    BY <1>0, <1>3, <2>2
    DEF ClaimFirstStage, Goto, TypeOK, Claimed, UndoClaimed
  <2>4. step' = [t \in Step |-> IF t \in RowsAt(0) THEN "in_progress" ELSE "pending"]
    BY <1>3, <2>2 DEF ClaimFirstStage, Relabel
  <2>5. sent' = sent /\ undone' = undone
    BY <1>3 DEF ClaimFirstStage
  <2>6. SentOnce'
    BY <2>2, <2>3, <2>4, <2>5 DEF SentOnce
  <2>7. UndoneOnce'
    BY <2>2, <2>3, <2>4, <2>5 DEF UndoneOnce
  <2> QED BY <2>1, <2>6, <2>7
<1> QED BY <1>1, <1>2, <1>3 DEF Publish

\* The claim of the next stage: the rows it takes were pending, so nobody had
\* claimed or published them before.
LEMMA AdvanceInv ==
    ASSUME IInv, NEW a \in Actor, AdvanceFromStage(a)
    PROVE  Opening' /\ SentOnce' /\ UndoneOnce'
<1> USE GroupsUnchanged DEF IInv
<1> DEFINE k == FromStage(a)
           claimed == Claimable(k)
           ask == \E t \in claimed : Stage[t] = AskStage
           label == IF HasNext(k)
                    THEN IF claimed = {} THEN Finished(a)
                         ELSE IF ask THEN "compete" ELSE "dispatch"
                    ELSE FinalStatus
<1>1. pc[a] = "advance" /\ Goto(a, label)
  BY DEF AdvanceFromStage
<1>2. sent' = sent /\ undone' = undone
  BY DEF AdvanceFromStage
<1>3. /\ label \notin {"rows", "claimFirst", "dispatchUndo"}
      /\ label = "idle" => a # Publisher
  BY EndLabels DEF FinalStatus
<1>4. Opening'
  BY <1>1, <1>3, OpenedBy, OpenStays
<1>5. CASE ~HasNext(k)
  <2>1. step' = step /\ work' = work
    BY <1>5 DEF AdvanceFromStage
  <2>2. label \notin {"compete", "dispatch", "dispatchUndo"}
    BY <1>5 DEF FinalStatus
  <2>3. Harmless
    BY <1>1, <1>2, <2>1, <2>2, MoveClaims DEF Harmless
  <2> QED BY <1>4, <2>3, HarmlessKeeps
<1>6. CASE HasNext(k)
  <2>1. /\ step' = [t \in Step |-> IF t \in claimed THEN "in_progress" ELSE step[t]]
        /\ work' = [work EXCEPT ![a] = claimed]
    BY <1>6 DEF AdvanceFromStage
  <2>2. /\ \A t \in claimed : t \in Step /\ step[t] = "pending"
    BY DEF Claimable, NextRows
  <2>3. /\ Claimed(a)' \subseteq claimed
        /\ \A b \in Actor \ {a} : Claimed(b)' = Claimed(b)
        /\ \A b \in Actor : UndoClaimed(b)' \subseteq UndoClaimed(b)
    BY <1>1, <1>3, <2>1 DEF Claimed, UndoClaimed, Goto, TypeOK
  <2>4. SentOnce'
    BY <1>2, <2>1, <2>2, <2>3 DEF SentOnce
  <2>5. UndoneOnce'
    BY <1>2, <2>1, <2>2, <2>3 DEF UndoneOnce
  <2> QED BY <1>4, <2>4, <2>5
<1> QED BY <1>5, <1>6

\* A publish takes a row out of the claim of the one actor that held it.
LEMMA DispatchInv ==
    ASSUME IInv, NEW a \in Actor, NEW s \in work[a], NEW published \in BOOLEAN,
           DispatchSteps(a, s, published)
    PROVE  Opening' /\ SentOnce' /\ UndoneOnce'
<1> USE GroupsUnchanged DEF IInv
<1> DEFINE label == IF work[a] = {s} THEN Finished(a) ELSE "dispatch"
<1>1. /\ pc[a] = "dispatch" /\ Goto(a, label)
      /\ work' = [work EXCEPT ![a] = @ \ {s}]
      /\ step' = step /\ undone' = undone
  BY DEF DispatchSteps
<1>2. sent' = [sent EXCEPT ![s] = @ + 1] \/ sent' = sent
  BY DEF DispatchSteps, Put
<1>3. s \in Step /\ s \in Claimed(a)
  BY <1>1 DEF TypeOK, Claimed
<1>4. Opening'
  BY <1>1, OpenedBy, OpenStays, EndLabels
<1>5. /\ Claimed(a)' \subseteq Claimed(a) \ {s}
      /\ \A b \in Actor \ {a} : Claimed(b)' = Claimed(b)
      /\ \A b \in Actor : UndoClaimed(b)' \subseteq UndoClaimed(b)
  BY <1>1, EndLabels DEF Claimed, UndoClaimed, Goto, TypeOK
<1>6. SentOnce'
  <2>1. /\ sent[s] = 0
        /\ step[s] \notin {"none", "pending"}
        /\ \A b \in Actor : s \notin Claimed(b)'
    BY <1>3, <1>5 DEF SentOnce
  <2>2. \A t \in Step : sent'[t] = IF t = s THEN sent'[s] ELSE sent[t]
    BY <1>2, <1>3 DEF TypeOK
  <2>3. sent'[s] \in {0, 1}
    BY <1>2, <1>3, <2>1 DEF TypeOK
  <2> QED BY <1>1, <1>5, <2>1, <2>2, <2>3 DEF SentOnce
<1>7. UndoneOnce'
  BY <1>1, <1>5 DEF UndoneOnce
<1> QED BY <1>4, <1>6, <1>7

\* The claims of the compensation: the rows it takes were successful, so no
\* other actor had claimed them and nothing had been sent for them.
LEMMA ClaimUndoInv ==
    ASSUME IInv, NEW a \in Actor, NEW updated \in SUBSET work[a],
           ClaimCompensations(a, updated)
    PROVE  Opening' /\ SentOnce' /\ UndoneOnce'
<1> USE GroupsUnchanged DEF IInv
<1> DEFINE claimed == {t \in updated : step[t] = "success"}
           label == IF updated # work[a] THEN Dropped(a)
                    ELSE IF claimed = {} THEN Finished(a) ELSE "dispatchUndo"
<1>1. /\ pc[a] = "claimUndo" /\ Goto(a, label)
      /\ work' = [work EXCEPT ![a] = IF updated = work[a] THEN claimed ELSE {}]
      /\ step' = Relabel(updated, "success", "compensating")
      /\ sent' = sent /\ undone' = undone
  BY DEF ClaimCompensations
<1>2. Opening'
  BY <1>1, OpenedBy, OpenStays, EndLabels
<1>3. /\ UndoClaimed(a)' \subseteq claimed
      /\ \A b \in Actor \ {a} : UndoClaimed(b)' = UndoClaimed(b)
      /\ \A b \in Actor : Claimed(b)' \subseteq Claimed(b)
  BY <1>1, EndLabels DEF Claimed, UndoClaimed, Goto, TypeOK
<1>4. /\ \A t \in Step : step'[t] = IF t \in updated /\ step[t] = "success"
                                    THEN "compensating" ELSE step[t]
      /\ claimed \subseteq Step
  BY <1>1 DEF Relabel, TypeOK
<1>5. SentOnce'
  BY <1>1, <1>3, <1>4 DEF SentOnce
<1>6. UndoneOnce'
  BY <1>1, <1>3, <1>4 DEF UndoneOnce
<1> QED BY <1>2, <1>5, <1>6

LEMMA DispatchUndoInv ==
    ASSUME IInv, NEW a \in Actor, NEW s \in work[a], NEW published \in BOOLEAN,
           DispatchCompensations(a, s, published)
    PROVE  Opening' /\ SentOnce' /\ UndoneOnce'
<1> USE GroupsUnchanged DEF IInv
<1> DEFINE label == IF work[a] = {s} THEN Finished(a) ELSE "dispatchUndo"
<1>1. /\ pc[a] = "dispatchUndo" /\ Goto(a, label)
      /\ work' = [work EXCEPT ![a] = @ \ {s}]
      /\ step' = step /\ sent' = sent
  BY DEF DispatchCompensations
<1>2. undone' = [undone EXCEPT ![s] = @ + 1] \/ undone' = undone
  BY DEF DispatchCompensations, Put
<1>3. s \in Step /\ s \in UndoClaimed(a)
  BY <1>1 DEF TypeOK, UndoClaimed
<1>4. Opening'
  BY <1>1, OpenedBy, OpenStays, EndLabels
<1>5. /\ UndoClaimed(a)' \subseteq UndoClaimed(a) \ {s}
      /\ \A b \in Actor \ {a} : UndoClaimed(b)' = UndoClaimed(b)
      /\ \A b \in Actor : Claimed(b)' \subseteq Claimed(b)
  BY <1>1, EndLabels DEF Claimed, UndoClaimed, Goto, TypeOK
<1>6. UndoneOnce'
  <2>1. /\ undone[s] = 0
        /\ step[s] \in {"compensating", "compensated"}
        /\ \A b \in Actor : s \notin UndoClaimed(b)'
    BY <1>3, <1>5 DEF UndoneOnce
  <2>2. \A t \in Step : undone'[t] = IF t = s THEN undone'[s] ELSE undone[t]
    BY <1>2, <1>3 DEF TypeOK
  <2>3. undone'[s] \in {0, 1}
    BY <1>2, <1>3, <2>1 DEF TypeOK
  <2> QED BY <1>1, <1>5, <2>1, <2>2, <2>3 DEF UndoneOnce
<1>7. SentOnce'
  BY <1>1, <1>5 DEF SentOnce
<1> QED BY <1>4, <1>6, <1>7

LEMMA ProceedInv ==
    ASSUME IInv, NEW a \in Actor, Proceed(a)
    PROVE  Opening' /\ SentOnce' /\ UndoneOnce'
<1> USE GroupsUnchanged DEF IInv
<1>1. CASE TakeMarkedItems(a)
  <2>1. pc[a] = "compete" /\ Goto(a, "dispatch")
    BY <1>1 DEF TakeMarkedItems
  <2>2. Opening'
    BY <2>1, OpenedBy, OpenStays
  <2>3. Harmless
    BY <1>1, <2>1 DEF TakeMarkedItems, Harmless, Goto, Claimed, UndoClaimed, TypeOK
  <2> QED BY <2>2, <2>3, HarmlessKeeps
<1>2. CASE FinalizeBooking(a)
  <2>1. Opening'
    BY <1>2, OpenedBy, OpenStays, EndLabels DEF FinalizeBooking
  <2>2. Harmless
    BY <1>2, MoveClaims, EndLabels DEF FinalizeBooking, Harmless
  <2> QED BY <2>1, <2>2, HarmlessKeeps
<1>3. CASE RejectAwaitingBooking(a)
  <2>1. Opening'
    BY <1>3, OpenedBy, OpenStays, EndLabels DEF RejectAwaitingBooking
  <2>2. Harmless
    BY <1>3, MoveClaims, EndLabels DEF RejectAwaitingBooking, Harmless
  <2> QED BY <2>1, <2>2, HarmlessKeeps
<1>4. CASE FailPendingSteps(a)
  <2>1. Opening'
    BY <1>4, OpenedBy, OpenStays DEF FailPendingSteps
  <2>2. Harmless
    BY <1>4, MoveClaims, RelabelForward DEF FailPendingSteps, Harmless
  <2> QED BY <2>1, <2>2, HarmlessKeeps
<1>5. CASE CompensateSuccessfulSteps(a)
  <2>1. Opening'
    BY <1>5, OpenedBy, OpenStays, EndLabels DEF CompensateSuccessfulSteps
  <2>2. Harmless
    BY <1>5, MoveClaims, EndLabels DEF CompensateSuccessfulSteps, Harmless, TypeOK
  <2> QED BY <2>1, <2>2, HarmlessKeeps
<1> QED BY <1>1, <1>2, <1>3, <1>4, <1>5, AdvanceInv, DispatchInv, ClaimUndoInv,
           DispatchUndoInv DEF Proceed

LEMMA CompletionHandlerInv ==
    ASSUME IInv, NEW s \in Step, CompletionHandler(s)
    PROVE  Opening' /\ SentOnce' /\ UndoneOnce'
<1> USE GroupsUnchanged DEF IInv
<1>0. s \in Actor /\ s # Publisher
  BY ActorAssumption DEF Actor
<1>1. ASSUME NEW o \in Outcome, ApplyCompletion(s, o)
      PROVE  Opening' /\ SentOnce' /\ UndoneOnce'
  <2>1. pc[Publisher] \notin {"idle", "rows", "claimFirst"}
    BY <1>1 DEF ApplyCompletion, Opening, TypeOK
  <2>2. /\ \/ Goto(s, "maybeAdvance")
           \/ pc' = pc
        /\ work' = work /\ sent' = sent /\ undone' = undone
    BY <1>1 DEF ApplyCompletion
  <2>3. Opening'
    BY <1>0, <2>1, <2>2, OpenStays DEF Opening
  <2>4. Harmless
    <3>1. \A b \in Actor : /\ Claimed(b)' \subseteq Claimed(b)
                           /\ UndoClaimed(b)' \subseteq UndoClaimed(b)
      BY <1>0, <2>2, MoveClaims, StayClaims
    <3>2. step' = step \/ (step[s] = "in_progress" /\ step' = [step EXCEPT ![s] = o])
      BY <1>1 DEF ApplyCompletion, CanSettle
    <3> QED BY <2>2, <3>1, <3>2 DEF Harmless, Outcome, TypeOK
  <2> QED BY <2>3, <2>4, HarmlessKeeps
<1>2. CASE MaybeAdvance(s)
  <2>1. Goto(s, StageVerdict(s)) /\ pc[s] = "maybeAdvance"
    BY <1>2 DEF MaybeAdvance
  <2>2. StageVerdict(s) \in {"done", "pause", "cancel", "advance"}
    BY DEF StageVerdict
  <2>3. Opening'
    BY <1>0, <2>1, <2>2, OpenedBy, OpenStays
  <2>4. Harmless
    BY <1>0, <1>2, <2>1, <2>2, MoveClaims DEF MaybeAdvance, Harmless
  <2> QED BY <2>3, <2>4, HarmlessKeeps
<1>3. CASE PauseForDecision(s)
  <2>1. Opening'
    BY <1>0, <1>3, OpenedBy, OpenStays DEF PauseForDecision
  <2>2. Harmless
    BY <1>0, <1>3, MoveClaims DEF PauseForDecision, Harmless
  <2> QED BY <2>1, <2>2, HarmlessKeeps
<1>4. CASE CancelBooking(s)
  <2>1. Opening'
    BY <1>0, <1>4, OpenedBy, OpenStays DEF CancelBooking
  <2>2. Harmless
    BY <1>0, <1>4, MoveClaims DEF CancelBooking, Harmless
  <2> QED BY <2>1, <2>2, HarmlessKeeps
<1> QED BY <1>1, <1>2, <1>3, <1>4 DEF CompletionHandler

LEMMA DecisionInv ==
    ASSUME IInv,
           \/ \E c \in Client : DecisionRequest(c)
           \/ \E w \in Sweep : ExpireDueDecisions(w)
           \/ DeadlinePasses
    PROVE  Opening' /\ SentOnce' /\ UndoneOnce'
<1> USE GroupsUnchanged DEF IInv
<1>1. ASSUME NEW c \in Client, NEW decision, Decide(c, decision)
      PROVE  Opening' /\ SentOnce' /\ UndoneOnce'
  <2>1. pc[Publisher] \notin {"idle", "rows", "claimFirst"} /\ c \in Actor
    BY <1>1 DEF Decide, Opening, Actor
  <2>2. Opening'
    BY <1>1, <2>1, OpenStays DEF Decide
  <2>3. Harmless
    BY <1>1, <2>1, MoveClaims DEF Decide, Harmless
  <2> QED BY <2>2, <2>3, HarmlessKeeps
<1>2. ASSUME NEW c \in Client, AcceptPartial(c)
      PROVE  Opening' /\ SentOnce' /\ UndoneOnce'
  <2>1. c \in Actor
    BY DEF Actor
  <2>2. Opening'
    BY <1>2, <2>1, OpenedBy, OpenStays DEF AcceptPartial
  <2>3. Harmless
    BY <1>2, <2>1, MoveClaims DEF AcceptPartial, Harmless
  <2> QED BY <2>2, <2>3, HarmlessKeeps
<1>3. ASSUME NEW w \in Sweep, ExpireDueDecisions(w)
      PROVE  Opening' /\ SentOnce' /\ UndoneOnce'
  <2>1. pc[Publisher] \notin {"idle", "rows", "claimFirst"} /\ w \in Actor
    BY <1>3 DEF ExpireDueDecisions, Opening, Actor
  <2>2. Opening'
    BY <1>3, <2>1, OpenStays DEF ExpireDueDecisions
  <2>3. Harmless
    BY <1>3, <2>1, MoveClaims DEF ExpireDueDecisions, Harmless
  <2> QED BY <2>2, <2>3, HarmlessKeeps
<1>4. CASE DeadlinePasses
  <2>1. Opening'
    BY <1>4 DEF DeadlinePasses, Opening
  <2>2. Harmless
    BY <1>4, StayClaims DEF DeadlinePasses, Harmless
  <2> QED BY <2>1, <2>2, HarmlessKeeps
<1> QED BY <1>1, <1>2, <1>3, <1>4 DEF DecisionRequest

LEMMA AgentInv ==
    ASSUME IInv, NEW s \in Step, Agent(s)
    PROVE  Opening' /\ SentOnce' /\ UndoneOnce'
<1> USE GroupsUnchanged DEF IInv
<1>1. ASSUME NEW o \in Outcome, Work(s, o)
      PROVE  Opening' /\ SentOnce' /\ UndoneOnce'
  <2>1. Opening'
    BY <1>1 DEF Work, Opening, TypeOK
  <2>2. Harmless
    BY <1>1, StayClaims DEF Work, Harmless
  <2> QED BY <2>1, <2>2, HarmlessKeeps
<1>2. CASE Undo(s)
  <2>1. Opening'
    BY <1>2 DEF Undo, Opening
  <2>2. Harmless
    BY <1>2, StayClaims DEF Undo, Harmless
  <2> QED BY <2>1, <2>2, HarmlessKeeps
<1>3. CASE ApplyCompensated(s)
  <2>1. Opening'
    BY <1>3 DEF ApplyCompensated, Opening, Relabel
  <2>2. Harmless
    BY <1>3, StayClaims, RelabelForward DEF ApplyCompensated, Harmless
  <2> QED BY <2>1, <2>2, HarmlessKeeps
<1> QED BY <1>1, <1>2, <1>3 DEF Agent

LEMMA FailureInv ==
    ASSUME IInv, Failure PROVE Opening' /\ SentOnce' /\ UndoneOnce'
<1> USE GroupsUnchanged DEF IInv
<1>1. ASSUME NEW s \in Step,
             \/ WorkLost(s)
             \/ UndoLost(s)
             \/ CompensatedDeadLettered(s)
             \/ \E o \in Outcome : WorkRedelivered(s, o) \/ CompletionDeadLettered(s, o)
      PROVE  Opening' /\ SentOnce' /\ UndoneOnce'
  <2>1. UNCHANGED <<booking, step, pc, work, sent, undone>>
    BY <1>1 DEF WorkLost, UndoLost, CompensatedDeadLettered, WorkRedelivered,
                CompletionDeadLettered
  <2>2. Opening'
    <3>1. CASE WorkLost(s)
      BY <3>1 DEF WorkLost, Opening, TypeOK
    <3>2. CASE UndoLost(s) \/ CompensatedDeadLettered(s)
      BY <3>2 DEF UndoLost, CompensatedDeadLettered, Opening
    <3>3. ASSUME NEW o \in Outcome, WorkRedelivered(s, o) PROVE Opening'
      BY <3>3 DEF WorkRedelivered, Opening, TypeOK
    <3>4. ASSUME NEW o \in Outcome, CompletionDeadLettered(s, o) PROVE Opening'
      BY <3>4 DEF CompletionDeadLettered, Opening, TypeOK
    <3> QED BY <1>1, <3>1, <3>2, <3>3, <3>4
  <2>3. Harmless
    BY <2>1, StayClaims DEF Harmless
  <2> QED BY <2>2, <2>3, HarmlessKeeps
<1>2. ASSUME NEW a \in Actor, HandlerFails(a)
      PROVE  Opening' /\ SentOnce' /\ UndoneOnce'
  <2>1. /\ Goto(a, Dropped(a)) /\ pc[a] \notin {"idle", "rows"}
        /\ work' = [work EXCEPT ![a] = {}]
        /\ UNCHANGED <<booking, step, dispatched, completed, sent, undone>>
    BY <1>2 DEF HandlerFails, DbAwaiting, Awaiting
  <2>2. Opening'
    BY <2>1, EndLabels DEF Opening, Goto, TypeOK, Actor
  <2>3. Harmless
    BY <2>1, MoveClaims, EndLabels DEF Harmless, TypeOK
  <2> QED BY <2>2, <2>3, HarmlessKeeps
<1>3. CASE Crash
  <2>1. /\ pc' = [a \in Actor |-> IF pc[a] \in Awaiting THEN Dropped(a) ELSE pc[a]]
        /\ work' = [a \in Actor |-> {}]
        /\ UNCHANGED <<booking, step, dispatched, sent, undone>>
        /\ \E a \in Actor : pc[a] \in Awaiting
    BY <1>3 DEF Crash
  <2>2. \A a \in Actor : pc'[a] \notin {"rows", "claimFirst", "compete", "dispatch",
                                     "dispatchUndo"}
    BY <2>1, EndLabels DEF Awaiting, PC, TypeOK
  <2>3. pc'[Publisher] # "idle"
    BY <2>1, EndLabels DEF Opening, Awaiting, TypeOK, Actor
  <2>4. Opening'
    BY <2>2, <2>3 DEF Opening, Actor
  <2>5. Harmless
    BY <2>1 DEF Harmless, Claimed, UndoClaimed
  <2> QED BY <2>4, <2>5, HarmlessKeeps
<1> QED BY <1>1, <1>2, <1>3 DEF Failure

LEMMA NextInv ==
    ASSUME IInv, [Next]_vars PROVE IInv'
<1>1. TypeOK'
  BY NextType DEF IInv
<1>2. CASE Next
  <2>1. Opening' /\ SentOnce' /\ UndoneOnce'
    BY <1>2, PublishInv, ProceedInv, CompletionHandlerInv, DecisionInv, AgentInv,
       FailureInv DEF Next
  <2> QED BY <1>1, <2>1 DEF IInv
<1>3. CASE UNCHANGED vars
  <2>1. UNCHANGED <<booking, step, pc, work, dispatched, completed, sent, undone>>
    BY <1>3, GroupsUnchanged DEF vars
  <2>2. Opening'
    BY <2>1 DEF IInv, Opening
  <2>3. Harmless
    BY <2>1, StayClaims DEF Harmless
  <2> QED BY <1>1, <2>2, <2>3, HarmlessKeeps DEF IInv
<1> QED BY <1>2, <1>3

\* The strengthening holds in every reachable state: a row that somebody has
\* claimed is claimed by one actor, and nothing has been sent for it yet.
THEOREM InductiveInvariant == Spec => []IInv
BY InitInv, NextInv, PTL DEF Spec

\* No row is dispatched twice and none is compensated twice: not by racing
\* completions, decisions and sweeps, nor by redelivered messages, crashes,
\* database errors and lost publishes, in any number.
THEOREM EveryCommandOnce == Spec => []CommandedOnce
<1>1. IInv => CommandedOnce
  BY DEF IInv, SentOnce, UndoneOnce, CommandedOnce
<1> QED BY <1>1, InductiveInvariant, PTL

-----------------------------------------------------------------------------
(***************************************************************************)
(* That the saga keeps what BookingLifecycle promises in the behaviours    *)
(* that pause the booking once; and that it comes to rest only where it    *)
(* may.                                                                    *)
(***************************************************************************)

\* What a step does to the rows unless it claims to be an exception: nothing
\* that was begun, succeeded, failed or was accepted is taken back.
Keeps ==
    /\ accepted => accepted'
    /\ \A s \in Step :
         /\ step[s] = "failed" => step'[s] = "failed"
         /\ step[s] = "success" /\ booking # "failed" => step'[s] = "success"
         /\ Begun(s) => Begun(s)'
         /\ step'[s] = "pending" => step[s] = "pending"

LEMMA StillMixed ==
    ASSUME Keeps, booking # "failed", Lifecycle!Mixed
    PROVE  Lifecycle!Mixed'
BY DEF Keeps, Lifecycle!Mixed, Lifecycle!Asked

LEMMA StillCleared ==
    ASSUME Keeps, booking # "failed", NEW s \in Step, Lifecycle!Cleared(s)
    PROVE  Lifecycle!Cleared(s)'
BY StillMixed DEF Keeps, Lifecycle!Cleared, Lifecycle!Asked

LEMMA StillHopeless ==
    ASSUME Keeps, Lifecycle!Hopeless
    PROVE  Lifecycle!Hopeless'
BY DEF Keeps, Lifecycle!Hopeless, Lifecycle!Asked

\* A row that is cleared has its outcome.
LEMMA ClearedIsSettled ==
    ASSUME NEW s \in Step, Lifecycle!Cleared(s)
    PROVE  step[s] \in Outcome
BY DEF Lifecycle!Cleared, Lifecycle!Mixed, Lifecycle!Asked, Outcome

LEMMA AllClearedStay ==
    ASSUME Keeps, booking # "failed", \A s \in Step : Lifecycle!Cleared(s)
    PROVE  /\ \A s \in Step : Lifecycle!Cleared(s)'
           /\ Lifecycle!Mixed' <=> Lifecycle!Mixed
<1>1. \A s \in Step : Lifecycle!Cleared(s)'
  BY StillCleared
<1>2. \A s \in Step : step'[s] = step[s]
  BY ClearedIsSettled DEF Keeps, Outcome
<1> QED BY <1>1, <1>2 DEF Lifecycle!Mixed, Lifecycle!Asked

\* What an actor has read is not spoilt by what others do.
LEMMA StillInformed ==
    ASSUME NEW a \in Actor, Informed(a), Keeps,
           booking = "failed" <=> booking' = "failed",
           pc'[a] = pc[a], work'[a] \subseteq work[a]
    PROVE  Informed(a)'
<1>1. pc[a] = "advance" /\ booking = "failed" => Past(FromStage(a))'
  BY DEF Informed, Past, Keeps, NextRows
<1>2. pc[a] = "advance" /\ booking # "failed" => Reached(FromStage(a))'
  BY StillCleared DEF Informed, Reached, Keeps, RowsAt
<1>3. pc[a] = "pause" => booking = "failed" \/ Lifecycle!Mixed'
  BY StillMixed DEF Informed
<1>4. pc[a] = "cancel" => Lifecycle!Hopeless'
  BY StillHopeless DEF Informed
<1>5. pc[a] \in {"confirmed", "partially_confirmed"} =>
        \/ booking = "failed"
        \/ /\ \A s \in Step : Lifecycle!Cleared(s)'
           /\ pc[a] = "partially_confirmed" <=> Lifecycle!Mixed'
  BY AllClearedStay DEF Informed
<1>6. pc[a] = "maybeAdvance" => a \in Step /\ Begun(a)'
  BY DEF Informed, Keeps
<1> QED BY <1>1, <1>2, <1>3, <1>4, <1>5, <1>6 DEF Informed

\* Where nothing need be known.
LEMMA NothingToKnow ==
    ASSUME NEW a \in Actor,
           pc'[a] \in {"idle", "rows", "claimFirst", "compete", "dispatch",
                       "reject", "accept", "done", "dead"}
    PROVE  Informed(a)'
BY DEF Informed

LEMMA AllInformed ==
    ASSUME TypeOK, \A b \in Actor : Informed(b), Keeps,
           booking = "failed" <=> booking' = "failed",
           NEW a \in Actor, NEW label, Goto(a, label),
           \A b \in Actor \ {a} : work'[b] = work[b],
           Informed(a)'
    PROVE  \A b \in Actor : Informed(b)'
<1>1. \A b \in Actor \ {a} : pc'[b] = pc[b]
  BY DEF TypeOK, Goto
<1> QED BY <1>1, StillInformed

LEMMA NothingMoves ==
    ASSUME \A b \in Actor : Informed(b), Keeps,
           booking = "failed" <=> booking' = "failed",
           UNCHANGED control
    PROVE  \A b \in Actor : Informed(b)'
BY StillInformed, GroupsUnchanged

-----------------------------------------------------------------------------
(* Steps that leave the rows of the database alone. *)

LEMMA SameRows ==
    ASSUME RowsInv, UNCHANGED <<booking, step, accepted, pauses>>,
           pc[Publisher] = "idle" <=> pc'[Publisher] = "idle",
           pc'[Publisher] \in {"rows", "claimFirst"} => pc'[Publisher] = pc[Publisher]
    PROVE  RowsInv' /\ Keeps
<1> USE DEF Lifecycle!Cleared, Lifecycle!Mixed, Lifecycle!Asked, Begun
<1>1. InOrder'
  BY DEF RowsInv, InOrder
<1>2. Ended'
  BY DEF RowsInv, Ended, Blocks
<1>3. Created'
  BY DEF RowsInv, Created
<1>4. AskedOnce'
  BY DEF RowsInv, AskedOnce
<1>5. Keeps
  BY DEF Keeps
<1> QED BY <1>1, <1>2, <1>3, <1>4, <1>5 DEF RowsInv

\* An actor that is not about to open the booking goes on.
LEMMA PublisherRuns ==
    ASSUME TypeOK, NEW a \in Actor, NEW label, Goto(a, label),
           label \notin {"rows", "claimFirst"}, label = "idle" => a # Publisher,
           pc[a] = "idle" => a # Publisher
    PROVE  /\ pc[Publisher] = "idle" <=> pc'[Publisher] = "idle"
           /\ pc'[Publisher] \in {"rows", "claimFirst"} => pc'[Publisher] = pc[Publisher]
BY DEF TypeOK, Goto, Actor

Inv == RowsInv /\ \A a \in Actor : Informed(a)

LEMMA GoesOn ==
    ASSUME TypeOK, Inv, UNCHANGED <<booking, step, accepted, pauses>>,
           NEW a \in Actor, NEW label, Goto(a, label),
           label \notin {"rows", "claimFirst"}, label = "idle" => a # Publisher,
           pc[a] = "idle" => a # Publisher,
           \A b \in Actor \ {a} : work'[b] = work[b],
           Keeps => Informed(a)'
    PROVE  Inv'
<1>1. RowsInv' /\ Keeps
  BY PublisherRuns, SameRows DEF Inv
<1> QED BY <1>1, AllInformed DEF Inv

LEMMA StandsStill ==
    ASSUME Inv, UNCHANGED <<booking, step, accepted, pauses, pc, work>>
    PROVE  Inv'
<1>1. RowsInv' /\ Keeps
  BY SameRows DEF Inv
<1>2. UNCHANGED control
  BY DEF control
<1> QED BY <1>1, <1>2, NothingMoves DEF Inv

-----------------------------------------------------------------------------
(* advanceFromStage *)

LEMMA Numbers ==
    /\ \A s \in Step : Stage[s] \in Nat
    /\ \A a : FromStage(a) \in Nat
BY GraphAssumption DEF FromStage

LEMMA NothingClaimed ==
    ASSUME TypeOK, Inv, NEW a \in Actor, AdvanceFromStage(a), HasNext(FromStage(a)),
           Claimable(FromStage(a)) = {}
    PROVE  Inv'
<1>1. /\ step' = [t \in Step |-> step[t]] /\ work' = [work EXCEPT ![a] = {}]
      /\ Goto(a, Finished(a)) /\ pc[a] = "advance"
      /\ UNCHANGED <<booking, accepted, pauses>>
  BY GroupsUnchanged DEF AdvanceFromStage
<1>2. step' = step
  BY <1>1 DEF TypeOK
<1>3. Informed(a)'
  BY <1>1, NothingToKnow, EndLabels DEF TypeOK, Goto
<1> QED BY <1>1, <1>2, <1>3, GoesOn, EndLabels DEF TypeOK

\* The rows of the next stage are pending only if nobody is asked, nothing is
\* confirmed and nothing has failed.
LEMMA ClaimsInProgress ==
    ASSUME IInv, Inv, NEW a \in Actor, pc[a] = "advance",
           NEW t \in Claimable(FromStage(a))
    PROVE  booking = "in_progress"
<1> DEFINE k == FromStage(a)
<1>1. /\ t \in NextRows(k) /\ t \in Step /\ step[t] = "pending" /\ Stage[t] > k
      /\ \A u \in Step : Stage[u] > k => Stage[t] <= Stage[u]
  BY DEF Claimable, NextRows
<1>2. Informed(a) /\ InOrder /\ Ended /\ Created /\ AskedOnce
  BY DEF Inv, RowsInv
<1>3. booking # "failed"
  BY <1>1, <1>2 DEF Informed, Past
<1>4. Reached(k)
  BY <1>2, <1>3 DEF Informed
<1>5. booking # "none"
  BY <1>2 DEF IInv, Opening, Created
<1>6. booking \notin {"confirmed", "partially_confirmed"}
  BY <1>1, <1>2, ClearedIsSettled DEF Ended, Outcome
<1>7. booking # "awaiting_user_decision"
  <2> SUFFICES ASSUME booking = "awaiting_user_decision" PROVE FALSE
    OBVIOUS
  <2>1. PICK r \in Step : Stage[r] = AskStage /\ step[r] = "failed"
    BY <1>2 DEF AskedOnce, Lifecycle!Mixed, Lifecycle!Asked
  <2>2. ~accepted
    BY <1>2 DEF AskedOnce
  <2>3. ~Lifecycle!Cleared(r)
    BY <2>1, <2>2 DEF Lifecycle!Cleared
  <2>4. Stage[r] > k
    BY <1>4, <2>3, Numbers DEF Reached
  <2>5. Stage[t] = Stage[r] \/ Stage[t] < Stage[r]
    BY <1>1, <2>4, Numbers
  <2>6. Lifecycle!Cleared(t) \/ Begun(t)
    <3>1. Begun(r)
      BY <2>1 DEF Begun
    <3> QED BY <1>1, <1>2, <1>3, <2>5, <3>1 DEF InOrder
  <2> QED BY <1>1, <2>6, ClearedIsSettled DEF Outcome, Begun
<1> QED BY <1>3, <1>5, <1>6, <1>7 DEF IInv, TypeOK, BookingStatus

\* The rows an actor claims are the pending ones of the stage that is next.
LEMMA ClaimedRows ==
    ASSUME NEW k \in Nat, NEW t \in NextRows(k)
    PROVE  /\ t \in Step
           /\ \A u \in Step : Stage[u] < Stage[t] => Stage[u] <= k
           /\ NextRows(k) = RowsAt(Stage[t])
BY Numbers DEF NextRows, RowsAt

LEMMA StageClaimed ==
    ASSUME IInv, Inv, NEW a \in Actor, AdvanceFromStage(a), HasNext(FromStage(a)),
           NEW t \in Claimable(FromStage(a))
    PROVE  /\ Inv'
           /\ Lifecycle!Begin(Stage[t])
<1> DEFINE k == FromStage(a)
           claimed == Claimable(k)
           ask == \E u \in claimed : Stage[u] = AskStage
           label == IF claimed = {} THEN Finished(a)
                    ELSE IF ask THEN "compete" ELSE "dispatch"
<1>1. /\ step' = [u \in Step |-> IF u \in claimed THEN "in_progress" ELSE step[u]]
      /\ work' = [work EXCEPT ![a] = claimed]
      /\ Goto(a, label)
      /\ pc[a] = "advance"
      /\ UNCHANGED <<booking, accepted, pauses>>
  BY GroupsUnchanged DEF AdvanceFromStage
<1>2. TypeOK /\ Informed(a) /\ RowsInv /\ booking = "in_progress"
  BY <1>1, ClaimsInProgress DEF IInv, Inv
<1>3. label \in {"compete", "dispatch"}
  OBVIOUS
<1>4. /\ t \in NextRows(k) /\ step[t] = "pending" /\ k \in Nat
      /\ claimed = {u \in RowsAt(Stage[t]) : step[u] = "pending"}
  BY Numbers, ClaimedRows DEF Claimable
<1>5. t \in Step /\ \A u \in Step : Stage[u] < Stage[t] => Stage[u] <= k
  BY <1>4, ClaimedRows
<1>6. Keeps
  BY <1>1, <1>2, <1>4 DEF Keeps, Begun, TypeOK
<1>7. Reached(k)
  BY <1>1, <1>2 DEF Informed
<1>8. \A u \in Step : Stage[u] < Stage[t] => Lifecycle!Cleared(u)
  BY <1>5, <1>7 DEF Reached
<1>9. \A u \in Step : step[u] # "none"
  BY <1>2, <1>7 DEF RowsInv, Created, Reached, RowsAt
<1>10. \A u \in RowsAt(Stage[t]) : Begun(u)'
  BY <1>1, <1>4, <1>9 DEF Begun, RowsAt
<1>11. InOrder'
  <2> SUFFICES ASSUME NEW s \in Step, NEW u \in Step, Begun(s)'
               PROVE  /\ step'[s] \notin {"compensating", "compensated"}
                      /\ Stage[u] < Stage[s] => Lifecycle!Cleared(u)'
                      /\ Stage[u] = Stage[s] => Begun(u)'
    BY DEF InOrder
  <2>1. CASE s \in claimed
    <3>1. Stage[s] = Stage[t] /\ step'[s] = "in_progress"
      BY <1>1, <1>4, <2>1 DEF RowsAt
    <3>2. Stage[u] < Stage[s] => Lifecycle!Cleared(u)'
      BY <1>2, <1>6, <1>8, <3>1, StillCleared
    <3>3. Stage[u] = Stage[s] => Begun(u)'
      BY <1>10, <3>1 DEF RowsAt
    <3> QED BY <3>1, <3>2, <3>3
  <2>2. CASE s \notin claimed
    <3>1. step'[s] = step[s] /\ Begun(s)
      BY <1>1, <2>2 DEF Begun
    <3>2. /\ step[s] \notin {"compensating", "compensated"}
          /\ Stage[u] < Stage[s] => Lifecycle!Cleared(u)
          /\ Stage[u] = Stage[s] => Begun(u)
      BY <1>2, <3>1 DEF RowsInv, InOrder
    <3>3. Stage[u] < Stage[s] => Lifecycle!Cleared(u)'
      BY <1>2, <1>6, <3>2, StillCleared
    <3>4. Stage[u] = Stage[s] => Begun(u)'
      BY <1>6, <3>2 DEF Keeps
    <3> QED BY <3>1, <3>2, <3>3, <3>4
  <2> QED BY <2>1, <2>2
<1>12. Ended'
  BY <1>1, <1>2 DEF Ended
<1>13. Created'
  <2>1. \A u \in Step : step'[u] # "none"
    BY <1>1, <1>9
  <2>2. pc[Publisher] # "idle" /\ pc'[Publisher] # "idle"
    BY <1>1, <1>2, <1>3 DEF RowsInv, Created, Goto, TypeOK, Actor
  <2> QED BY <1>1, <1>2, <2>1, <2>2 DEF Created
<1>14. AskedOnce'
  BY <1>1, <1>2 DEF RowsInv, AskedOnce
<1>15. \A b \in Actor : Informed(b)'
  <2>1. Informed(a)'
    BY <1>1, <1>2, <1>3, NothingToKnow DEF Goto, TypeOK
  <2>2. \A b \in Actor \ {a} : work'[b] = work[b]
    BY <1>1, <1>2 DEF TypeOK
  <2>3. booking = "failed" <=> booking' = "failed"
    BY <1>1
  <2> HIDE DEF label
  <2> QED BY <1>1, <1>2, <1>6, <2>1, <2>2, <2>3, AllInformed DEF Inv
<1>16. Lifecycle!Begin(Stage[t])
  <2>1. step' = Lifecycle!Relabelled(RowsAt(Stage[t]), "pending", "in_progress")
    BY <1>1, <1>4 DEF Lifecycle!Relabelled, RowsAt
  <2> QED BY <1>1, <1>2, <1>8, <2>1 DEF Lifecycle!Begin, Lifecycle!Open, RowsAt
<1> QED BY <1>11, <1>12, <1>13, <1>14, <1>15, <1>16 DEF Inv, RowsInv

\* After the last stage every row is cleared, so the rows of the all_or_ask
\* stage are the whole difference between the two ways of confirming.
LEMMA LastStage ==
    ASSUME IInv, Inv, NEW a \in Actor, AdvanceFromStage(a), ~HasNext(FromStage(a))
    PROVE  Inv' /\ UNCHANGED Lifecycle!vars
<1>1. /\ Goto(a, FinalStatus) /\ UNCHANGED <<booking, step, accepted, pauses, work>>
      /\ pc[a] = "advance"
  BY GroupsUnchanged DEF AdvanceFromStage
<1>2. TypeOK /\ Informed(a)
  BY DEF IInv, Inv
<1>3. FinalStatus \in {"confirmed", "partially_confirmed"} /\ pc'[a] = FinalStatus
  BY <1>1, <1>2 DEF FinalStatus, Goto, TypeOK
<1>4. ASSUME booking # "failed"
      PROVE  /\ \A s \in Step : Lifecycle!Cleared(s)
             /\ FinalStatus = "partially_confirmed" <=> Lifecycle!Mixed
  <2>1. \A s \in Step : Stage[s] <= FromStage(a)
    <3> DEFINE k == FromStage(a)
    <3>1. k \in Nat /\ \A s \in Step : Stage[s] \in Nat
      BY Numbers
    <3>2. \A s \in Step : ~(Stage[s] > k)
      BY DEF HasNext
    <3> HIDE DEF k
    <3>3. ASSUME NEW s \in Step PROVE Stage[s] <= k
      <4>1. Stage[s] \in Nat /\ ~(Stage[s] > k)
        BY <3>1, <3>2
      <4> QED BY <3>1, <4>1
    <3> QED BY <3>3 DEF k
  <2>2. \A s \in Step : Lifecycle!Cleared(s)
    BY <1>1, <1>2, <1>4, <2>1 DEF Informed, Reached
  <2>3. \A s \in Step : step[s] \in {"success", "failed"}
    BY <2>2, ClearedIsSettled DEF Outcome
  <2> QED BY <2>2, <2>3
          DEF FinalStatus, HasStatus, RowsAt, Lifecycle!Mixed, Lifecycle!Asked
<1>5. ASSUME Keeps PROVE Informed(a)'
  <2>1. \A s \in Step : Lifecycle!Cleared(s)' <=> Lifecycle!Cleared(s)
    BY <1>1 DEF Lifecycle!Cleared, Lifecycle!Mixed, Lifecycle!Asked
  <2>2. Lifecycle!Mixed' <=> Lifecycle!Mixed
    BY <1>1 DEF Lifecycle!Mixed, Lifecycle!Asked
  <2> QED BY <1>1, <1>3, <1>4, <2>1, <2>2 DEF Informed
<1>6. Inv'
  BY <1>1, <1>2, <1>3, <1>5, GoesOn
<1> QED BY <1>1, <1>6 DEF Lifecycle!vars

LEMMA AdvanceOrder ==
    ASSUME IInv, Inv, NEW a \in Actor, AdvanceFromStage(a)
    PROVE  Inv' /\ [Lifecycle!Next]_(Lifecycle!vars)
<1> DEFINE k == FromStage(a)
<1>1. CASE ~HasNext(k)
  BY <1>1, LastStage
<1>2. CASE HasNext(k) /\ Claimable(k) = {}
  <2>1. Inv'
    BY <1>2, NothingClaimed DEF IInv
  <2>2. UNCHANGED Lifecycle!vars
    <3>1. step' = [t \in Step |-> step[t]] /\ UNCHANGED <<booking, accepted>>
      BY <1>2, GroupsUnchanged DEF AdvanceFromStage
    <3> QED BY <3>1 DEF IInv, TypeOK, Lifecycle!vars
  <2> QED BY <2>1, <2>2
<1>3. CASE HasNext(k) /\ Claimable(k) # {}
  <2>1. PICK t \in Claimable(k) : TRUE
    BY <1>3
  <2>2. t \in Step
    BY <2>1 DEF Claimable, NextRows
  <2> QED BY <1>3, <2>1, <2>2, StageClaimed DEF Lifecycle!Next
<1> QED BY <1>1, <1>2, <1>3

-----------------------------------------------------------------------------
(* Handlers that go on without changing a row. *)

Follows == Inv' /\ [Lifecycle!Next]_(Lifecycle!vars)

LEMMA Going ==
    ASSUME IInv, Inv, UNCHANGED <<booking, step, accepted, pauses>>,
           NEW a \in Actor, NEW label, Goto(a, label),
           label \notin {"rows", "claimFirst"}, label = "idle" => a # Publisher,
           pc[a] = "idle" => a # Publisher,
           \A b \in Actor \ {a} : work'[b] = work[b],
           Keeps /\ pc'[a] = label => Informed(a)'
    PROVE  Follows
<1>1. Inv'
  BY GoesOn DEF IInv, TypeOK, Goto
<1> QED BY <1>1 DEF Follows, Lifecycle!vars

\* The stage a handler finds complete, or finds lost, is so when it acts on it.
LEMMA VerdictStands ==
    ASSUME TypeOK, Inv, NEW s \in Step, pc[s] = "maybeAdvance"
    PROVE  /\ StageVerdict(s) \in {"done", "pause", "cancel", "advance"}
           /\ StageVerdict(s) = "pause" => Lifecycle!Mixed
           /\ StageVerdict(s) = "cancel" => Lifecycle!Hopeless
           /\ StageVerdict(s) = "advance" =>
                IF booking = "failed" THEN Past(Stage[s]) ELSE Reached(Stage[s])
<1> DEFINE peers == RowsAt(Stage[s])
<1>1. Informed(s) /\ RowsInv /\ Begun(s)
  BY DEF Inv, Informed, Actor
<1>2. StageVerdict(s) \in {"done", "pause", "cancel", "advance"}
  BY DEF StageVerdict
<1>3. ASSUME StageVerdict(s) = "pause" PROVE Lifecycle!Mixed
  <2>1. /\ Stage[s] = AskStage /\ AllSettled(peers)
        /\ HasStatus(peers, "success") /\ HasStatus(peers, "failed")
    BY <1>3 DEF StageVerdict
  <2> QED BY <2>1 DEF Lifecycle!Mixed, Lifecycle!Asked, AllSettled, HasStatus,
                      RowsAt, Outcome
<1>4. ASSUME StageVerdict(s) = "cancel" PROVE Lifecycle!Hopeless
  <2>1. /\ HasStatus(peers, "failed")
        /\ Stage[s] = AskStage => AllSettled(peers) /\ ~HasStatus(peers, "success")
    BY <1>4 DEF StageVerdict
  <2> QED BY <2>1 DEF Lifecycle!Hopeless, Lifecycle!Asked, AllSettled, HasStatus,
                      RowsAt, Outcome
<1>5. ASSUME StageVerdict(s) = "advance" PROVE \A t \in peers : step[t] = "success"
  BY <1>5 DEF StageVerdict, AllSuccess
<1>6. ASSUME StageVerdict(s) = "advance", booking = "failed" PROVE Past(Stage[s])
  <2>1. PICK t \in Step : Blocks(t)
    BY <1>1, <1>6 DEF RowsInv, Ended
  <2>2. step[s] = "success" /\ Stage[t] # Stage[s]
    BY <1>5, <1>6, <2>1 DEF Blocks, RowsAt
  <2>3. Stage[s] <= Stage[t]
    BY <2>1, <2>2 DEF Blocks
  <2>4. Stage[t] > Stage[s]
    BY <2>2, <2>3, Numbers
  <2>5. ASSUME NEW u \in NextRows(Stage[s]) PROVE step[u] # "pending"
    <3>1. u \in Step /\ Stage[u] <= Stage[t]
      BY <2>4 DEF NextRows
    <3> QED BY <2>1, <3>1 DEF Blocks, Begun
  <2> QED BY <2>5 DEF Past
<1>7. ASSUME StageVerdict(s) = "advance", booking # "failed" PROVE Reached(Stage[s])
  <2>1. ASSUME NEW u \in Step, Stage[u] <= Stage[s] PROVE Lifecycle!Cleared(u)
    <3>1. Stage[u] < Stage[s] \/ Stage[u] = Stage[s]
      BY <2>1, Numbers
    <3>2. Stage[u] < Stage[s] => Lifecycle!Cleared(u)
      BY <1>1, <1>7 DEF RowsInv, InOrder
    <3>3. Stage[u] = Stage[s] => Lifecycle!Cleared(u)
      BY <1>5, <1>7 DEF RowsAt, Lifecycle!Cleared
    <3> QED BY <3>1, <3>2, <3>3
  <2> QED BY <1>1, <2>1 DEF Reached, RowsAt
<1> QED BY <1>2, <1>3, <1>4, <1>6, <1>7

LEMMA VerdictOrder ==
    ASSUME IInv, Inv, NEW s \in Step, MaybeAdvance(s)
    PROVE  Follows
<1>1. /\ pc[s] = "maybeAdvance" /\ Goto(s, StageVerdict(s)) /\ s \in Actor
      /\ UNCHANGED <<booking, step, accepted, pauses, work>>
  BY GroupsUnchanged DEF MaybeAdvance, Actor
<1>2. /\ StageVerdict(s) \in {"done", "pause", "cancel", "advance"}
      /\ StageVerdict(s) = "pause" => Lifecycle!Mixed
      /\ StageVerdict(s) = "cancel" => Lifecycle!Hopeless
      /\ StageVerdict(s) = "advance" =>
           IF booking = "failed" THEN Past(Stage[s]) ELSE Reached(Stage[s])
  BY <1>1, VerdictStands DEF IInv
<1>3. /\ Lifecycle!Mixed' <=> Lifecycle!Mixed
      /\ Lifecycle!Hopeless' <=> Lifecycle!Hopeless
      /\ \A u : Lifecycle!Cleared(u)' <=> Lifecycle!Cleared(u)
  BY <1>1 DEF Lifecycle!Mixed, Lifecycle!Hopeless, Lifecycle!Asked, Lifecycle!Cleared
<1>4. /\ Past(Stage[s])' <=> Past(Stage[s])
      /\ Reached(Stage[s])' <=> Reached(Stage[s])
  BY <1>1, <1>3 DEF Past, Reached, RowsAt, NextRows, Begun
<1>5. FromStage(s) = Stage[s]
  BY DEF FromStage
<1>6. ASSUME pc'[s] = StageVerdict(s) PROVE Informed(s)'
  BY <1>1, <1>2, <1>3, <1>4, <1>5, <1>6 DEF Informed
<1> QED BY <1>1, <1>2, <1>6, Going

\* Publishing, reading what to undo, a decision, a timer and a handler that
\* throws change no row.
LEMMA DispatchOrder ==
    ASSUME IInv, Inv, NEW a \in Actor, NEW s, NEW published,
           \/ DispatchSteps(a, s, published)
           \/ DispatchCompensations(a, s, published)
    PROVE  Follows
<1>1. UNCHANGED <<booking, step, accepted, pauses>>
  BY GroupsUnchanged DEF DispatchSteps, DispatchCompensations
<1>2. \A b \in Actor \ {a} : work'[b] = work[b]
  BY DEF DispatchSteps, DispatchCompensations, IInv, TypeOK
<1>3. /\ Finished(a) \in {"idle", "done"}
      /\ Finished(a) = "idle" => a # Publisher
  BY EndLabels
<1>4. CASE DispatchSteps(a, s, published)
  <2> DEFINE label == IF work[a] = {s} THEN Finished(a) ELSE "dispatch"
  <2>1. Goto(a, label) /\ pc[a] = "dispatch"
    BY <1>4 DEF DispatchSteps
  <2>2. label \in {"idle", "done", "dispatch"} /\ (label = "idle" => a # Publisher)
    BY <1>3
  <2> HIDE DEF label
  <2>3. pc'[a] = label => Informed(a)'
    BY <2>2, NothingToKnow
  <2> QED BY <1>1, <1>2, <2>1, <2>2, <2>3, Going
<1>5. CASE DispatchCompensations(a, s, published)
  <2> DEFINE label == IF work[a] = {s} THEN Finished(a) ELSE "dispatchUndo"
  <2>1. Goto(a, label) /\ pc[a] = "dispatchUndo"
    BY <1>5 DEF DispatchCompensations
  <2>2. /\ label \in {"idle", "done", "dispatchUndo"}
        /\ label = "idle" => a # Publisher
    BY <1>3
  <2> HIDE DEF label
  <2>3. booking' = "failed"
    BY <1>1, <2>1 DEF Inv, Informed
  <2>4. pc'[a] = label => Informed(a)'
    BY <2>2, <2>3 DEF Informed
  <2> QED BY <1>1, <1>2, <2>1, <2>2, <2>4, Going
<1> QED BY <1>4, <1>5

LEMMA ReadToUndoOrder ==
    ASSUME IInv, Inv, NEW a \in Actor, CompensateSuccessfulSteps(a)
    PROVE  Follows
<1> DEFINE label == IF Eligible = {} THEN Finished(a) ELSE "claimUndo"
<1>1. /\ UNCHANGED <<booking, step, accepted, pauses>> /\ Goto(a, label)
      /\ pc[a] = "compensate" /\ work' = [work EXCEPT ![a] = Eligible]
  BY GroupsUnchanged DEF CompensateSuccessfulSteps
<1>2. work'[a] \subseteq Compensatable /\ \A b \in Actor \ {a} : work'[b] = work[b]
  BY <1>1 DEF IInv, TypeOK, Eligible
<1>3. /\ label \in {"idle", "done", "claimUndo"}
      /\ label = "idle" => a # Publisher
  BY EndLabels
<1>4. booking' = "failed"
  BY <1>1 DEF Inv, Informed
<1> HIDE DEF label
<1>5. pc'[a] = label => Informed(a)'
  BY <1>2, <1>3, <1>4 DEF Informed
<1> QED BY <1>1, <1>2, <1>3, <1>5, Going

LEMMA CompeteOrder ==
    ASSUME IInv, Inv, NEW a \in Actor, TakeMarkedItems(a)
    PROVE  Follows
<1>1. /\ UNCHANGED <<booking, step, accepted, pauses, work>>
      /\ Goto(a, "dispatch") /\ pc[a] = "compete"
  BY GroupsUnchanged DEF TakeMarkedItems
<1> QED BY <1>1, NothingToKnow, Going

LEMMA DecideOrder ==
    ASSUME IInv, Inv, NEW a \in Actor,
           \/ a \in Client /\ \E decision : Decide(a, decision)
           \/ a \in Sweep /\ ExpireDueDecisions(a)
    PROVE  Follows
<1>1. UNCHANGED <<booking, step, accepted, pauses, work>>
  BY GroupsUnchanged DEF Decide, ExpireDueDecisions
<1>2. Goto(a, "reject") \/ Goto(a, "accept")
  BY DEF Decide, ExpireDueDecisions
<1>3. a # Publisher
  BY ActorAssumption
<1>4. pc'[a] \in {"reject", "accept"} => Informed(a)'
  BY NothingToKnow
<1>5. CASE Goto(a, "reject")
  BY <1>1, <1>3, <1>4, <1>5, Going
<1>6. CASE Goto(a, "accept")
  BY <1>1, <1>3, <1>4, <1>6, Going
<1> QED BY <1>2, <1>5, <1>6

LEMMA HandlerFailsOrder ==
    ASSUME IInv, Inv, NEW a \in Actor, HandlerFails(a)
    PROVE  Follows
<1>1. UNCHANGED <<booking, step, accepted, pauses>> /\ Goto(a, Dropped(a))
  BY GroupsUnchanged DEF HandlerFails
<1>2. pc[a] # "idle" /\ \A b \in Actor \ {a} : work'[b] = work[b]
  BY DEF HandlerFails, DbAwaiting, Awaiting, IInv, TypeOK
<1>3. Dropped(a) \in {"idle", "dead"} /\ (Dropped(a) = "idle" => a # Publisher)
  BY EndLabels
<1>4. pc'[a] = Dropped(a) => Informed(a)'
  BY <1>3, NothingToKnow
<1> QED BY <1>1, <1>2, <1>3, <1>4, Going

LEMMA CrashOrder ==
    ASSUME IInv, Inv, Crash
    PROVE  Follows
<1>1. /\ UNCHANGED <<booking, step, accepted, pauses>>
      /\ work' = [a \in Actor |-> {}]
      /\ pc' = [a \in Actor |-> IF pc[a] \in Awaiting THEN Dropped(a) ELSE pc[a]]
  BY GroupsUnchanged DEF Crash
<1>2. \A a \in Actor : \/ pc'[a] = pc[a] /\ pc[a] \notin Awaiting
                       \/ pc'[a] = Dropped(a) /\ pc[a] \in Awaiting
  BY <1>1
<1>3. Publisher \in Actor
  BY DEF Actor
<1>4. /\ pc[Publisher] = "idle" <=> pc'[Publisher] = "idle"
      /\ pc'[Publisher] \in {"rows", "claimFirst"} => pc'[Publisher] = pc[Publisher]
  BY <1>2, <1>3, EndLabels DEF Awaiting
<1>5. RowsInv'
  BY <1>1, <1>4, SameRows DEF Inv
<1>6. ASSUME NEW a \in Actor PROVE Informed(a)'
  <2>1. pc'[a] \in {"idle", "done", "dead"}
    BY <1>2, EndLabels DEF Awaiting, IInv, TypeOK
  <2> QED BY <2>1, NothingToKnow
<1> QED BY <1>1, <1>5, <1>6 DEF Follows, Inv, Lifecycle!vars

\* Messages that move between the queues, or are lost, change no row either.
LEMMA QueuesOrder ==
    ASSUME IInv, Inv,
           \/ DeadlinePasses
           \/ \E s \in Step : \/ Undo(s) \/ WorkLost(s) \/ UndoLost(s)
                              \/ CompensatedDeadLettered(s)
                              \/ \E o \in Outcome : \/ Work(s, o)
                                                    \/ WorkRedelivered(s, o)
                                                    \/ CompletionDeadLettered(s, o)
    PROVE  Follows
<1>1. UNCHANGED <<booking, step, accepted, pauses, pc, work>>
  BY GroupsUnchanged DEF DeadlinePasses, Undo, WorkLost, UndoLost, Work,
     CompensatedDeadLettered, WorkRedelivered, CompletionDeadLettered
<1>2. Inv'
  BY <1>1, StandsStill
<1> QED BY <1>1, <1>2 DEF Follows, Lifecycle!vars

-----------------------------------------------------------------------------
(* Opening the booking *)

LEMMA OpeningOrder ==
    ASSUME IInv, Inv, Publish
    PROVE  Follows
<1> USE DEF Created, Opening
<1>0. /\ Publisher \in Actor /\ TypeOK /\ Opening /\ Created
      /\ accepted => pauses >= 1
  BY DEF Actor, IInv, Inv, RowsInv, AskedOnce
<1>1. CASE CreateBooking
  <2>1. /\ pc[Publisher] = "idle" /\ booking' = "in_progress"
        /\ UNCHANGED <<step, accepted, pauses>>
        /\ pc' = [pc EXCEPT ![Publisher] = "rows"]
    BY <1>1, GroupsUnchanged DEF CreateBooking, Goto
  <2>2. booking = "none" /\ \A s \in Step : step[s] = "none"
    BY <1>0, <2>1
  <2>3. RowsInv'
    BY <1>0, <2>1, <2>2 DEF RowsInv, InOrder, Ended, AskedOnce, Begun, TypeOK
  <2>4. \A b \in Actor : pc'[b] \in {"idle", "rows"}
    BY <1>0, <2>1 DEF TypeOK
  <2>5. Inv'
    BY <2>3, <2>4, NothingToKnow DEF Inv
  <2>6. Lifecycle!Request
    BY <2>1, <2>2 DEF Lifecycle!Request
  <2> QED BY <2>5, <2>6 DEF Follows, Lifecycle!Next
<1>2. ASSUME NEW inserted \in SUBSET Step, CreateRows(inserted)
      PROVE  Follows
  <2> DEFINE label == IF inserted = Step THEN "claimFirst" ELSE "dead"
  <2>1. /\ pc[Publisher] = "rows" /\ step' = Relabel(inserted, "none", "pending")
        /\ UNCHANGED <<booking, accepted, pauses>>
        /\ pc' = [pc EXCEPT ![Publisher] = label]
    BY <1>2, GroupsUnchanged DEF CreateRows, Goto
  <2>2. booking = "in_progress" /\ \A s \in Step : step[s] = "none"
    BY <1>0, <2>1
  <2>3. \A s \in Step : ~Begun(s)'
    BY <2>1, <2>2 DEF Relabel, Begun
  <2>4. RowsInv'
    BY <1>0, <2>1, <2>2, <2>3 DEF RowsInv, InOrder, Ended, AskedOnce, TypeOK
  <2>5. \A b \in Actor : pc'[b] \in {"idle", "claimFirst", "dead"}
    BY <1>0, <2>1 DEF TypeOK
  <2>6. Inv'
    BY <2>4, <2>5, NothingToKnow DEF Inv
  <2>7. Lifecycle!AddRows(inserted)
    BY <2>1, <2>2 DEF Lifecycle!AddRows, Lifecycle!Open, Lifecycle!Relabelled, Relabel
  <2> QED BY <2>6, <2>7 DEF Follows, Lifecycle!Next
<1>3. CASE ClaimFirstStage
  <2> DEFINE label == IF RowsAt(0) = {} THEN "done" ELSE "dispatch"
  <2>1. /\ pc[Publisher] = "claimFirst"
        /\ step' = Relabel(RowsAt(0), "pending", "in_progress")
        /\ UNCHANGED <<booking, accepted, pauses>>
        /\ pc' = [pc EXCEPT ![Publisher] = label]
    BY <1>3, GroupsUnchanged DEF ClaimFirstStage, Goto
  <2>2. booking = "in_progress" /\ \A s \in Step : step[s] = "pending"
    BY <1>0, <2>1
  <2>3. \A s \in Step :
          IF Stage[s] = 0 THEN step'[s] = "in_progress" ELSE step'[s] = "pending"
    BY <2>1, <2>2 DEF Relabel, RowsAt
  <2>4. \A u \in Step : ~(Stage[u] < 0)
    BY Numbers
  <2>5. InOrder'
    BY <2>3, <2>4 DEF InOrder, Begun
  <2>6. RowsInv'
    BY <1>0, <2>1, <2>2, <2>3, <2>5 DEF RowsInv, Ended, AskedOnce, Begun, TypeOK
  <2>7. \A b \in Actor : pc'[b] \in {"idle", "done", "dispatch"}
    BY <1>0, <2>1 DEF TypeOK
  <2>8. Inv'
    BY <2>6, <2>7, NothingToKnow DEF Inv
  <2>9. step' = Lifecycle!Relabelled(RowsAt(0), "pending", "in_progress")
    BY <2>1 DEF Lifecycle!Relabelled, Relabel
  <2>10. CASE RowsAt(0) = {}
    <3>1. step' = step
      BY <1>0, <2>1, <2>10 DEF Relabel, TypeOK
    <3> QED BY <2>1, <2>8, <3>1 DEF Follows, Lifecycle!vars
  <2>11. ASSUME NEW s \in RowsAt(0) PROVE Follows
    <3>1. s \in Step /\ Stage[s] = 0
      BY <2>11 DEF RowsAt
    <3>2. Lifecycle!Begin(Stage[s])
      BY <2>1, <2>2, <2>4, <2>9, <3>1 DEF Lifecycle!Begin, Lifecycle!Open, RowsAt
    <3> QED BY <2>8, <3>1, <3>2 DEF Follows, Lifecycle!Next
  <2> QED BY <2>10, <2>11
<1> QED BY <1>1, <1>2, <1>3 DEF Publish

-----------------------------------------------------------------------------
(* Settling a row, failing what is pending, undoing *)

\* A row that blocks goes on blocking as long as no later row is begun.
LEMMA StillBlocks ==
    ASSUME Keeps, NEW t \in Step, Blocks(t),
           \A u \in Step : step[u] \in {"pending", "failed"} =>
             step'[u] \in {"pending", "failed"}
    PROVE  Blocks(t)'
BY DEF Keeps, Blocks

LEMMA SettledOrder ==
    ASSUME IInv, Inv, NEW s \in Step, NEW o \in Outcome, ApplyCompletion(s, o)
    PROVE  Follows
<1>0. UNCHANGED <<booking, accepted, pauses, work>>
  BY GroupsUnchanged DEF ApplyCompletion
<1>1. CASE step[s] # "in_progress"
  <2>1. UNCHANGED <<step, pc>>
    BY <1>1 DEF ApplyCompletion, CanSettle
  <2>2. Inv'
    BY <1>0, <2>1, StandsStill
  <2> QED BY <1>0, <2>1, <2>2 DEF Follows, Lifecycle!vars
<1>2. CASE step[s] = "in_progress"
  <2>1. step' = [step EXCEPT ![s] = o] /\ Goto(s, "maybeAdvance")
    BY <1>2 DEF ApplyCompletion, CanSettle
  <2>2. TypeOK /\ RowsInv /\ s \in Actor /\ s # Publisher
    BY ActorAssumption DEF IInv, Inv, Actor
  <2>3. /\ \A u \in Step \ {s} : step'[u] = step[u]
        /\ step'[s] \in {"success", "failed"}
    BY <2>1, <2>2 DEF TypeOK, Outcome
  <2>4. Keeps
    BY <1>0, <1>2, <2>3 DEF Keeps, Begun
  <2>5. \A u \in Step : Begun(u)' <=> Begun(u)
    BY <1>2, <2>3 DEF Begun
  <2>6. InOrder'
    <3> SUFFICES ASSUME booking # "failed", NEW x \in Step, NEW u \in Step, Begun(x)
                 PROVE  /\ step'[x] \notin {"compensating", "compensated"}
                        /\ Stage[u] < Stage[x] => Lifecycle!Cleared(u)'
                        /\ Stage[u] = Stage[x] => Begun(u)
      BY <1>0, <2>5 DEF InOrder
    <3>1. /\ step[x] \notin {"compensating", "compensated"}
          /\ Stage[u] < Stage[x] => Lifecycle!Cleared(u)
          /\ Stage[u] = Stage[x] => Begun(u)
      BY <2>2 DEF RowsInv, InOrder
    <3> QED BY <2>3, <2>4, <3>1, StillCleared
  <2>7. Ended'
    <3>1. ASSUME booking = "failed" PROVE \E t \in Step : Blocks(t)'
      <4>1. PICK t \in Step : Blocks(t)
        BY <2>2, <3>1 DEF RowsInv, Ended
      <4>2. Blocks(t)'
        BY <1>2, <2>3, <2>4, <4>1, StillBlocks
      <4> QED BY <4>2
    <3>2. ASSUME booking \in {"confirmed", "partially_confirmed"} PROVE FALSE
      <4>1. Lifecycle!Cleared(s)
        BY <2>2, <3>2 DEF RowsInv, Ended
      <4> QED BY <1>2, <4>1, ClearedIsSettled DEF Outcome
    <3> QED BY <1>0, <3>1, <3>2 DEF Ended
  <2>8. Created'
    <3>1. /\ pc'[Publisher] = pc[Publisher]
          /\ \A u \in Step : step[u] # "none" => step'[u] # "none"
      BY <2>1, <2>2, <2>3 DEF Goto, TypeOK, Actor
    <3> QED BY <1>0, <2>2, <2>5, <3>1 DEF RowsInv, Created
  <2>9. AskedOnce'
    BY <1>0, <2>2, <2>4, StillMixed DEF RowsInv, AskedOnce
  <2>10. Informed(s)'
    <3>1. pc'[s] = "maybeAdvance" /\ Begun(s)'
      BY <1>2, <2>1, <2>2, <2>5 DEF Goto, TypeOK, Begun
    <3> QED BY <3>1 DEF Informed
  <2>11. \A b \in Actor : Informed(b)'
    BY <1>0, <2>1, <2>2, <2>4, <2>10, AllInformed DEF Inv
  <2>12. Lifecycle!Settle(s, o)
    BY <1>0, <1>2, <2>1 DEF Lifecycle!Settle
  <2>13. Lifecycle!Next
    BY <2>12 DEF Lifecycle!Next, Outcome
  <2> QED BY <2>6, <2>7, <2>8, <2>9, <2>11, <2>13 DEF Follows, Inv, RowsInv
<1> QED BY <1>1, <1>2

\* Once the booking has failed its rows only need to keep their blocking row.
LEMMA AfterFailure ==
    ASSUME IInv, Inv, booking = "failed", Keeps,
           UNCHANGED <<booking, accepted, pauses>>,
           \A u \in Step : step[u] \in {"pending", "failed"} =>
             step'[u] \in {"pending", "failed"},
           \A u \in Step : step[u] # "none" => step'[u] # "none",
           pc[Publisher] = "idle" <=> pc'[Publisher] = "idle",
           pc'[Publisher] \notin {"rows", "claimFirst"}
    PROVE  RowsInv'
<1>1. PICK t \in Step : Blocks(t)
  BY DEF Inv, RowsInv, Ended
<1>2. Blocks(t)'
  BY <1>1, StillBlocks
<1>3. \A u \in Step : step'[u] # "none"
  <2>1. Begun(t)
    BY <1>1 DEF Blocks, Begun
  <2> QED BY <2>1 DEF Inv, RowsInv, Created
<1> QED BY <1>2, <1>3 DEF Inv, RowsInv, InOrder, Ended, Created, AskedOnce

LEMMA FailPendingOrder ==
    ASSUME IInv, Inv, NEW a \in Actor, FailPendingSteps(a)
    PROVE  Follows
<1>1. /\ step' = Relabel(Step, "pending", "failed") /\ Goto(a, "compensate")
      /\ UNCHANGED <<booking, accepted, pauses, work>> /\ pc[a] = "failPending"
  BY GroupsUnchanged DEF FailPendingSteps
<1>2. TypeOK /\ booking = "failed"
  BY <1>1 DEF IInv, Inv, Informed
<1>3. \A u \in Step :
        step'[u] = IF step[u] = "pending" THEN "failed" ELSE step[u]
  BY <1>1 DEF Relabel
<1>4. Keeps
  BY <1>1, <1>2, <1>3 DEF Keeps, Begun
<1>5. RowsInv'
  <2>1. /\ pc[Publisher] = "idle" <=> pc'[Publisher] = "idle"
        /\ pc'[Publisher] \in {"rows", "claimFirst"} => pc'[Publisher] = pc[Publisher]
    BY <1>1, <1>2, PublisherRuns
  <2>2. pc[Publisher] \notin {"rows", "claimFirst"}
    BY <1>2 DEF Inv, RowsInv, Created
  <2> QED BY <1>1, <1>2, <1>3, <1>4, <2>1, <2>2, AfterFailure
<1>6. Informed(a)'
  BY <1>1, <1>2 DEF Goto, TypeOK, Informed
<1>7. \A b \in Actor : Informed(b)'
  BY <1>1, <1>2, <1>4, <1>6, AllInformed DEF Inv
<1>8. Lifecycle!FailPending
  BY <1>1, <1>2 DEF Lifecycle!FailPending, Lifecycle!Relabelled, Relabel
<1> QED BY <1>5, <1>7, <1>8 DEF Follows, Inv, Lifecycle!Next

LEMMA ClaimUndoOrder ==
    ASSUME IInv, Inv, NEW a \in Actor, NEW updated \in SUBSET work[a],
           ClaimCompensations(a, updated)
    PROVE  Follows
<1> DEFINE claimed == {t \in updated : step[t] = "success"}
           label == IF updated # work[a] THEN Dropped(a)
                    ELSE IF claimed = {} THEN Finished(a) ELSE "dispatchUndo"
<1>1. /\ step' = Relabel(updated, "success", "compensating") /\ Goto(a, label)
      /\ UNCHANGED <<booking, accepted, pauses>> /\ pc[a] = "claimUndo"
      /\ \A b \in Actor \ {a} : work'[b] = work[b]
  BY GroupsUnchanged DEF ClaimCompensations, IInv, TypeOK
<1>2. TypeOK /\ booking = "failed" /\ updated \subseteq Compensatable
  BY <1>1 DEF IInv, Inv, Informed
<1>3. \A u \in Step :
        step'[u] = IF u \in updated /\ step[u] = "success" THEN "compensating"
                   ELSE step[u]
  BY <1>1 DEF Relabel
<1>4. Keeps
  BY <1>1, <1>2, <1>3 DEF Keeps, Begun
<1>5. /\ label \in {"idle", "done", "dead", "dispatchUndo"}
      /\ label = "idle" => a # Publisher
  BY EndLabels
<1> HIDE DEF label
<1>6. RowsInv'
  <2>1. /\ pc[Publisher] = "idle" <=> pc'[Publisher] = "idle"
        /\ pc'[Publisher] \in {"rows", "claimFirst"} => pc'[Publisher] = pc[Publisher]
    BY <1>1, <1>2, <1>5, PublisherRuns
  <2>2. pc[Publisher] \notin {"rows", "claimFirst"}
    BY <1>2 DEF Inv, RowsInv, Created
  <2> QED BY <1>1, <1>2, <1>3, <1>4, <2>1, <2>2, AfterFailure
<1>7. Informed(a)'
  BY <1>1, <1>2, <1>5 DEF Goto, TypeOK, Informed
<1>8. \A b \in Actor : Informed(b)'
  BY <1>1, <1>2, <1>4, <1>7, AllInformed DEF Inv
<1>9. Lifecycle!Undo(updated)
  BY <1>1, <1>2 DEF Lifecycle!Undo, Lifecycle!Relabelled, Relabel
<1>10. Lifecycle!Next
  BY <1>2, <1>9 DEF Lifecycle!Next
<1> QED BY <1>6, <1>8, <1>10 DEF Follows, Inv

LEMMA UndoneOrder ==
    ASSUME IInv, Inv, NEW s \in Step, ApplyCompensated(s)
    PROVE  Follows
<1>1. /\ step' = Relabel({s}, "compensating", "compensated")
      /\ UNCHANGED <<booking, accepted, pauses, pc, work>>
  BY GroupsUnchanged DEF ApplyCompensated
<1>2. \A u \in Step :
        step'[u] = IF u = s /\ step[u] = "compensating" THEN "compensated"
                   ELSE step[u]
  BY <1>1 DEF Relabel
<1>3. Inv'
  <2>1. CASE step[s] # "compensating"
    <3>1. step' = step
      BY <1>1, <2>1 DEF IInv, TypeOK, Relabel
    <3> QED BY <1>1, <3>1, StandsStill
  <2>2. CASE step[s] = "compensating"
    <3>1. booking = "failed"
      BY <2>2 DEF Inv, RowsInv, InOrder, Begun
    <3>2. Keeps
      BY <1>1, <1>2, <3>1 DEF Keeps, Begun
    <3>3. pc[Publisher] \notin {"rows", "claimFirst"}
      BY <3>1 DEF Inv, RowsInv, Created
    <3>4. RowsInv'
      BY <1>1, <1>2, <3>1, <3>2, <3>3, AfterFailure
    <3>5. \A b \in Actor : Informed(b)'
      BY <1>1, <3>2, NothingMoves DEF Inv, control
    <3> QED BY <3>4, <3>5 DEF Inv
  <2> QED BY <2>1, <2>2
<1>4. Lifecycle!Undone(s)
  BY <1>1 DEF Lifecycle!Undone, Lifecycle!Relabelled, Relabel
<1> QED BY <1>3, <1>4 DEF Follows, Lifecycle!Next

-----------------------------------------------------------------------------
(* The changes of the booking's own status *)

\* Pausing, accepting and confirming change the booking, none of its rows.
LEMMA StatusChanges ==
    ASSUME IInv, Inv, NEW a \in Actor, pc[a] \notin {"idle", "rows", "claimFirst"},
           UNCHANGED <<step, work>>, accepted => accepted', pauses' >= pauses,
           booking # "failed", booking' \notin {"failed", "none"},
           NEW label, Goto(a, label), label \notin {"rows", "claimFirst"},
           label = "idle" => a # Publisher,
           booking' \in {"confirmed", "partially_confirmed"} =>
             \A s \in Step : Lifecycle!Cleared(s),
           booking' = "awaiting_user_decision" =>
             Lifecycle!Mixed /\ ~accepted' /\ pauses' >= 1,
           accepted' => pauses' >= 1,
           Informed(a)'
    PROVE  Inv'
<1>1. TypeOK /\ RowsInv
  BY DEF IInv, Inv
<1>2. Keeps
  BY DEF Keeps, Begun
<1>3. /\ pc[Publisher] \notin {"idle", "rows", "claimFirst"}
      /\ pc'[Publisher] \notin {"idle", "rows", "claimFirst"}
  BY <1>1, OpenedBy DEF IInv, Goto, TypeOK, Actor
<1>4. InOrder'
  <2>1. \A s \in Step : Begun(s)' <=> Begun(s)
    BY DEF Begun
  <2> SUFFICES ASSUME NEW s \in Step, NEW u \in Step, Begun(s)
               PROVE  /\ step'[s] \notin {"compensating", "compensated"}
                      /\ Stage[u] < Stage[s] => Lifecycle!Cleared(u)'
                      /\ Stage[u] = Stage[s] => Begun(u)
    BY <2>1 DEF InOrder
  <2>2. /\ step[s] \notin {"compensating", "compensated"}
        /\ Stage[u] < Stage[s] => Lifecycle!Cleared(u)
        /\ Stage[u] = Stage[s] => Begun(u)
    BY <1>1 DEF RowsInv, InOrder
  <2> QED BY <1>2, <2>2, StillCleared
<1>5. Ended'
  BY <1>2, StillCleared DEF Ended
<1>6. Created'
  BY <1>1, <1>3 DEF RowsInv, Created, Begun
<1>7. AskedOnce'
  BY <1>2, StillMixed DEF AskedOnce
<1>8. \A b \in Actor : Informed(b)'
  BY <1>1, <1>2, AllInformed DEF Inv
<1> QED BY <1>4, <1>5, <1>6, <1>7, <1>8 DEF Inv, RowsInv

LEMMA PauseOrder ==
    ASSUME IInv, Inv, NEW s \in Step, PauseForDecision(s), pauses' <= 1
    PROVE  Follows
<1>1. /\ pc[s] = "pause" /\ Goto(s, "done") /\ UNCHANGED <<step, work, accepted>>
      /\ s \in Actor /\ TypeOK
  BY GroupsUnchanged DEF PauseForDecision, Actor, IInv
<1>2. Informed(s)'
  BY <1>1, NothingToKnow DEF Goto, TypeOK
<1>3. CASE booking = "in_progress"
  <2>1. booking' = "awaiting_user_decision" /\ pauses' = pauses + 1
    BY <1>3 DEF PauseForDecision
  <2>2. Lifecycle!Mixed
    BY <1>1, <1>3 DEF Inv, Informed
  <2>3. ~accepted
    BY <1>1, <2>1 DEF Inv, RowsInv, AskedOnce, TypeOK
  <2>4. pauses' >= 1 /\ pauses' >= pauses
    BY <1>1, <2>1 DEF TypeOK
  <2>5. Inv'
    BY <1>1, <1>2, <1>3, <2>1, <2>2, <2>3, <2>4, StatusChanges
  <2>6. Lifecycle!Ask
    BY <1>1, <1>3, <2>1, <2>2, <2>3 DEF Lifecycle!Ask, Lifecycle!Open
  <2> QED BY <2>5, <2>6 DEF Follows, Lifecycle!Next
<1>4. CASE booking # "in_progress"
  <2>1. UNCHANGED <<booking, pauses>>
    BY <1>4 DEF PauseForDecision
  <2> QED BY <1>1, <1>2, <2>1, Going
<1> QED BY <1>3, <1>4

LEMMA FinalOrder ==
    ASSUME IInv, Inv, NEW a \in Actor, FinalizeBooking(a)
    PROVE  Follows
<1>1. /\ pc[a] \in {"confirmed", "partially_confirmed"} /\ Goto(a, Finished(a))
      /\ UNCHANGED <<step, work, accepted, pauses>>
      /\ booking' = IF booking = "in_progress" THEN pc[a] ELSE booking
  BY GroupsUnchanged DEF FinalizeBooking
<1>2. /\ Finished(a) \in {"idle", "done"} /\ (Finished(a) = "idle" => a # Publisher)
      /\ TypeOK
  BY EndLabels DEF IInv
<1>3. Informed(a)'
  BY <1>1, <1>2, NothingToKnow DEF Goto, TypeOK
<1>4. CASE booking = "in_progress"
  <2>1. booking' = pc[a]
    BY <1>1, <1>4
  <2>2. /\ \A s \in Step : Lifecycle!Cleared(s)
        /\ pc[a] = "partially_confirmed" <=> Lifecycle!Mixed
    BY <1>1, <1>4 DEF Inv, Informed
  <2>3. accepted => pauses >= 1
    BY DEF Inv, RowsInv, AskedOnce
  <2>4. pauses' >= pauses
    BY <1>1, <1>2 DEF TypeOK
  <2>5. Inv'
    BY <1>1, <1>2, <1>3, <1>4, <2>1, <2>2, <2>3, <2>4, StatusChanges
  <2>6. Lifecycle!Confirm
    BY <1>1, <1>4, <2>1, <2>2 DEF Lifecycle!Confirm, Lifecycle!Open
  <2> QED BY <2>5, <2>6 DEF Follows, Lifecycle!Next
<1>5. CASE booking # "in_progress"
  BY <1>1, <1>2, <1>3, <1>5, Going
<1> QED BY <1>4, <1>5

LEMMA AcceptOrder ==
    ASSUME IInv, Inv, NEW c \in Client, AcceptPartial(c)
    PROVE  Follows
<1>1. /\ pc[c] = "accept" /\ UNCHANGED <<step, work, pauses>>
      /\ c \in Actor /\ c \notin Step /\ TypeOK /\ RowsInv
  BY ActorAssumption, GroupsUnchanged DEF AcceptPartial, Actor, IInv, Inv
<1>2. CASE booking = "awaiting_user_decision"
  <2>1. booking' = "in_progress" /\ accepted' = TRUE /\ Goto(c, "advance")
    BY <1>2 DEF AcceptPartial
  <2>2. Lifecycle!Mixed /\ pauses >= 1
    BY <1>1, <1>2 DEF RowsInv, AskedOnce
  <2>3. PICK r \in Step : Stage[r] = AskStage /\ Begun(r)
    BY <2>2 DEF Lifecycle!Mixed, Lifecycle!Asked, Begun
  <2>4. ASSUME NEW u \in Step, Stage[u] <= AskStage PROVE Lifecycle!Cleared(u)'
    <3>1. Stage[u] < AskStage \/ Stage[u] = AskStage
      BY <2>4, GraphAssumption
    <3>2. Stage[u] < AskStage => step[u] = "success" \/ Stage[u] = AskStage
      BY <1>1, <1>2, <2>3 DEF RowsInv, InOrder, Lifecycle!Cleared, Lifecycle!Asked
    <3>3. Stage[u] = AskStage => Lifecycle!Cleared(u)'
      BY <1>1, <2>1, <2>2 DEF Lifecycle!Cleared, Lifecycle!Mixed, Lifecycle!Asked
    <3>4. step[u] = "success" => Lifecycle!Cleared(u)'
      BY <1>1 DEF Lifecycle!Cleared
    <3> QED BY <3>1, <3>2, <3>3, <3>4
  <2>5. Informed(c)'
    <3>1. FromStage(c) = AskStage
      BY <1>1 DEF FromStage
    <3>2. Reached(AskStage)'
      BY <1>1, <2>3, <2>4 DEF Reached, RowsAt, Begun
    <3>3. pc'[c] = "advance"
      BY <1>1, <2>1 DEF Goto, TypeOK
    <3> QED BY <2>1, <3>1, <3>2, <3>3 DEF Informed
  <2>6. pauses' >= pauses /\ pauses' >= 1
    BY <1>1, <2>2 DEF TypeOK
  <2>7. Inv'
    BY <1>1, <1>2, <2>1, <2>5, <2>6, StatusChanges
  <2>8. Lifecycle!Accept
    BY <1>1, <1>2, <2>1 DEF Lifecycle!Accept
  <2> QED BY <2>7, <2>8 DEF Follows, Lifecycle!Next
<1>3. CASE booking # "awaiting_user_decision"
  <2>1. UNCHANGED <<booking, accepted>> /\ Goto(c, "done")
    BY <1>3 DEF AcceptPartial
  <2>2. Informed(c)'
    BY <1>1, <2>1, NothingToKnow DEF Goto, TypeOK
  <2> QED BY <1>1, <2>1, <2>2, Going
<1> QED BY <1>2, <1>3

\* A failed row that holds the saga up blocks it for good: everything up to
\* its stage was begun, nothing after it was.
LEMMA HeldUp ==
    ASSUME RowsInv, booking # "failed", NEW t \in Step, step[t] = "failed",
           ~Lifecycle!Cleared(t)
    PROVE  Blocks(t) /\ \A k \in Nat : Reached(k) => Past(k)
<1>1. Begun(t)
  BY DEF Begun
<1>2. ASSUME NEW u \in Step, Stage[u] <= Stage[t] PROVE Begun(u)
  <2>1. Stage[u] < Stage[t] \/ Stage[u] = Stage[t]
    BY <1>2, Numbers
  <2>2. Lifecycle!Cleared(u) \/ Begun(u)
    BY <1>1, <2>1 DEF RowsInv, InOrder
  <2> QED BY <2>2, ClearedIsSettled DEF Outcome, Begun
<1>3. ASSUME NEW u \in Step, ~(Stage[u] <= Stage[t]) PROVE step[u] = "pending"
  <2>1. Stage[t] < Stage[u]
    BY <1>3, Numbers
  <2>2. ~Begun(u) /\ step[u] # "none"
    BY <1>1, <2>1 DEF RowsInv, InOrder, Created
  <2> QED BY <2>2 DEF Begun
<1>4. Blocks(t)
  BY <1>2, <1>3 DEF Blocks
<1>5. ASSUME NEW k \in Nat, Reached(k), NEW u \in NextRows(k) PROVE step[u] # "pending"
  <2>1. Stage[t] > k
    BY <1>5, Numbers DEF Reached
  <2>2. u \in Step /\ Stage[u] <= Stage[t]
    BY <2>1 DEF NextRows
  <2> QED BY <1>2, <2>2 DEF Begun
<1> QED BY <1>4, <1>5 DEF Past

LEMMA GivenUp ==
    ASSUME IInv, Inv, NEW a \in Actor, pc[a] \in {"cancel", "reject"},
           booking # "failed", booking' = "failed", Goto(a, "failPending"),
           UNCHANGED <<step, work, accepted, pauses>>,
           NEW t \in Step, step[t] = "failed", ~Lifecycle!Cleared(t)
    PROVE  Inv'
<1>1. TypeOK /\ RowsInv
  BY DEF IInv, Inv
<1>2. Blocks(t) /\ \A k \in Nat : Reached(k) => Past(k)
  BY <1>1, HeldUp
<1>3. Ended'
  BY <1>2 DEF Ended, Blocks, Begun
<1>4. Created'
  <2>1. /\ pc[Publisher] \notin {"idle", "rows", "claimFirst"}
        /\ pc'[Publisher] \notin {"idle", "rows", "claimFirst"}
    BY <1>1, OpenedBy DEF IInv, Goto, TypeOK, Actor
  <2> QED BY <1>1, <2>1 DEF RowsInv, Created, Begun
<1>5. AskedOnce'
  BY <1>1 DEF RowsInv, AskedOnce
<1>6. Informed(a)'
  BY <1>1 DEF Informed, Goto, TypeOK
<1>7. ASSUME NEW b \in Actor \ {a} PROVE Informed(b)'
  <2>1. pc'[b] = pc[b] /\ work'[b] = work[b] /\ Informed(b)
    BY <1>1 DEF Goto, TypeOK, Inv
  <2>2. pc[b] = "advance" => Past(FromStage(b))'
    <3>1. pc[b] = "advance" => Past(FromStage(b))
      BY <1>2, <2>1, Numbers DEF Informed
    <3> QED BY <3>1 DEF Past, NextRows
  <2>3. pc[b] = "cancel" => Lifecycle!Hopeless'
    BY <2>1 DEF Informed, Lifecycle!Hopeless, Lifecycle!Asked
  <2>4. Begun(b)' <=> Begun(b)
    BY DEF Begun
  <2> QED BY <2>1, <2>2, <2>3, <2>4 DEF Informed
<1>8. \A b \in Actor : Informed(b)'
  BY <1>6, <1>7
<1> QED BY <1>3, <1>4, <1>5, <1>8 DEF Inv, RowsInv, InOrder

LEMMA CancelOrder ==
    ASSUME IInv, Inv, NEW s \in Step, CancelBooking(s)
    PROVE  Follows
<1>1. /\ pc[s] = "cancel" /\ s \in Actor /\ TypeOK
      /\ UNCHANGED <<step, work, accepted, pauses>>
  BY GroupsUnchanged DEF CancelBooking, Actor, IInv
<1>2. CASE booking = "in_progress"
  <2>1. booking' = "failed" /\ Goto(s, "failPending")
    BY <1>2 DEF CancelBooking
  <2>2. Lifecycle!Hopeless
    BY <1>1 DEF Inv, Informed
  <2>3. PICK t \in Step : step[t] = "failed" /\ ~Lifecycle!Cleared(t)
    BY <2>2 DEF Lifecycle!Hopeless, Lifecycle!Cleared, Lifecycle!Mixed, Lifecycle!Asked
  <2>4. Inv'
    BY <1>1, <1>2, <2>1, <2>3, GivenUp
  <2>5. Lifecycle!Fail
    BY <1>1, <1>2, <2>1, <2>2 DEF Lifecycle!Fail, Lifecycle!Open
  <2> QED BY <2>4, <2>5 DEF Follows, Lifecycle!Next
<1>3. CASE booking # "in_progress"
  <2>1. UNCHANGED booking /\ Goto(s, "done")
    BY <1>3 DEF CancelBooking
  <2>2. Informed(s)'
    BY <1>1, <2>1, NothingToKnow DEF Goto, TypeOK
  <2> QED BY <1>1, <2>1, <2>2, Going
<1> QED BY <1>2, <1>3

LEMMA RejectOrder ==
    ASSUME IInv, Inv, NEW a \in Actor, RejectAwaitingBooking(a)
    PROVE  Follows
<1>1. /\ pc[a] = "reject" /\ TypeOK /\ UNCHANGED <<step, work, accepted, pauses>>
  BY GroupsUnchanged DEF RejectAwaitingBooking, IInv
<1>2. CASE booking = "awaiting_user_decision"
  <2>1. booking' = "failed" /\ Goto(a, "failPending")
    BY <1>2 DEF RejectAwaitingBooking
  <2>2. Lifecycle!Mixed /\ ~accepted
    BY <1>2 DEF Inv, RowsInv, AskedOnce
  <2>3. PICK t \in Step : step[t] = "failed" /\ ~Lifecycle!Cleared(t)
    BY <2>2 DEF Lifecycle!Cleared, Lifecycle!Mixed, Lifecycle!Asked
  <2>4. Inv'
    BY <1>1, <1>2, <2>1, <2>3, GivenUp
  <2>5. Lifecycle!Fail
    BY <1>1, <1>2, <2>1 DEF Lifecycle!Fail
  <2> QED BY <2>4, <2>5 DEF Follows, Lifecycle!Next
<1>3. CASE booking # "awaiting_user_decision"
  <2>1. UNCHANGED booking /\ Goto(a, Finished(a))
    BY <1>3 DEF RejectAwaitingBooking
  <2>2. Finished(a) \in {"idle", "done"} /\ (Finished(a) = "idle" => a # Publisher)
    BY EndLabels
  <2>3. Informed(a)'
    BY <1>1, <2>1, <2>2, NothingToKnow DEF Goto, TypeOK
  <2> QED BY <1>1, <2>1, <2>2, <2>3, Going
<1> QED BY <1>2, <1>3

-----------------------------------------------------------------------------
(* Every behaviour *)

LEMMA OrderedStep ==
    ASSUME IInv, Inv, NextAskedOnce
    PROVE  Follows
<1>0. pauses' <= 1 /\ Next
  BY DEF NextAskedOnce
<1>1. CASE Publish
  BY <1>1, OpeningOrder
<1>2. ASSUME NEW a \in Actor, Proceed(a) PROVE Follows
  <2>1. CASE AdvanceFromStage(a)
    BY <2>1, AdvanceOrder DEF Follows
  <2> QED BY <1>2, <2>1, CompeteOrder, DispatchOrder, FinalOrder, RejectOrder,
             FailPendingOrder, ReadToUndoOrder, ClaimUndoOrder
          DEF Proceed
<1>3. ASSUME NEW s \in Step, CompletionHandler(s) PROVE Follows
  BY <1>0, <1>3, SettledOrder, VerdictOrder, PauseOrder, CancelOrder
     DEF CompletionHandler
<1>4. ASSUME NEW s \in Step, Agent(s) PROVE Follows
  BY <1>4, QueuesOrder, UndoneOrder DEF Agent
<1>5. ASSUME NEW c \in Client, DecisionRequest(c) PROVE Follows
  <2>1. c \in Actor
    BY DEF Actor
  <2> QED BY <1>5, <2>1, DecideOrder, AcceptOrder DEF DecisionRequest
<1>6. ASSUME NEW w \in Sweep, ExpireDueDecisions(w) PROVE Follows
  <2>1. w \in Actor
    BY DEF Actor
  <2> QED BY <1>6, <2>1, DecideOrder
<1>7. CASE DeadlinePasses
  BY <1>7, QueuesOrder
<1>8. CASE Failure
  BY <1>8, QueuesOrder, HandlerFailsOrder, CrashOrder DEF Failure
<1> QED BY <1>0, <1>1, <1>2, <1>3, <1>4, <1>5, <1>6, <1>7, <1>8 DEF Next

LEMMA InitOrder == Init => OrderInv /\ Lifecycle!Init
<1> SUFFICES ASSUME Init PROVE OrderInv /\ Lifecycle!Init
  OBVIOUS
<1>1. IInv
  BY InitInv
<1>2. RowsInv
  BY DEF Init, RowsInv, InOrder, Ended, Created, AskedOnce, Begun, Actor
<1>3. \A a \in Actor : Informed(a)
  BY DEF Init, Informed
<1> QED BY <1>1, <1>2, <1>3 DEF OrderInv, Init, Lifecycle!Init

LEMMA NextOrder ==
    ASSUME OrderInv, [NextAskedOnce]_vars
    PROVE  OrderInv' /\ [Lifecycle!Next]_(Lifecycle!vars)
<1>1. IInv /\ Inv
  BY DEF OrderInv, Inv
<1>2. IInv'
  BY <1>1, NextInv DEF NextAskedOnce
<1>3. CASE NextAskedOnce
  BY <1>1, <1>2, <1>3, OrderedStep DEF OrderInv, Inv, Follows
<1>4. CASE UNCHANGED vars
  <2>1. UNCHANGED <<booking, step, accepted, pauses, pc, work>>
    BY <1>4, GroupsUnchanged DEF vars
  <2>2. Inv'
    BY <1>1, <2>1, StandsStill
  <2> QED BY <1>2, <2>1, <2>2 DEF OrderInv, Inv, Lifecycle!vars
<1> QED BY <1>3, <1>4

\* As long as the booking is paused once at most, a stage is begun as a whole
\* and only after everything before it is cleared, and what a handler has read
\* holds when it acts on it, whatever fails (stage-advancement.service.ts).
THEOREM SagaInOrder == SpecAskedOnce => []OrderInv
BY InitOrder, NextOrder, PTL DEF SpecAskedOnce

\* Every step of the handlers, queues and failures is, seen from the rows, a
\* step of the lifecycle a booking promises to its client, or none.
THEOREM ImplementsLifecycle == SpecAskedOnce => LifecycleSpec
<1>1. Init => Lifecycle!Init
  BY InitOrder
<1>2. OrderInv /\ [NextAskedOnce]_vars => [Lifecycle!Next]_(Lifecycle!vars)
  BY NextOrder
<1> QED BY <1>1, <1>2, SagaInOrder, PTL DEF SpecAskedOnce, LifecycleSpec, Lifecycle!Spec

-----------------------------------------------------------------------------
(* What a failed booking leaves behind *)

\* When the booking is given up, what can be undone has been answered: before
\* the failed row everything was cleared, beside it only the all_or_ask stage
\* has other rows that can be undone, and that one is judged when it is settled.
LEMMA FrozenWhenGivenUp ==
    ASSUME RowsInv, booking = "awaiting_user_decision" \/ Lifecycle!Hopeless,
           booking # "failed", NEW s \in Compensatable
    PROVE  step[s] # "in_progress"
<1>1. s \in Step /\ (Stage[s] = AskStage \/ RowsAt(Stage[s]) = {s})
  BY GraphAssumption, UndoAssumption
<1>2. PICK t \in Step :
        /\ step[t] = "failed" /\ ~Lifecycle!Cleared(t)
        /\ Stage[t] = AskStage =>
             \A u \in RowsAt(AskStage) : step[u] \in {"success", "failed"}
  <2>1. CASE booking = "awaiting_user_decision"
    <3>1. Lifecycle!Mixed /\ ~accepted
      BY <2>1 DEF RowsInv, AskedOnce
    <3> QED BY <3>1 DEF Lifecycle!Mixed, Lifecycle!Asked, Lifecycle!Cleared, RowsAt
  <2>2. CASE Lifecycle!Hopeless
    BY <2>2 DEF Lifecycle!Hopeless, Lifecycle!Mixed, Lifecycle!Asked,
                Lifecycle!Cleared, RowsAt
  <2> QED BY <2>1, <2>2
<1>3. Blocks(t)
  BY <1>2, HeldUp
<1>4. CASE Stage[s] > Stage[t]
  <2>1. ~(Stage[s] <= Stage[t])
    BY <1>1, <1>4, Numbers
  <2> QED BY <1>1, <1>3, <2>1 DEF Blocks
<1>5. CASE Stage[s] < Stage[t]
  <2>1. Begun(t)
    BY <1>2 DEF Begun
  <2>2. Lifecycle!Cleared(s)
    BY <1>1, <1>5, <2>1 DEF RowsInv, InOrder
  <2> QED BY <1>1, <2>2, ClearedIsSettled DEF Outcome
<1>6. CASE Stage[s] = Stage[t]
  <2>1. CASE Stage[s] = AskStage
    BY <1>1, <1>2, <1>6, <2>1 DEF RowsAt
  <2>2. CASE RowsAt(Stage[s]) = {s}
    <3>1. t = s
      BY <1>6, <2>2 DEF RowsAt
    <3> QED BY <1>2, <3>1
  <2> QED BY <1>1, <2>1, <2>2
<1> QED BY <1>1, <1>4, <1>5, <1>6, Numbers

LEMMA FrozenStep ==
    ASSUME OrderInv, FailedIsFrozen, [Lifecycle!Next]_(Lifecycle!vars)
    PROVE  FailedIsFrozen'
<1> SUFFICES ASSUME booking' = "failed", NEW s \in Compensatable
             PROVE  step'[s] # "in_progress"
  BY DEF FailedIsFrozen
<1>1. s \in Step
  BY GraphAssumption
<1>2. CASE booking = "failed"
  <2>1. step[s] # "in_progress"
    BY <1>2 DEF FailedIsFrozen
  <2>2. CASE UNCHANGED Lifecycle!vars
    BY <2>1, <2>2 DEF Lifecycle!vars
  <2>3. ASSUME NEW u \in Step, NEW o \in {"success", "failed"}, Lifecycle!Settle(u, o)
        PROVE  step'[s] # "in_progress"
    BY <1>1, <2>1, <2>3 DEF Lifecycle!Settle, OrderInv, IInv, TypeOK
  <2>4. CASE \/ Lifecycle!FailPending \/ \E u \in Step : Lifecycle!Undone(u)
             \/ \E S \in SUBSET Compensatable : Lifecycle!Undo(S)
    BY <1>1, <2>1, <2>4
    DEF Lifecycle!FailPending, Lifecycle!Undone, Lifecycle!Undo, Lifecycle!Relabelled
  <2> QED BY <1>2, <2>2, <2>3, <2>4
          DEF Lifecycle!Next, Lifecycle!Request, Lifecycle!Ask, Lifecycle!Accept,
              Lifecycle!Fail, Lifecycle!Confirm, Lifecycle!AddRows, Lifecycle!Begin,
              Lifecycle!Open
<1>3. CASE booking # "failed"
  <2>1. Lifecycle!Fail
    BY <1>3 DEF Lifecycle!Next, Lifecycle!Request, Lifecycle!Ask, Lifecycle!Accept,
       Lifecycle!Fail, Lifecycle!Confirm, Lifecycle!AddRows, Lifecycle!Begin,
       Lifecycle!Open, Lifecycle!vars, Lifecycle!Settle, Lifecycle!FailPending,
       Lifecycle!Undo, Lifecycle!Undone
  <2>2. /\ step' = step
        /\ booking = "awaiting_user_decision" \/ Lifecycle!Hopeless
    BY <2>1 DEF Lifecycle!Fail
  <2>3. step[s] # "in_progress"
    BY <1>3, <2>2, FrozenWhenGivenUp DEF OrderInv
  <2> QED BY <2>2, <2>3
<1> QED BY <1>2, <1>3

\* A booking that failed has nothing in flight that could still be reserved or
\* charged: the single read of compensateSuccessfulSteps misses no row
\* (saga-compensation.service.ts:39-46).
THEOREM FailedFrozen == SpecAskedOnce => []FailedIsFrozen
<1>1. Init => FailedIsFrozen
  BY DEF Init, FailedIsFrozen
<1>2. OrderInv /\ FailedIsFrozen /\ [NextAskedOnce]_vars => FailedIsFrozen'
  BY NextOrder, FrozenStep
<1> QED BY <1>1, <1>2, SagaInOrder, PTL DEF SpecAskedOnce
-----------------------------------------------------------------------------
(* That the saga comes to rest only where it may: with nothing a failed     *)
(* booking reserved still held and no booking left in progress, for every   *)
(* graph whose first stage has rows, as long as messages are redelivered    *)
(* but none is lost and no handler dies.                                    *)

UndoPC == {"failPending", "compensate", "claimUndo", "dispatchUndo"}
Early == {"none", "pending", "in_progress"}

-----------------------------------------------------------------------------
(* What each part of the invariant needs of a step that does not concern it. *)

LEMMA StillUnanswered ==
    ASSUME Unanswered, NEW a \in Actor, NEW label, Goto(a, label), TypeOK,
           pc[a] # "idle" \/ a \notin Step \/ step'[a] \notin Early,
           \A s \in Step : step'[s] \in Early => step[s] \in Early
    PROVE  Unanswered'
BY DEF Unanswered, Goto, TypeOK, Early

LEMMA StillInFlight ==
    ASSUME InFlight,
           \A s \in Step : step'[s] = "in_progress" =>
             /\ step[s] = "in_progress"
             /\ dispatched[s] > 0 =>
                  dispatched'[s] > 0 \/ \E o \in Outcome : completed'[s][o] > 0
             /\ \A o \in Outcome : completed[s][o] > 0 => completed'[s][o] > 0
             /\ \A a \in Actor : s \in Claimed(a) => s \in Claimed(a)'
    PROVE  InFlight'
BY DEF InFlight

\* No stage k is where the saga stands.
NoForemost(k) == \A t \in Step : Foremost(t) => Stage[t] # k

LEMMA StillDriven ==
    ASSUME Driven, booking' = "in_progress" => booking = "in_progress",
           \A s \in Step : Begun(s)' <=> Begun(s),
           pc[Publisher] \in {"rows", "claimFirst"} =>
             pc'[Publisher] \in {"rows", "claimFirst"},
           booking' = "in_progress" =>
             /\ \A s \in Step : step[s] = "in_progress" => Moving(Stage[s])'
             /\ \A a \in Actor : pc[a] \in Driving =>
                  Moving(FromStage(a))' \/ NoForemost(FromStage(a))
    PROVE  Driven'
<1> SUFFICES ASSUME booking' = "in_progress"
             PROVE  \/ pc'[Publisher] \in {"rows", "claimFirst"}
                    \/ \E t \in Step : Foremost(t)' /\ Moving(Stage[t])'
  BY DEF Driven
<1>1. CASE pc[Publisher] \in {"rows", "claimFirst"}
  BY <1>1
<1>2. ASSUME NEW t \in Step, Foremost(t), Moving(Stage[t])
      PROVE  Foremost(t)' /\ Moving(Stage[t])'
  <2>1. Foremost(t)'
    BY <1>2 DEF Foremost
  <2>2. Moving(Stage[t])'
    BY <1>2 DEF Moving, RowsAt, NoForemost
  <2> QED BY <2>1, <2>2
<1> QED BY <1>1, <1>2 DEF Driven

LEMMA StillUndoing ==
    ASSUME Undoing,
           booking' = "failed" => \/ booking = "failed"
                                  \/ \E a \in Actor : pc'[a] = "failPending",
           \A a \in Actor : pc[a] \in UndoPC => pc'[a] = pc[a] /\ work'[a] = work[a],
           \A s \in Compensatable :
             booking' = "failed" /\ step'[s] = "success" => step[s] = "success",
           \A s \in Step : step'[s] = "compensating" =>
             /\ step[s] = "compensating"
             /\ compensate[s] > 0 => compensate'[s] > 0 \/ compensated'[s] > 0
             /\ compensated[s] > 0 => compensated'[s] > 0
    PROVE  Undoing'
<1>1. booking' = "failed" =>
        \/ \E a \in Actor : pc'[a] \in {"failPending", "compensate"}
        \/ \A s \in Compensatable : step'[s] = "success" =>
             \E a \in Actor : pc'[a] = "claimUndo" /\ s \in work'[a]
  BY DEF Undoing, UndoPC
<1>2. \A s \in Step : step'[s] = "compensating" =>
        \/ \E a \in Actor : pc'[a] = "dispatchUndo" /\ s \in work'[a]
        \/ compensate'[s] > 0
        \/ compensated'[s] > 0
  BY DEF Undoing, UndoPC
<1> QED BY <1>1, <1>2 DEF Undoing

\* An actor that goes on, with nothing to publish and no row to undo.
LEMMA WorkGoesOn ==
    ASSUME TypeOK, WorkInv, NEW a \in Actor, NEW label, Goto(a, label),
           \A b \in Actor \ {a} : work'[b] = work[b],
           UNCHANGED <<step, queues>>,
           pc[a] # "idle" \/ a \notin Step,
           pc[a] \notin UndoPC \cup {"compete", "dispatch", "rows", "claimFirst"},
           booking' = "failed" => booking = "failed" \/ label = "failPending",
           booking' = "in_progress" =>
             /\ booking = "in_progress"
             /\ pc[a] \in Driving => \/ label \in Driving
                                     \/ Moving(FromStage(a))'
                                     \/ NoForemost(FromStage(a))
    PROVE  WorkInv'
<1>1. /\ pc'[a] = label /\ \A b \in Actor \ {a} : pc'[b] = pc[b]
      /\ UNCHANGED <<step, dispatched, completed, compensate, compensated>>
  BY GroupsUnchanged DEF TypeOK, Goto
<1>2. Unanswered'
  BY <1>1, StillUnanswered DEF WorkInv
<1>3. InFlight'
  <2>1. \A b \in Actor : Claimed(b) \subseteq Claimed(b)'
    BY <1>1 DEF Claimed
  <2> QED BY <1>1, <2>1, StillInFlight DEF WorkInv
<1>4. Driven'
  <2>1. Publisher \in Actor
    BY DEF Actor
  <2>2. ASSUME NEW b \in Actor, booking' = "in_progress", pc[b] \in Driving
        PROVE  Moving(FromStage(b))' \/ NoForemost(FromStage(b))
    <3>1. pc'[b] \in Driving => Moving(FromStage(b))'
      BY DEF Moving, FromStage
    <3> QED BY <1>1, <2>2, <3>1
  <2>3. \A s \in Step : step[s] = "in_progress" => Moving(Stage[s])'
    BY <1>1 DEF Moving, RowsAt
  <2>4. \A s \in Step : Begun(s)' <=> Begun(s)
    BY <1>1 DEF Begun
  <2>5. pc[Publisher] \in {"rows", "claimFirst"} => pc'[Publisher] = pc[Publisher]
    BY <1>1, <2>1
  <2> QED BY <2>2, <2>3, <2>4, <2>5, StillDriven DEF WorkInv
<1>5. Undoing'
  BY <1>1, StillUndoing DEF WorkInv, UndoPC
<1> QED BY <1>2, <1>3, <1>4, <1>5 DEF WorkInv

-----------------------------------------------------------------------------
(* Handlers *)

\* maybeAdvance gives a stage up to a later handler only while one of its rows
\* is in progress.
LEMMA VerdictDrives ==
    ASSUME TypeOK, Inv, booking = "in_progress", NEW s \in Step,
           pc[s] = "maybeAdvance", StageVerdict(s) \notin Driving
    PROVE  \E u \in RowsAt(Stage[s]) : step[u] = "in_progress"
<1> DEFINE peers == RowsAt(Stage[s])
<1>1. Informed(s) /\ InOrder /\ Begun(s)
  BY DEF Inv, RowsInv, Informed, Actor
<1>2. \A u \in peers : step[u] \in {"in_progress", "success", "failed"}
  BY <1>1 DEF InOrder, Begun, RowsAt, TypeOK, StepStatus
<1>3. \/ ~AllSettled(peers)
      \/ ~HasStatus(peers, "failed") /\ ~AllSuccess(peers)
  BY DEF StageVerdict, Driving
<1> QED BY <1>2, <1>3 DEF AllSettled, HasStatus, AllSuccess, Outcome

LEMMA VerdictWork ==
    ASSUME TypeOK, Inv, WorkInv, NEW s \in Step, MaybeAdvance(s)
    PROVE  WorkInv'
<1>1. /\ pc[s] = "maybeAdvance" /\ Goto(s, StageVerdict(s)) /\ s \in Actor
      /\ UNCHANGED <<booking, step, work, queues>>
  BY GroupsUnchanged DEF MaybeAdvance, Actor
<1>2. FromStage(s) = Stage[s]
  BY DEF FromStage
<1>3. booking = "in_progress" =>
        StageVerdict(s) \in Driving \/ Moving(FromStage(s))'
  BY <1>1, <1>2, VerdictDrives DEF Moving, RowsAt
<1> QED BY <1>1, <1>3, WorkGoesOn DEF UndoPC

LEMMA PauseWork ==
    ASSUME TypeOK, WorkInv, NEW s \in Step, PauseForDecision(s)
    PROVE  WorkInv'
<1>1. /\ pc[s] = "pause" /\ Goto(s, "done") /\ s \in Actor
      /\ UNCHANGED <<step, work, queues>>
      /\ booking' \notin {"in_progress", "failed"} \/ booking' = booking
  BY GroupsUnchanged DEF PauseForDecision, Actor
<1>2. booking' # "in_progress"
  BY <1>1 DEF PauseForDecision
<1> QED BY <1>1, <1>2, WorkGoesOn DEF UndoPC

LEMMA FinalWork ==
    ASSUME TypeOK, WorkInv, NEW a \in Actor, FinalizeBooking(a)
    PROVE  WorkInv'
<1>1. /\ pc[a] \in {"confirmed", "partially_confirmed"} /\ Goto(a, Finished(a))
      /\ UNCHANGED <<step, work, queues>>
      /\ booking' = IF booking = "in_progress" THEN pc[a] ELSE booking
  BY GroupsUnchanged DEF FinalizeBooking
<1>2. booking' # "in_progress" /\ (booking' = "failed" => booking = "failed")
  BY <1>1
<1> QED BY <1>1, <1>2, WorkGoesOn DEF UndoPC

LEMMA CancelWork ==
    ASSUME TypeOK, WorkInv, NEW s \in Step, CancelBooking(s)
    PROVE  WorkInv'
<1>1. /\ pc[s] = "cancel" /\ s \in Actor /\ UNCHANGED <<step, work, queues>>
      /\ booking' # "in_progress"
  BY GroupsUnchanged DEF CancelBooking, Actor
<1>2. CASE booking = "in_progress"
  <2>1. Goto(s, "failPending")
    BY <1>2 DEF CancelBooking
  <2> QED BY <1>1, <2>1, WorkGoesOn DEF UndoPC
<1>3. CASE booking # "in_progress"
  <2>1. Goto(s, "done") /\ booking' = booking
    BY <1>3 DEF CancelBooking
  <2> QED BY <1>1, <2>1, WorkGoesOn DEF UndoPC
<1> QED BY <1>2, <1>3

LEMMA RejectWork ==
    ASSUME TypeOK, WorkInv, NEW a \in Actor, RejectAwaitingBooking(a)
    PROVE  WorkInv'
<1>1. /\ pc[a] = "reject" /\ UNCHANGED <<step, work, queues>>
      /\ pc[a] \notin Driving
  BY GroupsUnchanged DEF RejectAwaitingBooking, Driving
<1>2. CASE booking = "awaiting_user_decision"
  <2>1. Goto(a, "failPending") /\ booking' = "failed"
    BY <1>2 DEF RejectAwaitingBooking
  <2> QED BY <1>1, <2>1, WorkGoesOn DEF UndoPC
<1>3. CASE booking # "awaiting_user_decision"
  <2>1. Goto(a, Finished(a)) /\ booking' = booking
    BY <1>3 DEF RejectAwaitingBooking
  <2> QED BY <1>1, <2>1, WorkGoesOn DEF UndoPC
<1> QED BY <1>2, <1>3

LEMMA DecideWork ==
    ASSUME TypeOK, WorkInv, NEW a \in Actor,
           \/ a \in Client /\ \E decision : Decide(a, decision)
           \/ a \in Sweep /\ ExpireDueDecisions(a)
    PROVE  WorkInv'
<1>1. /\ UNCHANGED <<booking, step, work, queues>> /\ pc[a] = "idle"
      /\ Goto(a, "reject") \/ Goto(a, "accept")
  BY GroupsUnchanged DEF Decide, ExpireDueDecisions
<1>2. a \notin Step
  BY ActorAssumption
<1>3. pc[a] \notin UndoPC \cup Driving
  BY <1>1 DEF UndoPC, Driving
<1>4. CASE Goto(a, "reject")
  BY <1>1, <1>2, <1>3, <1>4, WorkGoesOn
<1>5. CASE Goto(a, "accept")
  BY <1>1, <1>2, <1>3, <1>5, WorkGoesOn
<1> QED BY <1>1, <1>4, <1>5

\* The client's acceptance resumes the saga where nothing has gone beyond the
\* all_or_ask stage.
LEMMA AcceptWork ==
    ASSUME TypeOK, Inv, WorkInv, NEW c \in Client, AcceptPartial(c)
    PROVE  WorkInv'
<1>1. /\ pc[c] = "accept" /\ UNCHANGED <<step, work, queues>>
      /\ c \in Actor /\ c \notin Step
  BY ActorAssumption, GroupsUnchanged DEF AcceptPartial, Actor
<1>2. CASE booking # "awaiting_user_decision"
  <2>1. Goto(c, "done") /\ booking' = booking
    BY <1>2 DEF AcceptPartial
  <2> QED BY <1>1, <2>1, WorkGoesOn DEF UndoPC, Driving
<1>3. CASE booking = "awaiting_user_decision"
  <2>1. Goto(c, "advance") /\ booking' = "in_progress"
    BY <1>3 DEF AcceptPartial
  <2>2. /\ pc'[c] = "advance" /\ \A b \in Actor \ {c} : pc'[b] = pc[b]
        /\ UNCHANGED <<dispatched, completed, compensate, compensated>>
    BY <1>1, <2>1, GroupsUnchanged DEF Goto, TypeOK
  <2>3. Unanswered'
    BY <1>1, <2>1, StillUnanswered DEF WorkInv
  <2>4. InFlight'
    <3>1. \A b \in Actor : Claimed(b) \subseteq Claimed(b)'
      BY <1>1, <2>2 DEF Claimed
    <3> QED BY <1>1, <2>2, <3>1, StillInFlight DEF WorkInv
  <2>5. Driven'
    <3>1. Lifecycle!Mixed /\ ~accepted /\ InOrder
      BY <1>3 DEF Inv, RowsInv, AskedOnce
    <3>2. PICK t \in Step : Stage[t] = AskStage /\ step[t] = "failed"
      BY <3>1 DEF Lifecycle!Mixed, Lifecycle!Asked
    <3>3. ASSUME NEW u \in Step, Stage[u] > Stage[t] PROVE ~Begun(u)
      <4>1. Stage[t] < Stage[u]
        BY <3>3, Numbers
      <4>2. ~Lifecycle!Cleared(t)
        BY <3>1, <3>2 DEF Lifecycle!Cleared
      <4> QED BY <1>3, <3>1, <4>1, <4>2 DEF InOrder
    <3>4. Foremost(t)'
      BY <1>1, <3>2, <3>3 DEF Foremost, Begun
    <3>5. Moving(Stage[t])'
      <4>1. FromStage(c) = Stage[t]
        BY <1>1, <3>2 DEF FromStage
      <4>2. pc'[c] \in Driving
        BY <2>2 DEF Driving
      <4> QED BY <1>1, <4>1, <4>2 DEF Moving, FromStage
    <3> QED BY <3>4, <3>5 DEF Driven
  <2>6. Undoing'
    BY <1>1, <2>1, <2>2, StillUndoing DEF WorkInv, UndoPC
  <2> QED BY <2>3, <2>4, <2>5, <2>6 DEF WorkInv
<1> QED BY <1>2, <1>3

\* A stage that has rows after it has a next stage: the least one.
LEMMA NextExists ==
    ASSUME NEW k \in Nat, HasNext(k)
    PROVE  \E t \in Step : t \in NextRows(k)
<1> DEFINE later == {u \in Step : Stage[u] > k}
           T == {Stage[u] : u \in later}
<1>1. T \subseteq Nat /\ T # {}
  BY Numbers DEF HasNext
<1>2. PICK m \in T : \A n \in T : ~ (<<n, m>> \in OpToRel(<, Nat))
  BY <1>1, NatLessThanWellFounded, WFMin, Zenon
<1>3. \A n \in T : m <= n
  <2> SUFFICES ASSUME NEW n \in T PROVE m <= n
    OBVIOUS
  <2>1. m \in Nat /\ n \in Nat
    BY <1>1
  <2>2. ~(n < m)
    BY <1>2, <2>1 DEF OpToRel
  <2> QED BY <2>1, <2>2
<1>4. PICK t \in later : Stage[t] = m
  OBVIOUS
<1> QED BY <1>3, <1>4 DEF NextRows

LEMMA AdvanceWork ==
    ASSUME IInv, Inv, WorkInv, NEW a \in Actor, AdvanceFromStage(a)
    PROVE  WorkInv'
<1> DEFINE k == FromStage(a)
           claimed == Claimable(k)
           ask == \E u \in claimed : Stage[u] = AskStage
           label == IF claimed = {} THEN Finished(a)
                    ELSE IF ask THEN "compete" ELSE "dispatch"
<1>0. pc[a] = "advance" /\ UNCHANGED <<booking, queues>> /\ TypeOK /\ k \in Nat
  BY GroupsUnchanged, Numbers DEF AdvanceFromStage, IInv
<1>1. CASE ~HasNext(k)
  <2>1. Goto(a, FinalStatus) /\ UNCHANGED <<step, work>>
    BY <1>1 DEF AdvanceFromStage
  <2>2. FinalStatus \in Driving
    BY DEF FinalStatus, Driving
  <2> QED BY <1>0, <2>1, <2>2, WorkGoesOn DEF UndoPC
<1>2. ASSUME HasNext(k)
      PROVE  /\ step' = [u \in Step |-> IF u \in claimed THEN "in_progress" ELSE step[u]]
             /\ work' = [work EXCEPT ![a] = claimed]
             /\ Goto(a, label)
             /\ \A b \in Actor \ {a} : work'[b] = work[b]
  BY <1>0, <1>2 DEF AdvanceFromStage, TypeOK
<1>3. CASE HasNext(k) /\ claimed = {}
  <2>1. step' = step
    <3>1. step' = [u \in Step |-> step[u]]
      BY <1>2, <1>3
    <3> QED BY <1>0, <3>1 DEF TypeOK
  <2>2. ASSUME booking = "in_progress", NEW t \in Step, Foremost(t), Stage[t] = k
        PROVE  FALSE
    <3>1. PICK u \in Step : u \in NextRows(k)
      BY <1>0, <1>3, NextExists
    <3>2. ~Begun(u) /\ step[u] # "none"
      BY <2>2, <3>1 DEF Foremost, NextRows, Inv, RowsInv, Created
    <3> QED BY <1>3, <3>1, <3>2 DEF Claimable, Begun
  <2>3. booking = "in_progress" => NoForemost(k)
    BY <2>2 DEF NoForemost
  <2> QED BY <1>0, <1>2, <1>3, <2>1, <2>3, WorkGoesOn DEF UndoPC
<1>4. ASSUME HasNext(k), NEW t \in claimed PROVE WorkInv'
  <2>1. /\ t \in NextRows(k) /\ t \in Step /\ step[t] = "pending"
        /\ \A u \in claimed : u \in Step /\ step[u] = "pending" /\ Stage[u] = Stage[t]
    BY <1>0, <1>4, ClaimedRows DEF Claimable, RowsAt
  <2>2. booking = "in_progress" /\ InOrder
    BY <1>0, <1>4, ClaimsInProgress DEF Inv, RowsInv
  <2>3. /\ \A b \in Actor \ {a} : pc'[b] = pc[b]
        /\ pc'[a] \in {"compete", "dispatch"} /\ work'[a] = claimed
        /\ \A u \in Step : step'[u] = IF u \in claimed THEN "in_progress" ELSE step[u]
    BY <1>0, <1>2, <1>4, <2>1 DEF Goto, TypeOK
  <2>4. Unanswered'
    BY <1>0, <1>2, <1>4, <2>1, <2>3, StillUnanswered DEF WorkInv, Early
  <2>5. InFlight'
    <3>1. UNCHANGED <<dispatched, completed>> /\ Claimed(a)' = claimed
      BY <1>0, <2>3, GroupsUnchanged DEF Claimed
    <3>2. \A b \in Actor : Claimed(b) \subseteq Claimed(b)'
      BY <1>0, <1>2, <1>4, <2>3 DEF Claimed
    <3>3. ASSUME NEW u \in Step, step'[u] = "in_progress"
          PROVE  \/ dispatched'[u] > 0
                 \/ \E o \in Outcome : completed'[u][o] > 0
                 \/ \E b \in Actor : u \in Claimed(b)'
      <4>1. CASE u \in claimed
        BY <3>1, <4>1
      <4>2. CASE u \notin claimed
        BY <2>3, <3>1, <3>2, <3>3, <4>2 DEF WorkInv, InFlight
      <4> QED BY <4>1, <4>2
    <3> QED BY <3>3 DEF InFlight
  <2>6. Driven'
    <3>1. ASSUME NEW u \in Step, Stage[u] > Stage[t] PROVE ~Begun(u)'
      <4>1. Stage[t] < Stage[u] /\ u \notin claimed
        BY <2>1, <3>1, Numbers
      <4>2. ~Lifecycle!Cleared(t)
        BY <2>1, ClearedIsSettled DEF Outcome
      <4> QED BY <2>1, <2>2, <2>3, <4>1, <4>2 DEF InOrder, Begun
    <3>2. Foremost(t)' /\ Moving(Stage[t])'
      BY <1>4, <2>1, <2>3, <3>1 DEF Foremost, Begun, Moving, RowsAt
    <3> QED BY <2>1, <3>2 DEF Driven
  <2>7. Undoing'
    <3>1. \A s \in Step : step'[s] = "compensating" => step[s] = "compensating"
      BY <2>3
    <3>2. UNCHANGED <<compensate, compensated>>
      BY <1>0, GroupsUnchanged
    <3> QED BY <1>0, <1>2, <1>4, <2>2, <2>3, <3>1, <3>2, StillUndoing DEF WorkInv, UndoPC
  <2> QED BY <2>4, <2>5, <2>6, <2>7 DEF WorkInv
<1> QED BY <1>1, <1>3, <1>4

-----------------------------------------------------------------------------
(* Opening the booking, and publishing *)

\* Where messages are redelivered at worst, nothing else goes wrong.
LEMMA NothingLost ==
    ASSUME RedeliveryOnly, NEW kinds, "redeliver" \notin kinds
    PROVE  ~Fails(kinds)
BY DEF RedeliveryOnly, Fails

LEMMA OpeningWork ==
    ASSUME IInv, Inv, WorkInv, RedeliveryOnly, RowsAt(0) # {}, Publish
    PROVE  WorkInv'
<1> USE DEF Opening
<1>0. /\ Publisher \in Actor /\ TypeOK /\ Opening /\ Created
      /\ Publisher \notin Step /\ Step \subseteq Actor
  BY ActorAssumption DEF Actor, IInv, Inv, RowsInv
<1>1. CASE CreateBooking
  <2>1. /\ pc[Publisher] = "idle" /\ booking' = "in_progress" /\ UNCHANGED step
        /\ pc' = [pc EXCEPT ![Publisher] = "rows"]
    BY <1>1 DEF CreateBooking, Goto
  <2>2. \A s \in Step : step'[s] = "none" /\ pc'[s] = "idle"
    BY <1>0, <2>1 DEF TypeOK
  <2>3. pc'[Publisher] = "rows"
    BY <1>0, <2>1 DEF TypeOK
  <2> QED BY <2>1, <2>2, <2>3 DEF WorkInv, Unanswered, InFlight, Driven, Undoing
<1>2. ASSUME NEW inserted \in SUBSET Step, CreateRows(inserted)
      PROVE  WorkInv'
  <2>1. inserted = Step
    BY <1>2, NothingLost DEF CreateRows
  <2>2. /\ pc[Publisher] = "rows" /\ step' = Relabel(Step, "none", "pending")
        /\ UNCHANGED booking /\ pc' = [pc EXCEPT ![Publisher] = "claimFirst"]
    BY <1>2, <2>1 DEF CreateRows, Goto
  <2>3. \A s \in Step : step'[s] = "pending" /\ pc'[s] = "idle"
    BY <1>0, <2>2 DEF TypeOK, Relabel
  <2>4. pc'[Publisher] = "claimFirst" /\ booking' = "in_progress"
    BY <1>0, <2>2 DEF TypeOK, Created
  <2> QED BY <2>3, <2>4 DEF WorkInv, Unanswered, InFlight, Driven, Undoing
<1>3. CASE ClaimFirstStage
  <2>1. /\ pc[Publisher] = "claimFirst"
        /\ step' = Relabel(RowsAt(0), "pending", "in_progress")
        /\ work' = [work EXCEPT ![Publisher] = RowsAt(0)]
        /\ UNCHANGED booking
        /\ pc' = [pc EXCEPT ![Publisher] = "dispatch"]
    BY <1>3 DEF ClaimFirstStage, Goto
  <2>2. \A s \in Step :
          /\ pc'[s] = "idle"
          /\ step'[s] = IF s \in RowsAt(0) THEN "in_progress" ELSE "pending"
    BY <1>0, <2>1 DEF TypeOK, Relabel
  <2>3. Claimed(Publisher)' = RowsAt(0) /\ booking' = "in_progress"
    BY <1>0, <2>1 DEF TypeOK, Claimed, Created
  <2>4. PICK t \in Step : Stage[t] = 0 /\ t \in RowsAt(0)
    BY DEF RowsAt
  <2>5. Foremost(t)' /\ Moving(Stage[t])'
    BY <2>2, <2>4, Numbers DEF Foremost, Moving, Begun, RowsAt
  <2>6. Driven'
    BY <2>5 DEF Driven
  <2>7. InFlight'
    BY <1>0, <2>2, <2>3 DEF InFlight
  <2> QED BY <2>2, <2>3, <2>6, <2>7 DEF WorkInv, Unanswered, Undoing
<1> QED BY <1>1, <1>2, <1>3 DEF Publish

\* What a handler that leaves the rows and the booking alone does to the stage
\* that is moving, unless it judges the stage or leaves it.
LEMMA DrivenBesides ==
    ASSUME TypeOK, Driven, NEW a \in Actor, NEW label, Goto(a, label),
           pc[a] \notin Driving \cup {"rows", "claimFirst"},
           booking' = "in_progress" => booking = "in_progress" /\ step' = step
    PROVE  Driven'
<1> SUFFICES ASSUME booking' = "in_progress" PROVE Driven'
  BY DEF Driven
<1>1. \A b \in Actor : pc'[b] = pc[b] \/ b = a
  BY DEF Goto, TypeOK
<1>2. Publisher \in Actor
  BY DEF Actor
<1>3. /\ \A s \in Step : step[s] = "in_progress" => Moving(Stage[s])'
      /\ \A b \in Actor : pc[b] \in Driving => Moving(FromStage(b))'
  BY <1>1 DEF Moving, RowsAt, FromStage
<1>4. \A s \in Step : Begun(s)' <=> Begun(s)
  BY DEF Begun
<1> QED BY <1>1, <1>2, <1>3, <1>4, StillDriven

LEMMA CompeteWork ==
    ASSUME TypeOK, WorkInv, NEW a \in Actor, TakeMarkedItems(a)
    PROVE  WorkInv'
<1>1. /\ pc[a] = "compete" /\ Goto(a, "dispatch")
      /\ UNCHANGED <<booking, step, work, dispatched, completed, compensate, compensated>>
  BY GroupsUnchanged DEF TakeMarkedItems
<1>2. pc'[a] = "dispatch" /\ \A b \in Actor \ {a} : pc'[b] = pc[b]
  BY <1>1 DEF Goto, TypeOK
<1>3. Unanswered'
  BY <1>1, StillUnanswered DEF WorkInv
<1>4. InFlight'
  <2>1. \A b \in Actor : Claimed(b)' = Claimed(b)
    BY <1>1, <1>2 DEF Claimed
  <2> QED BY <1>1, <2>1, StillInFlight DEF WorkInv
<1>5. Driven'
  BY <1>1, DrivenBesides DEF WorkInv, Driving
<1>6. Undoing'
  BY <1>1, <1>2, StillUndoing DEF WorkInv, UndoPC
<1> QED BY <1>3, <1>4, <1>5, <1>6 DEF WorkInv

LEMMA DispatchWork ==
    ASSUME TypeOK, WorkInv, RedeliveryOnly, NEW a \in Actor, NEW s \in work[a],
           NEW published, DispatchSteps(a, s, published)
    PROVE  WorkInv'
<1> DEFINE label == IF work[a] = {s} THEN Finished(a) ELSE "dispatch"
<1>1. /\ pc[a] = "dispatch" /\ Goto(a, label) /\ s \in Step
      /\ dispatched' = Put(dispatched, s) /\ work' = [work EXCEPT ![a] = @ \ {s}]
      /\ UNCHANGED <<booking, step, completed, compensate, compensated>>
  BY GroupsUnchanged, NothingLost DEF DispatchSteps, TypeOK
<1>2. /\ work'[a] = work[a] \ {s} /\ \A b \in Actor \ {a} : work'[b] = work[b]
      /\ pc'[a] = label /\ \A b \in Actor \ {a} : pc'[b] = pc[b]
  BY <1>1 DEF Goto, TypeOK
<1>3. Unanswered'
  BY <1>1, StillUnanswered DEF WorkInv
<1>4. InFlight'
  <2>1. dispatched'[s] > 0 /\ \A u \in Step : dispatched[u] > 0 => dispatched'[u] > 0
    BY <1>1 DEF Put, TypeOK
  <2>2. \A b \in Actor, u \in Step \ {s} : u \in Claimed(b) => u \in Claimed(b)'
    BY <1>1, <1>2 DEF Claimed
  <2> QED BY <1>1, <2>1, <2>2 DEF WorkInv, InFlight
<1>5. Driven'
  BY <1>1, DrivenBesides DEF WorkInv, Driving
<1>6. Undoing'
  BY <1>1, <1>2, StillUndoing DEF WorkInv, UndoPC
<1> QED BY <1>3, <1>4, <1>5, <1>6 DEF WorkInv

-----------------------------------------------------------------------------
(* Compensation *)

\* A handler on its way to compensate does nothing to what is in progress.
LEMMA UndoingOnly ==
    ASSUME TypeOK, WorkInv, NEW a \in Actor, NEW label, Goto(a, label),
           pc[a] \in UndoPC, \A b \in Actor \ {a} : work'[b] = work[b],
           UNCHANGED <<booking, dispatched, completed>>, booking = "failed",
           \A s \in Step : step'[s] \in Early => step[s] = step'[s]
    PROVE  Unanswered' /\ InFlight' /\ Driven'
<1>1. \A b \in Actor \ {a} : pc'[b] = pc[b]
  BY DEF Goto, TypeOK
<1>2. Unanswered'
  BY StillUnanswered DEF WorkInv, UndoPC
<1>3. InFlight'
  <2>1. \A b \in Actor : Claimed(b) \subseteq Claimed(b)'
    BY <1>1 DEF Claimed, UndoPC
  <2> QED BY <2>1, StillInFlight DEF WorkInv, Early
<1>4. Driven'
  BY DEF Driven
<1> QED BY <1>2, <1>3, <1>4

LEMMA FailPendingWork ==
    ASSUME TypeOK, Inv, WorkInv, NEW a \in Actor, FailPendingSteps(a)
    PROVE  WorkInv'
<1>1. /\ step' = Relabel(Step, "pending", "failed") /\ Goto(a, "compensate")
      /\ UNCHANGED <<booking, work, dispatched, completed, compensate, compensated>>
      /\ pc[a] = "failPending"
  BY GroupsUnchanged DEF FailPendingSteps
<1>2. booking = "failed"
  BY <1>1 DEF Inv, Informed
<1>3. /\ \A s \in Step : step'[s] = IF step[s] = "pending" THEN "failed" ELSE step[s]
      /\ pc'[a] = "compensate" /\ \A b \in Actor \ {a} : pc'[b] = pc[b]
  BY <1>1 DEF Relabel, Goto, TypeOK
<1>4. Unanswered' /\ InFlight' /\ Driven'
  BY <1>1, <1>2, <1>3, UndoingOnly DEF UndoPC, Early
<1>5. Undoing'
  BY <1>1, <1>3 DEF WorkInv, Undoing
<1> QED BY <1>4, <1>5 DEF WorkInv

LEMMA ReadToUndoWork ==
    ASSUME TypeOK, Inv, WorkInv, NEW a \in Actor, CompensateSuccessfulSteps(a)
    PROVE  WorkInv'
<1> DEFINE label == IF Eligible = {} THEN Finished(a) ELSE "claimUndo"
<1>1. /\ UNCHANGED <<booking, step, dispatched, completed, compensate, compensated>>
      /\ Goto(a, label) /\ pc[a] = "compensate"
      /\ work' = [work EXCEPT ![a] = Eligible]
  BY GroupsUnchanged DEF CompensateSuccessfulSteps
<1>2. booking = "failed"
  BY <1>1 DEF Inv, Informed
<1>3. /\ pc'[a] = label /\ \A b \in Actor \ {a} : pc'[b] = pc[b]
      /\ work'[a] = Eligible /\ \A b \in Actor \ {a} : work'[b] = work[b]
  BY <1>1 DEF Goto, TypeOK
<1>4. Unanswered' /\ InFlight' /\ Driven'
  BY <1>1, <1>2, <1>3, UndoingOnly DEF UndoPC
<1>5. Undoing'
  <2>1. ASSUME NEW s \in Compensatable, step'[s] = "success"
        PROVE  pc'[a] = "claimUndo" /\ s \in work'[a]
    BY <1>1, <1>3, <2>1 DEF Eligible
  <2>2. ASSUME NEW s \in Step, step'[s] = "compensating"
        PROVE  \/ \E b \in Actor : pc'[b] = "dispatchUndo" /\ s \in work'[b]
               \/ compensate'[s] > 0
               \/ compensated'[s] > 0
    BY <1>1, <1>3, <2>2 DEF WorkInv, Undoing
  <2> QED BY <2>1, <2>2 DEF Undoing
<1> QED BY <1>4, <1>5 DEF WorkInv

LEMMA ClaimUndoWork ==
    ASSUME TypeOK, Inv, WorkInv, RedeliveryOnly, NEW a \in Actor,
           NEW updated \in SUBSET work[a], ClaimCompensations(a, updated)
    PROVE  WorkInv'
<1> DEFINE claimed == {t \in updated : step[t] = "success"}
           label == IF claimed = {} THEN Finished(a) ELSE "dispatchUndo"
<1>1. /\ updated = work[a] /\ updated \subseteq Step
      /\ step' = Relabel(updated, "success", "compensating") /\ Goto(a, label)
      /\ UNCHANGED <<booking, dispatched, completed, compensate, compensated>>
      /\ pc[a] = "claimUndo" /\ work' = [work EXCEPT ![a] = claimed]
  BY GroupsUnchanged, NothingLost DEF ClaimCompensations, TypeOK
<1>2. booking = "failed"
  BY <1>1 DEF Inv, Informed
<1>3. /\ pc'[a] = label /\ \A b \in Actor \ {a} : pc'[b] = pc[b]
      /\ work'[a] = claimed /\ \A b \in Actor \ {a} : work'[b] = work[b]
      /\ \A s \in Step :
           step'[s] = IF s \in claimed THEN "compensating" ELSE step[s]
  BY <1>1 DEF Goto, TypeOK, Relabel
<1>4. Unanswered' /\ InFlight' /\ Driven'
  BY <1>1, <1>2, <1>3, UndoingOnly DEF UndoPC, Early
<1>5. Undoing'
  <2>1. ASSUME NEW b \in Actor, pc[b] \in {"failPending", "compensate"}
        PROVE  pc'[b] = pc[b]
    BY <1>1, <1>3, <2>1
  <2>2. ASSUME NEW s \in Compensatable, step'[s] = "success",
               NEW b \in Actor, pc[b] = "claimUndo", s \in work[b]
        PROVE  pc'[b] = "claimUndo" /\ s \in work'[b]
    <3>1. s \in Step /\ s \notin claimed /\ step[s] = "success"
      BY <1>3, <2>2, GraphAssumption
    <3>2. b # a
      BY <1>1, <2>2, <3>1
    <3> QED BY <1>3, <2>2, <3>2
  <2>3. ASSUME NEW s \in Compensatable, step'[s] = "success"
        PROVE  step[s] = "success"
    BY <1>3, <2>3, GraphAssumption
  <2>4. ASSUME NEW s \in Step, step'[s] = "compensating"
        PROVE  \/ \E b \in Actor : pc'[b] = "dispatchUndo" /\ s \in work'[b]
               \/ compensate'[s] > 0
               \/ compensated'[s] > 0
    <3>1. CASE s \in claimed
      BY <1>3, <3>1
    <3>2. CASE s \notin claimed
      BY <1>1, <1>3, <2>4, <3>2 DEF WorkInv, Undoing
    <3> QED BY <3>1, <3>2
  <2>5. booking' = "failed" =>
          \/ \E b \in Actor : pc'[b] \in {"failPending", "compensate"}
          \/ \A s \in Compensatable : step'[s] = "success" =>
               \E b \in Actor : pc'[b] = "claimUndo" /\ s \in work'[b]
    BY <1>2, <2>1, <2>2, <2>3 DEF WorkInv, Undoing
  <2> QED BY <2>4, <2>5 DEF Undoing
<1> QED BY <1>4, <1>5 DEF WorkInv

LEMMA DispatchUndoWork ==
    ASSUME TypeOK, Inv, WorkInv, RedeliveryOnly, NEW a \in Actor, NEW s \in work[a],
           NEW published, DispatchCompensations(a, s, published)
    PROVE  WorkInv'
<1> DEFINE label == IF work[a] = {s} THEN Finished(a) ELSE "dispatchUndo"
<1>1. /\ pc[a] = "dispatchUndo" /\ Goto(a, label) /\ s \in Step
      /\ compensate' = Put(compensate, s) /\ work' = [work EXCEPT ![a] = @ \ {s}]
      /\ UNCHANGED <<booking, step, dispatched, completed, compensated>>
  BY GroupsUnchanged, NothingLost DEF DispatchCompensations, TypeOK
<1>2. booking = "failed"
  BY <1>1 DEF Inv, Informed
<1>3. /\ work'[a] = work[a] \ {s} /\ \A b \in Actor \ {a} : work'[b] = work[b]
      /\ pc'[a] = label /\ \A b \in Actor \ {a} : pc'[b] = pc[b]
  BY <1>1 DEF Goto, TypeOK
<1>4. Unanswered' /\ InFlight' /\ Driven'
  BY <1>1, <1>2, <1>3, UndoingOnly DEF UndoPC
<1>5. Undoing'
  <2>1. compensate'[s] > 0 /\ \A u \in Step : compensate[u] > 0 => compensate'[u] > 0
    BY <1>1 DEF Put, TypeOK
  <2>2. \A u \in Step \ {s}, b \in Actor : pc[b] = "dispatchUndo" /\ u \in work[b] =>
          pc'[b] = "dispatchUndo" /\ u \in work'[b]
    BY <1>1, <1>3
  <2>3. \A b \in Actor : pc[b] \in {"failPending", "compensate", "claimUndo"} =>
          pc'[b] = pc[b] /\ work'[b] = work[b]
    BY <1>1, <1>3
  <2>4. ASSUME NEW u \in Step, step'[u] = "compensating"
        PROVE  \/ \E b \in Actor : pc'[b] = "dispatchUndo" /\ u \in work'[b]
               \/ compensate'[u] > 0
               \/ compensated'[u] > 0
    BY <1>1, <2>1, <2>2, <2>4 DEF WorkInv, Undoing
  <2>5. booking' = "failed" =>
          \/ \E b \in Actor : pc'[b] \in {"failPending", "compensate"}
          \/ \A u \in Compensatable : step'[u] = "success" =>
               \E b \in Actor : pc'[b] = "claimUndo" /\ u \in work'[b]
    BY <1>1, <1>2, <2>3 DEF WorkInv, Undoing
  <2> QED BY <2>4, <2>5 DEF Undoing
<1> QED BY <1>4, <1>5 DEF WorkInv

-----------------------------------------------------------------------------
(* Answers and messages *)

\* Messages that move from one queue to the next.
LEMMA MessagesMove ==
    ASSUME WorkInv, UNCHANGED <<booking, pc, work>>,
           \A s \in Step : Begun(s)' <=> Begun(s),
           \A s \in Step : step'[s] \in Early <=> step[s] \in Early,
           \A s \in Step : step'[s] = "in_progress" <=> step[s] = "in_progress",
           \A s \in Step : step'[s] = "success" => step[s] = "success",
           \A s \in Step : step[s] = "in_progress" =>
             /\ dispatched[s] > 0 =>
                  dispatched'[s] > 0 \/ \E o \in Outcome : completed'[s][o] > 0
             /\ \A o \in Outcome : completed[s][o] > 0 => completed'[s][o] > 0,
           \A s \in Step : step'[s] = "compensating" =>
             /\ step[s] = "compensating"
             /\ compensate[s] > 0 => compensate'[s] > 0 \/ compensated'[s] > 0
             /\ compensated[s] > 0 => compensated'[s] > 0
    PROVE  WorkInv'
<1>1. Unanswered'
  BY DEF WorkInv, Unanswered, Early
<1>2. InFlight'
  <2>1. \A a \in Actor : Claimed(a)' = Claimed(a)
    BY DEF Claimed
  <2> QED BY <2>1, StillInFlight DEF WorkInv
<1>3. Driven'
  <2>1. \A k : Moving(k) => Moving(k)'
    BY DEF Moving, RowsAt, FromStage
  <2>2. \A t \in Step : Foremost(t) => Foremost(t)'
    BY DEF Foremost
  <2> QED BY <2>1, <2>2 DEF WorkInv, Driven
<1>4. Undoing'
  BY StillUndoing, GraphAssumption DEF WorkInv
<1> QED BY <1>1, <1>2, <1>3, <1>4 DEF WorkInv

LEMMA QueuesWork ==
    ASSUME TypeOK, WorkInv,
           \/ DeadlinePasses
           \/ \E s \in Step : \/ Undo(s)
                              \/ \E o \in Outcome : Work(s, o) \/ WorkRedelivered(s, o)
    PROVE  WorkInv'
<1>1. UNCHANGED <<booking, pc, work, step>>
  BY GroupsUnchanged DEF DeadlinePasses, Undo, Work, WorkRedelivered
<1>2. CASE DeadlinePasses
  BY <1>1, <1>2, MessagesMove, GroupsUnchanged DEF DeadlinePasses, Begun
<1>3. ASSUME NEW s \in Step, Undo(s) PROVE WorkInv'
  <2>1. /\ UNCHANGED <<dispatched, completed>>
        /\ compensated' = Put(compensated, s) /\ compensate' = Take(compensate, s)
    BY <1>3 DEF Undo
  <2>2. \A u \in Step :
          /\ compensate[u] > 0 => compensate'[u] > 0 \/ compensated'[u] > 0
          /\ compensated[u] > 0 => compensated'[u] > 0
    BY <2>1 DEF Put, Take, TypeOK
  <2> QED BY <1>1, <2>1, <2>2, MessagesMove DEF Begun
<1>4. ASSUME NEW s \in Step, NEW o \in Outcome, Work(s, o) \/ WorkRedelivered(s, o)
      PROVE  WorkInv'
  <2>1. /\ UNCHANGED <<compensate, compensated>>
        /\ dispatched' = Take(dispatched, s) \/ dispatched' = dispatched
        /\ completed' = [completed EXCEPT ![s][o] = @ + 1]
    BY <1>4 DEF Work, WorkRedelivered
  <2>2. /\ completed'[s][o] > 0
        /\ \A u \in Step, p \in Outcome : completed[u][p] > 0 => completed'[u][p] > 0
        /\ \A u \in Step \ {s} : dispatched'[u] = dispatched[u]
    BY <2>1 DEF Take, TypeOK
  <2>3. \A u \in Step : dispatched[u] > 0 =>
          dispatched'[u] > 0 \/ \E p \in Outcome : completed'[u][p] > 0
    BY <2>2
  <2> QED BY <1>1, <2>1, <2>2, <2>3, MessagesMove DEF Begun
<1> QED BY <1>2, <1>3, <1>4

LEMMA UndoneWork ==
    ASSUME TypeOK, WorkInv, NEW s \in Step, ApplyCompensated(s)
    PROVE  WorkInv'
<1>1. /\ step' = Relabel({s}, "compensating", "compensated")
      /\ compensated' = Take(compensated, s)
      /\ UNCHANGED <<booking, pc, work, dispatched, completed, compensate>>
  BY GroupsUnchanged DEF ApplyCompensated
<1>2. /\ step'[s] # "compensating"
      /\ \A u \in Step : \/ step'[u] = step[u]
                         \/ step[u] = "compensating" /\ step'[u] = "compensated"
      /\ \A u \in Step \ {s} : compensated'[u] = compensated[u]
  BY <1>1 DEF Relabel, Take, TypeOK
<1>3. \A u \in Step : step'[u] = "compensating" =>
        step[u] = "compensating" /\ compensated'[u] = compensated[u]
  BY <1>2
<1> QED BY <1>1, <1>2, <1>3, MessagesMove DEF Begun, Early

\* The handler that settles a row goes on to judge its stage; if the booking
\* has failed, the row is not one that would have to be undone.
LEMMA SettledWork ==
    ASSUME TypeOK, WorkInv, FailedIsFrozen, NEW s \in Step, NEW o \in Outcome,
           ApplyCompletion(s, o)
    PROVE  WorkInv'
<1>1. /\ UNCHANGED <<booking, work, dispatched, compensate, compensated>>
      /\ \A u \in Step \ {s} : completed'[u] = completed[u]
  BY GroupsUnchanged DEF ApplyCompletion, TypeOK
<1>2. CASE step[s] # "in_progress"
  <2>1. UNCHANGED <<step, pc>>
    BY <1>2 DEF ApplyCompletion, CanSettle
  <2> QED BY <1>1, <1>2, <2>1, MessagesMove DEF Begun
<1>3. CASE step[s] = "in_progress"
  <2>1. /\ Goto(s, "maybeAdvance") /\ s \in Actor /\ pc[s] = "idle"
        /\ step' = [step EXCEPT ![s] = o]
    BY <1>3 DEF ApplyCompletion, CanSettle, Actor, WorkInv, Unanswered
  <2>2. /\ pc'[s] = "maybeAdvance" /\ \A b \in Actor \ {s} : pc'[b] = pc[b]
        /\ step'[s] = o /\ \A u \in Step \ {s} : step'[u] = step[u]
        /\ o \notin Early \cup {"compensating"}
    BY <2>1 DEF Goto, TypeOK, Outcome, Early
  <2>3. Unanswered'
    BY <2>1, <2>2, StillUnanswered DEF WorkInv
  <2>4. InFlight'
    <3>1. \A b \in Actor : Claimed(b) \subseteq Claimed(b)'
      BY <1>1, <2>1, <2>2 DEF Claimed
    <3>2. \A u \in Step : step'[u] = "in_progress" => u # s
      BY <2>2 DEF Early
    <3> QED BY <1>1, <2>2, <3>1, <3>2, StillInFlight DEF WorkInv
  <2>5. Driven'
    <3>1. Moving(Stage[s])'
      BY <2>1, <2>2 DEF Moving, Driving, FromStage
    <3>2. \A u \in Step : step[u] = "in_progress" => Moving(Stage[u])'
      BY <2>2, <3>1 DEF Moving, RowsAt
    <3>3. \A b \in Actor : pc[b] \in Driving => Moving(FromStage(b))'
      BY <2>1, <2>2 DEF Moving, Driving, FromStage
    <3>4. \A u \in Step : Begun(u)' <=> Begun(u)
      BY <1>3, <2>2 DEF Begun, Early
    <3>5. pc[Publisher] \in {"rows", "claimFirst"} => pc'[Publisher] = pc[Publisher]
      BY <2>1, <2>2 DEF Actor
    <3> QED BY <1>1, <3>2, <3>3, <3>4, <3>5, StillDriven DEF WorkInv
  <2>6. Undoing'
    <3>1. \A u \in Compensatable :
            booking' = "failed" /\ step'[u] = "success" => step[u] = "success"
      BY <1>1, <1>3, <2>2, GraphAssumption DEF FailedIsFrozen
    <3>2. \A b \in Actor : pc[b] \in UndoPC => pc'[b] = pc[b] /\ work'[b] = work[b]
      BY <1>1, <2>1, <2>2 DEF UndoPC
    <3>3. \A u \in Step : step'[u] = "compensating" => step[u] = "compensating"
      BY <2>2
    <3> QED BY <1>1, <3>1, <3>2, <3>3, StillUndoing DEF WorkInv
  <2> QED BY <2>3, <2>4, <2>5, <2>6 DEF WorkInv
<1> QED BY <1>2, <1>3

-----------------------------------------------------------------------------
(* Every behaviour without loss *)

Gentle == RedeliveryOnly /\ RowsAt(0) # {}

LEMMA WorkStep ==
    ASSUME Gentle, IInv, Inv, FailedIsFrozen, WorkInv, Next
    PROVE  WorkInv'
<1>0. TypeOK /\ RedeliveryOnly /\ RowsAt(0) # {}
  BY DEF Gentle, IInv
<1>1. CASE Publish
  BY <1>0, <1>1, OpeningWork
<1>2. ASSUME NEW a \in Actor, Proceed(a) PROVE WorkInv'
  BY <1>0, <1>2, AdvanceWork, CompeteWork, DispatchWork, DispatchUndoWork, FinalWork,
     RejectWork, FailPendingWork, ReadToUndoWork, ClaimUndoWork
  DEF Proceed
<1>3. ASSUME NEW s \in Step, CompletionHandler(s) PROVE WorkInv'
  BY <1>0, <1>3, SettledWork, VerdictWork, PauseWork, CancelWork DEF CompletionHandler
<1>4. ASSUME NEW s \in Step, Agent(s) PROVE WorkInv'
  BY <1>0, <1>4, QueuesWork, UndoneWork DEF Agent
<1>5. ASSUME NEW c \in Client, DecisionRequest(c) PROVE WorkInv'
  <2>1. c \in Actor
    BY DEF Actor
  <2> QED BY <1>0, <1>5, <2>1, DecideWork, AcceptWork DEF DecisionRequest
<1>6. ASSUME NEW w \in Sweep, ExpireDueDecisions(w) PROVE WorkInv'
  <2>1. w \in Actor
    BY DEF Actor
  <2> QED BY <1>0, <1>6, <2>1, DecideWork
<1>7. CASE DeadlinePasses
  BY <1>0, <1>7, QueuesWork
<1>8. CASE Failure
  <2>1. ~Fails({"db"}) /\ ~Fails({"crash"}) /\ ~Fails({"publish", "crash"})
        /\ ~Fails({"db", "publish", "crash"})
    BY <1>0, NothingLost
  <2>2. \E s \in Step, o \in Outcome : WorkRedelivered(s, o)
    BY <1>8, <2>1 DEF Failure, WorkLost, UndoLost, CompensatedDeadLettered,
                      CompletionDeadLettered, HandlerFails, Crash
  <2> QED BY <1>0, <2>2, QueuesWork
<1> QED BY <1>1, <1>2, <1>3, <1>4, <1>5, <1>6, <1>7, <1>8 DEF Next

LEMMA WorkNext ==
    ASSUME Gentle, OrderInv, FailedIsFrozen, WorkInv, [NextAskedOnce]_vars
    PROVE  WorkInv'
<1>1. IInv /\ Inv
  BY DEF OrderInv, Inv
<1>2. CASE NextAskedOnce
  BY <1>1, <1>2, WorkStep DEF NextAskedOnce
<1>3. CASE UNCHANGED vars
  BY <1>3, GroupsUnchanged, MessagesMove DEF vars, Begun
<1> QED BY <1>2, <1>3

LEMMA WorkInit == Init => WorkInv
BY DEF Init, WorkInv, Unanswered, InFlight, Driven, Undoing, Actor

\* What is left to do has a doer: a row in progress is with somebody, the stage
\* of a booking in progress is about to be judged or left, and what a failed
\* booking reserved is on its way back.
THEOREM WorkHasADoer == Gentle => (SpecAskedOnce => []WorkInv)
<1> SUFFICES ASSUME Gentle PROVE SpecAskedOnce => []WorkInv
  OBVIOUS
<1>1. OrderInv /\ FailedIsFrozen /\ WorkInv /\ [NextAskedOnce]_vars => WorkInv'
  BY WorkNext
<1> QED BY <1>1, WorkInit, SagaInOrder, FailedFrozen, PTL DEF SpecAskedOnce

\* At rest, nothing a failed booking reserved or charged is still held.
THEOREM FailureUndone == Gentle => (SpecAskedOnce => []RejectedIsUndone)
<1> SUFFICES ASSUME Gentle PROVE SpecAskedOnce => []RejectedIsUndone
  OBVIOUS
<1>1. WorkInv => RejectedIsUndone
  <2> SUFFICES ASSUME WorkInv, booking = "failed", Quiet, NEW s \in Compensatable
               PROVE  step[s] \notin {"success", "compensating"}
    BY DEF RejectedIsUndone
  <2>1. \A a \in Actor : pc[a] \notin UndoPC
    BY DEF Quiet, Awaiting, PC, UndoPC
  <2>2. compensate[s] = 0 /\ compensated[s] = 0 /\ s \in Step
    BY GraphAssumption DEF Quiet
  <2> QED BY <2>1, <2>2 DEF WorkInv, Undoing, UndoPC
<1> QED BY <1>1, WorkHasADoer, PTL

\* At rest, a booking has its final status or waits for its client.
THEOREM NobodyStranded == Gentle => (SpecAskedOnce => []NeverStranded)
<1> SUFFICES ASSUME Gentle PROVE SpecAskedOnce => []NeverStranded
  OBVIOUS
<1>1. TypeOK /\ WorkInv => NeverStranded
  <2> SUFFICES ASSUME TypeOK, WorkInv, booking = "in_progress", Quiet PROVE FALSE
    BY DEF NeverStranded, Lifecycle!Final, TypeOK, BookingStatus
  <2>1. /\ \A a \in Actor : pc[a] \notin Driving \cup {"rows", "claimFirst",
                                                       "compete", "dispatch"}
        /\ Publisher \in Actor
    BY DEF Quiet, Awaiting, PC, Driving, Actor
  <2>2. PICK u \in Step : step[u] = "in_progress"
    BY <2>1 DEF WorkInv, Driven, Moving, RowsAt
  <2>3. dispatched[u] = 0 /\ \A o \in Outcome : completed[u][o] = 0
    BY DEF Quiet
  <2>4. \A a \in Actor : Claimed(a) = {}
    BY <2>1 DEF Claimed
  <2> QED BY <2>2, <2>3, <2>4 DEF WorkInv, InFlight
<1>2. OrderInv => TypeOK
  BY DEF OrderInv, IInv
<1> QED BY <1>1, <1>2, SagaInOrder, WorkHasADoer, PTL
=============================================================================
