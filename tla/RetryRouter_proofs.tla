-------------------------- MODULE RetryRouter_proofs --------------------------
(***************************************************************************)
(* Proofs about the retry router, for any number of dispatches, slots,     *)
(* retries and failures.                                                   *)
(***************************************************************************)
EXTENDS RetryRouter, FiniteSums

\* Counting copies.
LEMMA PutCopy ==
    ASSUME NEW S, NEW f \in [S -> Nat], NEW c \in S
    PROVE  /\ Put(f, c) \in [S -> Nat]
           /\ Put(f, c)[c] > 0
           /\ \A x \in S : f[x] > 0 => Put(f, c)[x] > 0
           /\ \A x \in S : x # c => Put(f, c)[x] = f[x]
BY DEF Put

LEMMA TakeCopy ==
    ASSUME NEW S, NEW f \in [S -> Nat], NEW c \in S, f[c] > 0
    PROVE  /\ Take(f, c) \in [S -> Nat]
           /\ \A x \in S : Take(f, c)[x] > 0 => f[x] > 0
           /\ \A x \in S : x # c => Take(f, c)[x] = f[x]
BY DEF Take

LEMMA CopyFields ==
    ASSUME NEW c \in Copy
    PROVE  /\ c.message \in Message
           /\ c.deaths \in Nat
           /\ Rejected(c).message = c.message
           /\ Rejected(c).deaths = c.deaths + 1
BY RouterAssumption DEF Copy, Rejected, Deaths

LEMMA DispatchIsMessage == Dispatch \subseteq Message
BY DEF Message

-----------------------------------------------------------------------------
(* Every action names a copy or a slot; the inductive step goes through    *)
(* them one by one.                                                        *)

LEMMA InitInv == Init => IInv
<1> SUFFICES ASSUME Init PROVE IInv
  OBVIOUS
<1>1. TypeOK
  BY DEF Init, TypeOK
<1>2. SlotsHold
  BY DEF Init, SlotsHold
<1>3. HistoryIsTrue
  <2>1. \A c \in Copy : queue[c] > 0 => c.deaths = 0
    BY DEF Init
  <2> QED BY <2>1, CopyFields DEF Init, HistoryIsTrue
<1>4. RetriesAreBounded
  <2>1. \A c \in Copy : c.deaths > MaxRetries => c.deaths # 0
    BY RouterAssumption, CopyFields
  <2> QED BY <2>1 DEF Init, RetriesAreBounded
<1>5. ArchivedIsAnswered
  BY DispatchIsMessage DEF Init, ArchivedIsAnswered
<1>6. LiveOrAnswered
  <2> SUFFICES ASSUME NEW d \in Dispatch PROVE Live(d)
    BY DEF LiveOrAnswered
  <2> DEFINE c == [message |-> d, deaths |-> 0]
  <2>1. c \in Copy /\ c.message = d /\ c.deaths = 0
    BY RouterAssumption, DispatchIsMessage DEF Copy, Deaths
  <2>2. queue[c] > 0
    BY <2>1 DEF Init
  <2> HIDE DEF c
  <2> QED BY <2>1, <2>2 DEF Live
<1> QED BY <1>1, <1>2, <1>3, <1>4, <1>5, <1>6 DEF IInv

LEMMA ConsumerInv ==
    ASSUME IInv, NEW c \in Copy, Consumer(c) PROVE IInv'
<1> USE DEF IInv
<1> UNCHANGED <<slot, pc, delayed, archived, exhausted>>
  BY DEF Consumer, Process, ProcessTwice, Reject, router, answers
<1>1. CASE Process(c)
  <2>1. /\ queue[c] > 0
        /\ queue' = Take(queue, c)
        /\ UNCHANGED <<inbox, rejections, failures>>
        /\ answered' = IF c.message \in Dispatch THEN Put(answered, c.message)
                       ELSE answered
    BY <1>1 DEF Process
  <2>2. queue' \in [Copy -> Nat] /\ \A x \in Copy : queue'[x] > 0 => queue[x] > 0
    BY <2>1, TakeCopy DEF TypeOK
  <2>3. /\ answered' \in [Dispatch -> Nat]
        /\ \A d \in Dispatch : answered[d] > 0 => answered'[d] > 0
        /\ c.message \in Dispatch => answered'[c.message] > 0
    BY <2>1, PutCopy DEF TypeOK
  <2>4. TypeOK'
    BY <2>1, <2>2, <2>3 DEF TypeOK
  <2>5. HistoryIsTrue' /\ SlotsHold'
    BY <2>1, <2>2 DEF HistoryIsTrue, SlotsHold
  <2>6. RetriesAreBounded' /\ ArchivedIsAnswered'
    BY <2>1, <2>2 DEF RetriesAreBounded, ArchivedIsAnswered, TypeOK
  <2>7. LiveOrAnswered'
    <3>1. \A x \in Copy : x # c => queue'[x] = queue[x]
      BY <2>1, TakeCopy DEF TypeOK
    <3>2. \A d \in Dispatch : Live(d) /\ d # c.message => Live(d)'
      BY <2>1, <3>1 DEF Live
    <3> QED BY <2>3, <3>2 DEF LiveOrAnswered
  <2> QED BY <2>4, <2>5, <2>6, <2>7
<1>2. CASE ProcessTwice(c)
  <2>1. /\ c.message \in Dispatch
        /\ answered' = Put(answered, c.message)
        /\ failures' = failures + 1
        /\ UNCHANGED <<queue, inbox, rejections>>
    BY <1>2 DEF ProcessTwice, Fails
  <2>2. /\ answered' \in [Dispatch -> Nat]
        /\ \A d \in Dispatch : answered[d] > 0 => answered'[d] > 0
    BY <2>1, PutCopy DEF TypeOK
  <2>3. TypeOK'
    BY <2>1, <2>2 DEF TypeOK
  <2>4. HistoryIsTrue' /\ SlotsHold' /\ RetriesAreBounded' /\ ArchivedIsAnswered'
    BY <2>1 DEF HistoryIsTrue, SlotsHold, RetriesAreBounded, ArchivedIsAnswered
  <2>5. LiveOrAnswered'
    BY <2>1, <2>2 DEF LiveOrAnswered, Live
  <2> QED BY <2>3, <2>4, <2>5
<1>3. CASE Reject(c)
  <2> DEFINE e == Rejected(c)
  <2>1. /\ queue[c] > 0
        /\ e \in Copy
        /\ queue' = Take(queue, c)
        /\ inbox' = Put(inbox, e)
        /\ rejections' = Put(rejections, c.message)
        /\ UNCHANGED <<answered, failures>>
    BY <1>3 DEF Reject, answers
  <2>2. /\ c.message \in Message /\ c.deaths \in Nat
        /\ e.message = c.message /\ e.deaths = c.deaths + 1
    BY CopyFields
  <2> HIDE DEF e
  <2>3. /\ queue' \in [Copy -> Nat]
        /\ \A x \in Copy : queue'[x] > 0 => queue[x] > 0
        /\ \A x \in Copy : x # c => queue'[x] = queue[x]
    BY <2>1, TakeCopy DEF TypeOK
  <2>4. /\ inbox' \in [Copy -> Nat]
        /\ inbox'[e] > 0
        /\ \A x \in Copy : inbox[x] > 0 => inbox'[x] > 0
        /\ \A x \in Copy : x # e => inbox'[x] = inbox[x]
    BY <2>1, PutCopy DEF TypeOK
  <2>5. /\ rejections' \in [Message -> Nat]
        /\ rejections'[c.message] = rejections[c.message] + 1
        /\ \A m \in Message : rejections'[m] >= rejections[m]
    BY <2>1, <2>2 DEF TypeOK, Put
  <2>6. TypeOK'
    BY <2>1, <2>3, <2>4, <2>5 DEF TypeOK
  <2>7. SlotsHold'
    BY DEF SlotsHold
  <2>8. HistoryIsTrue'
    <3>1. ASSUME NEW x \in Copy, queue'[x] > 0 \/ inbox'[x] > 0 \/ delayed'[x] > 0
          PROVE  x.deaths <= rejections'[x.message]
      <4>1. CASE x = e
        <5>1. c.deaths <= rejections[c.message]
          BY <2>1 DEF HistoryIsTrue
        <5> QED BY <5>1, <4>1, <2>2, <2>5 DEF TypeOK
      <4>2. CASE x # e
        <5>1. x.deaths <= rejections[x.message]
          BY <3>1, <4>2, <2>3, <2>4 DEF HistoryIsTrue
        <5> QED BY <5>1, <2>5, CopyFields DEF TypeOK
      <4> QED BY <4>1, <4>2
    <3>2. ASSUME NEW r \in Slot, pc'[r] # "idle"
          PROVE  slot'[r].deaths <= rejections'[slot'[r].message]
      <4>1. slot[r] \in Copy /\ slot[r].deaths <= rejections[slot[r].message]
        BY <3>2 DEF HistoryIsTrue, SlotsHold
      <4> QED BY <4>1, <2>5, CopyFields DEF TypeOK
    <3>3. \A x \in Copy : inbox'[x] > 0 => x.deaths > 0
      BY <2>2, <2>4 DEF HistoryIsTrue
    <3> QED BY <3>1, <3>2, <3>3 DEF HistoryIsTrue
  <2>9. RetriesAreBounded'
    <3>1. \A d \in Dispatch : rejections'[d] >= rejections[d] /\ rejections[d] \in Nat
                              /\ rejections'[d] \in Nat
      BY <2>5, DispatchIsMessage DEF TypeOK
    <3> QED BY <2>3, <3>1, RouterAssumption DEF RetriesAreBounded, TypeOK
  <2>10. ArchivedIsAnswered'
    BY DEF ArchivedIsAnswered
  <2>11. LiveOrAnswered'
    <3>1. \A d \in Dispatch : Live(d) => Live(d)'
      BY <2>1, <2>2, <2>3, <2>4 DEF Live
    <3> QED BY <2>1, <3>1 DEF LiveOrAnswered
  <2> QED BY <2>6, <2>7, <2>8, <2>9, <2>10, <2>11
<1> QED BY <1>1, <1>2, <1>3 DEF Consumer

LEMMA DelayExpiresInv ==
    ASSUME IInv, NEW c \in Copy, DelayExpires(c) PROVE IInv'
<1> USE DEF IInv
<1>1. /\ delayed[c] > 0
      /\ delayed' = Take(delayed, c)
      /\ queue' = Put(queue, c)
      /\ UNCHANGED <<inbox, slot, pc, archived, answered, exhausted, rejections,
                     failures>>
  BY DEF DelayExpires, router, answers
<1>2. /\ delayed' \in [Copy -> Nat]
      /\ \A x \in Copy : delayed'[x] > 0 => delayed[x] > 0
      /\ \A x \in Copy : x # c => delayed'[x] = delayed[x]
  BY <1>1, TakeCopy DEF TypeOK
<1>3. /\ queue' \in [Copy -> Nat]
      /\ queue'[c] > 0
      /\ \A x \in Copy : queue[x] > 0 => queue'[x] > 0
      /\ \A x \in Copy : x # c => queue'[x] = queue[x]
  <2>1. queue \in [Copy -> Nat]
    BY DEF TypeOK
  <2> QED BY <2>1, <1>1, PutCopy
<1>4. TypeOK'
  BY <1>1, <1>2, <1>3 DEF TypeOK
<1>5. SlotsHold' /\ ArchivedIsAnswered'
  BY <1>1 DEF SlotsHold, ArchivedIsAnswered
<1>6. HistoryIsTrue'
  BY <1>1, <1>2, <1>3 DEF HistoryIsTrue
<1>7. RetriesAreBounded'
  <2>1. ~(c.deaths > MaxRetries)
    BY <1>1 DEF RetriesAreBounded, TypeOK
  <2> QED BY <2>1, <1>1, <1>2, <1>3 DEF RetriesAreBounded, TypeOK
<1>8. LiveOrAnswered'
  <2>1. \A d \in Dispatch : Live(d) => Live(d)'
    BY <1>1, <1>2, <1>3 DEF Live
  <2> QED BY <1>1, <2>1 DEF LiveOrAnswered
<1> QED BY <1>4, <1>5, <1>6, <1>7, <1>8

LEMMA DeliverInv ==
    ASSUME IInv, NEW r \in Slot, NEW c \in Copy, Deliver(r, c) PROVE IInv'
<1> USE DEF IInv
<1>1. /\ pc[r] = "idle"
      /\ inbox[c] > 0
      /\ inbox' = Take(inbox, c)
      /\ slot' = [slot EXCEPT ![r] = c]
      /\ pc' = [pc EXCEPT ![r] = "route"]
      /\ UNCHANGED <<queue, delayed, archived, answered, exhausted, rejections,
                     failures>>
  BY DEF Deliver, answers, Goto
<1>2. /\ inbox' \in [Copy -> Nat]
      /\ \A x \in Copy : inbox'[x] > 0 => inbox[x] > 0
      /\ \A x \in Copy : x # c => inbox'[x] = inbox[x]
  BY <1>1, TakeCopy DEF TypeOK
<1>3. /\ slot'[r] = c /\ pc'[r] = "route"
      /\ \A q \in Slot : q # r => slot'[q] = slot[q] /\ pc'[q] = pc[q]
  BY <1>1 DEF TypeOK
<1>4. TypeOK'
  <2>1. c # NoCopy
    BY <1>1, CopyFields DEF HistoryIsTrue, NoCopy
  <2> QED BY <1>1, <1>2, <1>3, <2>1 DEF TypeOK
<1>5. SlotsHold' /\ HistoryIsTrue'
  BY <1>1, <1>2, <1>3 DEF SlotsHold, HistoryIsTrue
<1>6. RetriesAreBounded' /\ ArchivedIsAnswered'
  BY <1>1 DEF RetriesAreBounded, ArchivedIsAnswered
<1>7. LiveOrAnswered'
  <2>1. ASSUME NEW d \in Dispatch, Live(d) PROVE Live(d)'
    <3>1. CASE d = c.message
      BY <1>3, <3>1 DEF Live
    <3>2. CASE d # c.message
      BY <2>1, <3>2, <1>1, <1>2, <1>3 DEF Live
    <3> QED BY <3>1, <3>2
  <2> QED BY <1>1, <2>1 DEF LiveOrAnswered
<1> QED BY <1>4, <1>5, <1>6, <1>7

\* What a slot that is not idle holds.
LEMMA HeldCopy ==
    ASSUME IInv, NEW r \in Slot, pc[r] # "idle"
    PROVE  /\ slot[r] \in Copy
           /\ slot[r].message \in Message
           /\ slot[r].deaths \in Nat
           /\ slot[r].deaths > 0
           /\ slot[r].deaths <= rejections[slot[r].message]
           /\ rejections[slot[r].message] \in Nat
BY CopyFields DEF IInv, SlotsHold, HistoryIsTrue, TypeOK

LEMMA RouteInv ==
    ASSUME IInv, NEW r \in Slot, Route(r) PROVE IInv'
<1> USE DEF IInv
<1> DEFINE c == slot[r]
<1>1. CASE ScheduleRetry(r)
  <2>1. /\ pc[r] = "route"
        /\ MayRetry(c)
        /\ delayed' = Put(delayed, c)
        /\ pc' = [pc EXCEPT ![r] = "ack"]
        /\ UNCHANGED <<queue, inbox, slot, archived, answered, exhausted,
                       rejections, failures>>
    BY <1>1 DEF ScheduleRetry, answers, Goto
  <2>2. /\ c \in Copy /\ c.message \in Message /\ c.deaths \in Nat
        /\ c.deaths > 0 /\ c.deaths <= rejections[c.message]
    BY <2>1, HeldCopy
  <2>3. c.deaths <= MaxRetries
    BY <2>1 DEF MayRetry
  <2>4. /\ pc'[r] = "ack"
        /\ \A q \in Slot : q # r => pc'[q] = pc[q]
    BY <2>1 DEF TypeOK
  <2>5. /\ delayed' \in [Copy -> Nat]
        /\ delayed'[c] > 0
        /\ \A x \in Copy : delayed[x] > 0 => delayed'[x] > 0
        /\ \A x \in Copy : x # c => delayed'[x] = delayed[x]
    <3>1. delayed \in [Copy -> Nat]
      BY DEF TypeOK
    <3> QED BY <3>1, <2>1, <2>2, PutCopy
  <2>6. TypeOK'
    BY <2>1, <2>5 DEF TypeOK
  <2>7. SlotsHold' /\ ArchivedIsAnswered'
    BY <2>1, <2>2, <2>4 DEF SlotsHold, ArchivedIsAnswered
  <2>8. HistoryIsTrue'
    BY <2>1, <2>2, <2>4, <2>5 DEF HistoryIsTrue
  <2>9. RetriesAreBounded'
    BY <2>1, <2>2, <2>3, <2>5, RouterAssumption DEF RetriesAreBounded, TypeOK
  <2>10. LiveOrAnswered'
    <3>1. ASSUME NEW d \in Dispatch, Live(d) PROVE Live(d)'
      <4>1. CASE d = c.message
        BY <4>1, <2>2, <2>5 DEF Live
      <4>2. CASE d # c.message
        BY <3>1, <4>2, <2>1, <2>4, <2>5 DEF Live
      <4> QED BY <4>1, <4>2
    <3> QED BY <2>1, <3>1 DEF LiveOrAnswered
  <2> QED BY <2>6, <2>7, <2>8, <2>9, <2>10
<1>2. CASE PublishFailedCompletion(r)
  <2>1. /\ pc[r] = "route"
        /\ c.message \in Dispatch
        /\ ~MayRetry(c)
        /\ exhausted' = Put(exhausted, c.message)
        /\ pc' = [pc EXCEPT ![r] = "archive"]
        /\ UNCHANGED <<queue, inbox, delayed, slot, archived, answered,
                       rejections, failures>>
    BY <1>2 DEF PublishFailedCompletion, Routable, Goto
  <2>2. /\ c \in Copy /\ c.deaths \in Nat
        /\ c.deaths > 0 /\ c.deaths <= rejections[c.message]
        /\ rejections[c.message] \in Nat
    BY <2>1, HeldCopy
  <2>3. rejections[c.message] > MaxRetries
    BY <2>1, <2>2, RouterAssumption DEF MayRetry
  <2>4. /\ pc'[r] = "archive"
        /\ \A q \in Slot : q # r => pc'[q] = pc[q]
    BY <2>1 DEF TypeOK
  <2>5. /\ exhausted' \in [Dispatch -> Nat]
        /\ exhausted'[c.message] > 0
        /\ \A d \in Dispatch : exhausted[d] > 0 => exhausted'[d] > 0
        /\ \A d \in Dispatch : d # c.message => exhausted'[d] = exhausted[d]
    <3>1. exhausted \in [Dispatch -> Nat]
      BY DEF TypeOK
    <3> QED BY <3>1, <2>1, PutCopy
  <2>6. TypeOK'
    BY <2>1, <2>5 DEF TypeOK
  <2>7. SlotsHold'
    BY <2>1, <2>2, <2>4, <2>5 DEF SlotsHold
  <2>8. HistoryIsTrue'
    BY <2>1, <2>2, <2>4 DEF HistoryIsTrue
  <2>9. RetriesAreBounded' /\ ArchivedIsAnswered'
    BY <2>1, <2>3, <2>5 DEF RetriesAreBounded, ArchivedIsAnswered
  <2>10. LiveOrAnswered'
    <3>1. \A d \in Dispatch : Live(d) /\ d # c.message => Live(d)'
      BY <2>1, <2>4 DEF Live
    <3> QED BY <2>1, <2>5, <3>1 DEF LiveOrAnswered
  <2> QED BY <2>6, <2>7, <2>8, <2>9, <2>10
<1>3. CASE Archive(r)
  <2>1. /\ pc[r] = "archive" \/ (pc[r] = "route" /\ ~Routable(c))
        /\ archived' = Put(archived, c.message)
        /\ pc' = [pc EXCEPT ![r] = "ack"]
        /\ UNCHANGED <<queue, inbox, delayed, slot, answered, exhausted,
                       rejections, failures>>
    BY <1>3 DEF Archive, answers, Goto
  <2>2. /\ c \in Copy /\ c.message \in Message /\ c.deaths > 0
        /\ c.deaths <= rejections[c.message]
    BY <2>1, HeldCopy
  <2>3. /\ pc'[r] = "ack"
        /\ \A q \in Slot : q # r => pc'[q] = pc[q]
    BY <2>1 DEF TypeOK
  <2>4. /\ archived' \in [Message -> Nat]
        /\ \A m \in Message : m # c.message => archived'[m] = archived[m]
    <3>1. archived \in [Message -> Nat]
      BY DEF TypeOK
    <3> QED BY <3>1, <2>1, <2>2, PutCopy
  <2>5. c.message \in Dispatch => exhausted[c.message] > 0
    BY <2>1, <2>2 DEF SlotsHold, Routable
  <2>6. TypeOK'
    BY <2>1, <2>4 DEF TypeOK
  <2>7. SlotsHold' /\ HistoryIsTrue'
    BY <2>1, <2>2, <2>3 DEF SlotsHold, HistoryIsTrue
  <2>8. RetriesAreBounded'
    BY <2>1 DEF RetriesAreBounded
  <2>9. ArchivedIsAnswered'
    BY <2>1, <2>4, <2>5, DispatchIsMessage DEF ArchivedIsAnswered
  <2>10. LiveOrAnswered'
    <3>1. \A d \in Dispatch : Live(d) /\ d # c.message => Live(d)'
      BY <2>1, <2>3 DEF Live
    <3> QED BY <2>1, <2>5, <3>1 DEF LiveOrAnswered
  <2> QED BY <2>6, <2>7, <2>8, <2>9, <2>10
<1>4. CASE Ack(r)
  <2>1. /\ pc[r] = "ack"
        /\ slot' = [slot EXCEPT ![r] = NoCopy]
        /\ pc' = [pc EXCEPT ![r] = "idle"]
        /\ UNCHANGED <<queue, inbox, delayed, archived, answered, exhausted,
                       rejections, failures>>
    BY <1>4 DEF Ack, answers, Goto
  <2>2. /\ pc'[r] = "idle"
        /\ \A q \in Slot : q # r => pc'[q] = pc[q] /\ slot'[q] = slot[q]
    BY <2>1 DEF TypeOK
  <2>3. TypeOK'
    BY <2>1 DEF TypeOK
  <2>4. SlotsHold' /\ HistoryIsTrue'
    BY <2>1, <2>2 DEF SlotsHold, HistoryIsTrue
  <2>5. RetriesAreBounded' /\ ArchivedIsAnswered'
    BY <2>1 DEF RetriesAreBounded, ArchivedIsAnswered
  <2>6. LiveOrAnswered'
    <3>1. \A d \in Dispatch : Live(d) => Live(d)'
      BY <2>1, <2>2 DEF Live
    <3> QED BY <2>1, <3>1 DEF LiveOrAnswered
  <2> QED BY <2>3, <2>4, <2>5, <2>6
<1> QED BY <1>1, <1>2, <1>3, <1>4 DEF Route

LEMMA RouterFailsInv ==
    ASSUME IInv, NEW r \in Slot, RouterFails(r) PROVE IInv'
<1> USE DEF IInv
<1> DEFINE c == slot[r]
<1>1. /\ pc[r] # "idle"
      /\ failures' = failures + 1
      /\ inbox' = Put(inbox, c)
      /\ slot' = [slot EXCEPT ![r] = NoCopy]
      /\ pc' = [pc EXCEPT ![r] = "idle"]
      /\ UNCHANGED <<queue, delayed, archived, answered, exhausted, rejections>>
  BY DEF RouterFails, Requeued, Fails, answers, Goto
<1>2. /\ c \in Copy /\ c.message \in Message /\ c.deaths > 0
      /\ c.deaths <= rejections[c.message]
  BY <1>1, HeldCopy
<1>3. /\ pc'[r] = "idle"
      /\ \A q \in Slot : q # r => pc'[q] = pc[q] /\ slot'[q] = slot[q]
  BY <1>1 DEF TypeOK
<1>4. /\ inbox' \in [Copy -> Nat]
      /\ inbox'[c] > 0
      /\ \A x \in Copy : inbox[x] > 0 => inbox'[x] > 0
      /\ \A x \in Copy : x # c => inbox'[x] = inbox[x]
  <2>1. inbox \in [Copy -> Nat]
    BY DEF TypeOK
  <2> QED BY <2>1, <1>1, <1>2, PutCopy
<1>5. TypeOK'
  BY <1>1, <1>4 DEF TypeOK
<1>6. SlotsHold' /\ HistoryIsTrue'
  BY <1>1, <1>2, <1>3, <1>4 DEF SlotsHold, HistoryIsTrue
<1>7. RetriesAreBounded' /\ ArchivedIsAnswered'
  BY <1>1 DEF RetriesAreBounded, ArchivedIsAnswered
<1>8. LiveOrAnswered'
  <2>1. ASSUME NEW d \in Dispatch, Live(d) PROVE Live(d)'
    <3>1. CASE d = c.message
      BY <3>1, <1>2, <1>4 DEF Live
    <3>2. CASE d # c.message
      BY <2>1, <3>2, <1>1, <1>3, <1>4 DEF Live
    <3> QED BY <3>1, <3>2
  <2> QED BY <1>1, <2>1 DEF LiveOrAnswered
<1> QED BY <1>5, <1>6, <1>7, <1>8

LEMMA StepInv == IInv /\ [Next]_vars => IInv'
<1> SUFFICES ASSUME IInv, [Next]_vars PROVE IInv'
  OBVIOUS
<1>1. CASE Next
  BY <1>1, ConsumerInv, DelayExpiresInv, DeliverInv, RouteInv, RouterFailsInv
  DEF Next
<1>2. CASE UNCHANGED vars
  <2>1. UNCHANGED <<queue, inbox, delayed, slot, pc, archived, answered,
                    exhausted, rejections, failures>>
    BY <1>2 DEF vars, router, answers
  <2> QED BY <2>1 DEF IInv, TypeOK, SlotsHold, HistoryIsTrue, RetriesAreBounded,
                      ArchivedIsAnswered, LiveOrAnswered, Live
<1> QED BY <1>1, <1>2

-----------------------------------------------------------------------------

\* The inductive invariant of the router holds in every reachable state.
THEOREM RouterInvariant == Spec => []IInv
<1>1. Init => IInv
  BY InitInv
<1>2. IInv /\ [Next]_vars => IInv'
  BY StepInv
<1> QED BY <1>1, <1>2, PTL DEF Spec

\* Counters of copies and answers never leave their types.
THEOREM RouterTypeCorrect == Spec => []TypeOK
<1>1. IInv => TypeOK
  BY DEF IInv
<1> QED BY <1>1, RouterInvariant, PTL

\* No dispatch is lost between its worker and its answer, however often the
\* router or its channel fails between a publish and the acknowledgement.
THEOREM NoDispatchLost == Spec => []AnsweredOrUnderWay
<1>1. IInv => AnsweredOrUnderWay
  <2> SUFFICES ASSUME IInv, NEW d \in Dispatch, Live(d) PROVE UnderWay(d)
    BY DEF IInv, LiveOrAnswered, AnsweredOrUnderWay
  <2>1. CASE \E c \in Copy : c.message = d /\ (queue[c] > 0 \/ inbox[c] > 0 \/ delayed[c] > 0)
    BY <2>1 DEF UnderWay
  <2>2. CASE \E r \in Slot : pc[r] = "route" /\ slot[r].message = d
    <3>1. PICK r \in Slot : pc[r] = "route" /\ slot[r].message = d
      BY <2>2
    <3>2. slot[r] \in Copy /\ r \in Held(slot[r])
      BY <3>1, HeldCopy DEF Held
    <3> QED BY <3>1, <3>2 DEF UnderWay
  <2> QED BY <2>1, <2>2 DEF Live
<1> QED BY <1>1, RouterInvariant, PTL

\* A dispatch is retried MaxRetries times, and only then given up.
THEOREM RetryPolicyKept == Spec => []RetriesAreBounded
<1>1. IInv => RetriesAreBounded
  BY DEF IInv
<1> QED BY <1>1, RouterInvariant, PTL

\* What lies in the DLQ was reported to the orchestrator first.
THEOREM ArchiveReported == Spec => []ArchivedIsAnswered
<1>1. IInv => ArchivedIsAnswered
  BY DEF IInv
<1> QED BY <1>1, RouterInvariant, PTL

-----------------------------------------------------------------------------
(* Every answer beyond the first is paid for by a failure. *)

LEMMA PutTake ==
    ASSUME NEW S, NEW f \in [S -> Nat], NEW c \in S
    PROVE  /\ Put(f, c)[c] = f[c] + 1 /\ Take(f, c)[c] = f[c] - 1
           /\ \A x \in S : x # c => Put(f, c)[x] = f[x] /\ Take(f, c)[x] = f[x]
BY DEF Put, Take

LEMMA CopiesFinite == ASSUME NEW d \in Dispatch PROVE IsFiniteSet(CopiesOf(d))
<1> DEFINE f == [n \in Deaths |-> [message |-> d, deaths |-> n]]
<1>1. IsFiniteSet(Deaths)
  BY RouterAssumption, FS_Interval DEF Deaths
<1>2. f \in Surjection(Deaths, CopiesOf(d))
  <2>1. f \in [Deaths -> CopiesOf(d)]
    BY DispatchIsMessage DEF CopiesOf, Copy
  <2>2. \A c \in CopiesOf(d) : c.deaths \in Deaths /\ f[c.deaths] = c
    BY DEF CopiesOf, Copy
  <2> HIDE DEF f
  <2> QED BY <2>1, <2>2 DEF Surjection
<1> HIDE DEF f
<1> QED BY <1>1, <1>2, FS_Surjection

LEMMA CountsAre ==
    ASSUME TypeOK, NEW d \in Dispatch
    PROVE  /\ IsFiniteSet(CopiesOf(d)) /\ IsFiniteSet(Routed(d))
           /\ \A c \in CopiesOf(d) : Queued(d)[c] \in Int
           /\ SumFunction(Queued(d)) = SumFunctionOnSet(Queued(d), CopiesOf(d))
           /\ SumFunction(Queued(d)) \in Int /\ Cardinality(Routed(d)) \in Nat
           /\ answered[d] \in Nat /\ exhausted[d] \in Nat /\ failures \in Nat
<1>1. IsFiniteSet(CopiesOf(d)) /\ DOMAIN Queued(d) = CopiesOf(d)
  BY CopiesFinite DEF Queued
<1>2. \A c \in CopiesOf(d) : Queued(d)[c] \in Int
  BY DEF Queued, CopiesOf, TypeOK
<1>3. SumFunction(Queued(d)) = SumFunctionOnSet(Queued(d), CopiesOf(d))
  BY <1>1 DEF SumFunction
<1>4. IsFiniteSet(Routed(d)) /\ Cardinality(Routed(d)) \in Nat
  BY RouterAssumption, FS_Subset, FS_CardinalityType DEF Routed
<1>5. SumFunction(Queued(d)) \in Int
  BY <1>1, <1>2, <1>3, SumType
<1> QED BY <1>1, <1>2, <1>3, <1>4, <1>5 DEF TypeOK

\* The copies of d in the queues: as before, or one of them gains or loses n.
LEMMA QueuedStays ==
    ASSUME TypeOK, NEW d \in Dispatch,
           \A c \in CopiesOf(d) : queue'[c] + inbox'[c] + delayed'[c]
                                    = queue[c] + inbox[c] + delayed[c]
    PROVE  SumFunction(Queued(d)') = SumFunction(Queued(d))
<1>1. Queued(d)' = Queued(d)
  BY DEF Queued, CopiesOf
<1> QED BY <1>1

LEMMA QueuedChanges ==
    ASSUME TypeOK, NEW d \in Dispatch, NEW c \in CopiesOf(d), NEW n \in {-1, 1},
           queue'[c] + inbox'[c] + delayed'[c] = queue[c] + inbox[c] + delayed[c] + n,
           \A x \in CopiesOf(d) : x # c => queue'[x] + inbox'[x] + delayed'[x]
                                            = queue[x] + inbox[x] + delayed[x]
    PROVE  SumFunction(Queued(d)') = SumFunction(Queued(d)) + n
<1> DEFINE f == Queued(d)
           g == Queued(d)'
           S == CopiesOf(d)
<1>1. /\ IsFiniteSet(S) /\ n \in Int /\ c \in S /\ DOMAIN g = S
      /\ \A x \in S : f[x] \in Int
  <2>1. DOMAIN g = S
    BY DEF Queued, CopiesOf
  <2>2. IsFiniteSet(S) /\ \A x \in S : f[x] \in Int
    BY CountsAre
  <2> QED BY <2>1, <2>2
<1>2. g[c] = f[c] + n /\ \A x \in S : x # c => g[x] = f[x]
  BY DEF Queued, CopiesOf
<1>3. SumFunction(f) = SumFunctionOnSet(f, S)
  BY CountsAre
<1> HIDE DEF f, g, S
<1>4. SumFunctionOnSet(g, S) = SumFunctionOnSet(f, S) + n
  BY <1>1, <1>2, SumChange
<1>5. SumFunction(g) = SumFunctionOnSet(g, S)
  BY <1>1 DEF SumFunction
<1> QED BY <1>3, <1>4, <1>5 DEF f, g

\* A copy of d that becomes another copy of d.
LEMMA QueuedMoves ==
    ASSUME TypeOK, NEW d \in Dispatch, NEW c \in CopiesOf(d), NEW e \in CopiesOf(d), c # e,
           queue'[c] + inbox'[c] + delayed'[c] = queue[c] + inbox[c] + delayed[c] + (-1),
           queue'[e] + inbox'[e] + delayed'[e] = queue[e] + inbox[e] + delayed[e] + 1,
           \A x \in CopiesOf(d) : x \notin {c, e} =>
              queue'[x] + inbox'[x] + delayed'[x] = queue[x] + inbox[x] + delayed[x]
    PROVE  SumFunction(Queued(d)') = SumFunction(Queued(d))
<1> DEFINE f == Queued(d)
           g == Queued(d)'
           S == CopiesOf(d)
           h == [x \in S |-> IF x = c THEN f[c] + (-1) ELSE f[x]]
<1>1. /\ IsFiniteSet(S) /\ c \in S /\ e \in S /\ DOMAIN g = S
      /\ \A x \in S : f[x] \in Int
  <2>1. DOMAIN g = S
    BY DEF Queued, CopiesOf
  <2>2. IsFiniteSet(S) /\ \A x \in S : f[x] \in Int
    BY CountsAre
  <2> QED BY <2>1, <2>2
<1>2. /\ g[c] = f[c] + (-1) /\ g[e] = f[e] + 1
      /\ \A x \in S : x \notin {c, e} => g[x] = f[x]
  <2>1. \A x \in S : /\ f[x] = queue[x] + inbox[x] + delayed[x]
                     /\ g[x] = queue'[x] + inbox'[x] + delayed'[x]
    BY DEF Queued, CopiesOf
  <2> HIDE DEF f, g
  <2>2. g[c] = f[c] + (-1)
    BY <2>1
  <2>3. g[e] = f[e] + 1
    BY <2>1
  <2>4. \A x \in S : x \notin {c, e} => g[x] = f[x]
    BY <2>1
  <2> QED BY <2>2, <2>3, <2>4
<1>3. SumFunction(f) = SumFunctionOnSet(f, S) /\ SumFunctionOnSet(f, S) \in Int
  BY CountsAre
<1> HIDE DEF f, g, S
<1>4. /\ h[c] = f[c] + (-1) /\ \A x \in S : x # c => h[x] = f[x]
      /\ \A x \in S : h[x] \in Int
      /\ g[e] = h[e] + 1 /\ \A x \in S : x # e => g[x] = h[x]
  BY <1>1, <1>2
<1> HIDE DEF h
<1>5. SumFunctionOnSet(h, S) = SumFunctionOnSet(f, S) + (-1)
  BY <1>1, <1>4, SumChange
<1>6. SumFunctionOnSet(g, S) = SumFunctionOnSet(h, S) + 1
  <2>1. /\ IsFiniteSet(S) /\ e \in S /\ 1 \in Int /\ g[e] = h[e] + 1
        /\ \A x \in S : h[x] \in Int
        /\ \A x \in S : x # e => g[x] = h[x]
    BY <1>1, <1>4
  <2> QED BY <2>1, SumChange
<1>7. SumFunction(g) = SumFunctionOnSet(g, S)
  BY <1>1 DEF SumFunction
<1> QED BY <1>3, <1>5, <1>6, <1>7 DEF f, g

\* The slots that route a copy of d: one takes a copy, or is done with it.
LEMMA RoutedJoins ==
    ASSUME TypeOK, NEW d \in Dispatch, NEW r, r \notin Routed(d),
           Routed(d)' = Routed(d) \cup {r}
    PROVE  Cardinality(Routed(d)') = Cardinality(Routed(d)) + 1
BY CountsAre, FS_AddElement

LEMMA RoutedLeaves ==
    ASSUME TypeOK, NEW d \in Dispatch, NEW r, r \in Routed(d),
           Routed(d)' = Routed(d) \ {r}
    PROVE  Cardinality(Routed(d)') = Cardinality(Routed(d)) - 1
BY CountsAre, FS_RemoveElement

\* What each step does to the account of dispatch d.
Account(d) ==
    SumFunction(Queued(d)) + Cardinality(Routed(d)) + answered[d] + exhausted[d]

AccountsOK == \A d \in Dispatch : Account(d) \in Int

LEMMA AccountIs == TypeOK => AccountsOK
BY CountsAre DEF Account, AccountsOK

LEMMA ConsumerPays ==
    ASSUME IInv, IInv', NEW c \in Copy, Consumer(c), NEW d \in Dispatch
    PROVE  Account(d)' - failures' <= Account(d) - failures
<1> USE DEF IInv
<1>1. /\ queue \in [Copy -> Nat] /\ inbox \in [Copy -> Nat] /\ delayed \in [Copy -> Nat]
      /\ answered \in [Dispatch -> Nat] /\ exhausted \in [Dispatch -> Nat] /\ failures \in Nat
  BY DEF TypeOK
<1>2. /\ SumFunction(Queued(d)) \in Int /\ Cardinality(Routed(d)) \in Nat
      /\ CopiesOf(d) \subseteq Copy
  BY CountsAre DEF CopiesOf
<1>3. Routed(d)' = Routed(d) /\ UNCHANGED <<delayed, exhausted>>
  BY DEF Consumer, Process, ProcessTwice, Reject, answers, router, Routed
<1>4. CASE Process(c)
  <2>1. /\ queue' = Take(queue, c) /\ UNCHANGED <<inbox, failures>>
        /\ answered' = IF c.message \in Dispatch THEN Put(answered, c.message) ELSE answered
    BY <1>4 DEF Process
  <2>2. CASE c.message = d
    <3>1. c \in CopiesOf(d)
      BY <2>2 DEF CopiesOf
    <3>2. /\ queue'[c] = queue[c] - 1
          /\ \A x \in CopiesOf(d) : x # c => queue'[x] = queue[x]
      BY <1>1, <1>2, <2>1, PutTake
    <3>3. SumFunction(Queued(d)') = SumFunction(Queued(d)) + (-1)
      BY <1>1, <1>2, <1>3, <2>1, <3>1, <3>2, QueuedChanges
    <3>4. answered'[d] = answered[d] + 1
      BY <1>1, <2>1, <2>2, PutTake
    <3> QED BY <1>1, <1>2, <1>3, <2>1, <3>3, <3>4 DEF Account
  <2>3. CASE c.message # d
    <3>1. \A x \in CopiesOf(d) : queue'[x] = queue[x]
      BY <1>1, <1>2, <2>1, <2>3, PutTake DEF CopiesOf
    <3>2. SumFunction(Queued(d)') = SumFunction(Queued(d))
      BY <1>3, <2>1, <3>1, QueuedStays
    <3>3. answered'[d] = answered[d]
      BY <1>1, <2>1, <2>3, PutTake
    <3> QED BY <1>1, <1>2, <1>3, <2>1, <3>2, <3>3 DEF Account
  <2> QED BY <2>2, <2>3
<1>5. CASE ProcessTwice(c)
  <2>1. /\ UNCHANGED <<queue, inbox>> /\ failures' = failures + 1
        /\ answered' = Put(answered, c.message) /\ c.message \in Dispatch
    BY <1>5 DEF ProcessTwice, Fails
  <2>2. answered'[d] = answered[d] \/ answered'[d] = answered[d] + 1
    <3>1. CASE c.message = d
      BY <1>1, <2>1, <3>1, PutTake
    <3>2. CASE c.message # d
      BY <1>1, <2>1, <3>2, PutTake
    <3> QED BY <3>1, <3>2
  <2>3. SumFunction(Queued(d)') = SumFunction(Queued(d))
    BY <1>3, <2>1, QueuedStays
  <2> QED BY <1>1, <1>2, <1>3, <2>1, <2>2, <2>3 DEF Account
<1>6. CASE Reject(c)
  <2>1. /\ Rejected(c) \in Copy
        /\ queue' = Take(queue, c) /\ inbox' = Put(inbox, Rejected(c))
        /\ UNCHANGED <<answered, failures>>
    BY <1>6 DEF Reject, answers
  <2>2. Rejected(c).message = c.message /\ Rejected(c) # c
    BY CopyFields
  <2>3. SumFunction(Queued(d)') = SumFunction(Queued(d))
    <3>1. CASE c.message = d
      <4> DEFINE e == Rejected(c)
      <4>1. c \in CopiesOf(d) /\ e \in CopiesOf(d) /\ c # e
        BY <2>1, <2>2, <3>1 DEF CopiesOf
      <4>2. /\ queue'[c] = queue[c] - 1 /\ \A x \in Copy : x # c => queue'[x] = queue[x]
            /\ inbox'[e] = inbox[e] + 1 /\ \A x \in Copy : x # e => inbox'[x] = inbox[x]
        BY <1>1, <2>1, PutTake
      <4> HIDE DEF e
      <4>3. /\ queue'[c] + inbox'[c] + delayed'[c] = queue[c] + inbox[c] + delayed[c] + (-1)
            /\ queue'[e] + inbox'[e] + delayed'[e] = queue[e] + inbox[e] + delayed[e] + 1
            /\ \A x \in CopiesOf(d) : x \notin {c, e} =>
                 queue'[x] + inbox'[x] + delayed'[x] = queue[x] + inbox[x] + delayed[x]
        BY <1>1, <1>2, <1>3, <4>1, <4>2
      <4> QED BY <4>1, <4>3, QueuedMoves
    <3>2. CASE c.message # d
      <4>1. \A x \in CopiesOf(d) : x # c /\ x # Rejected(c)
        BY <2>2, <3>2 DEF CopiesOf
      <4>2. \A x \in CopiesOf(d) : queue'[x] = queue[x] /\ inbox'[x] = inbox[x]
        BY <1>1, <1>2, <2>1, <4>1, PutTake
      <4> QED BY <1>3, <4>2, QueuedStays
    <3> QED BY <3>1, <3>2
  <2> QED BY <1>1, <1>2, <1>3, <2>1, <2>3 DEF Account
<1> QED BY <1>4, <1>5, <1>6 DEF Consumer

LEMMA DelayPays ==
    ASSUME IInv, IInv', NEW c \in Copy, DelayExpires(c), NEW d \in Dispatch
    PROVE  Account(d)' - failures' <= Account(d) - failures
<1> USE DEF IInv
<1>1. /\ queue \in [Copy -> Nat] /\ inbox \in [Copy -> Nat] /\ delayed \in [Copy -> Nat]
  BY DEF TypeOK
<1>2. /\ delayed' = Take(delayed, c) /\ queue' = Put(queue, c)
      /\ UNCHANGED <<inbox, answered, exhausted, failures, pc, slot>>
  BY DEF DelayExpires, router, answers
<1>3. \A x \in Copy : queue'[x] + inbox'[x] + delayed'[x] = queue[x] + inbox[x] + delayed[x]
  <2> SUFFICES ASSUME NEW x \in Copy
               PROVE  queue'[x] + inbox'[x] + delayed'[x] = queue[x] + inbox[x] + delayed[x]
    OBVIOUS
  <2>1. queue[x] \in Nat /\ inbox[x] \in Nat /\ delayed[x] \in Nat
    BY <1>1
  <2>2. \/ queue'[x] = queue[x] + 1 /\ delayed'[x] = delayed[x] - 1
        \/ queue'[x] = queue[x] /\ delayed'[x] = delayed[x]
    <3>1. CASE x = c
      BY <1>1, <1>2, <3>1, PutTake
    <3>2. CASE x # c
      BY <1>1, <1>2, <3>2, PutTake
    <3> QED BY <3>1, <3>2
  <2> QED BY <1>2, <2>1, <2>2
<1>4. SumFunction(Queued(d)') = SumFunction(Queued(d)) /\ Routed(d)' = Routed(d)
  BY <1>2, <1>3, QueuedStays DEF CopiesOf, Routed
<1>5. Account(d)' = Account(d)
  BY <1>2, <1>4 DEF Account
<1> QED BY <1>2, <1>5, AccountIs, CountsAre DEF AccountsOK

LEMMA DeliverPays ==
    ASSUME IInv, IInv', NEW r \in Slot, NEW c \in Copy, Deliver(r, c), NEW d \in Dispatch
    PROVE  Account(d)' - failures' <= Account(d) - failures
<1> USE DEF IInv
<1>1. /\ inbox \in [Copy -> Nat] /\ pc[r] = "idle"
      /\ inbox' = Take(inbox, c) /\ slot' = [slot EXCEPT ![r] = c]
      /\ pc' = [pc EXCEPT ![r] = "route"]
      /\ UNCHANGED <<queue, delayed, answered, exhausted, failures>>
  BY DEF Deliver, Goto, answers, TypeOK
<1>2. /\ pc'[r] = "route" /\ slot'[r] = c
      /\ \A q \in Slot : q # r => pc'[q] = pc[q] /\ slot'[q] = slot[q]
  BY <1>1 DEF TypeOK
<1>3. /\ SumFunction(Queued(d)) \in Int /\ Cardinality(Routed(d)) \in Nat
      /\ answered[d] \in Nat /\ exhausted[d] \in Nat /\ failures \in Nat
  BY CountsAre
<1>4. CASE c.message = d
  <2>1. c \in CopiesOf(d) /\ CopiesOf(d) \subseteq Copy
    BY <1>4 DEF CopiesOf
  <2>2. /\ queue'[c] + inbox'[c] + delayed'[c] = queue[c] + inbox[c] + delayed[c] + (-1)
        /\ \A x \in CopiesOf(d) : x # c => queue'[x] + inbox'[x] + delayed'[x]
                                             = queue[x] + inbox[x] + delayed[x]
    <3>1. inbox'[c] = inbox[c] - 1 /\ \A x \in Copy : x # c => inbox'[x] = inbox[x]
      BY <1>1, PutTake
    <3>2. queue[c] \in Nat /\ inbox[c] \in Nat /\ delayed[c] \in Nat
      BY DEF TypeOK
    <3> QED BY <1>1, <2>1, <3>1, <3>2
  <2>3. SumFunction(Queued(d)') = SumFunction(Queued(d)) + (-1)
    BY <2>1, <2>2, QueuedChanges
  <2>4. r \notin Routed(d) /\ Routed(d)' = Routed(d) \cup {r}
    BY <1>1, <1>2, <1>4 DEF Routed
  <2>5. Cardinality(Routed(d)') = Cardinality(Routed(d)) + 1
    BY <2>4, RoutedJoins
  <2> QED BY <1>1, <1>3, <2>3, <2>5 DEF Account
<1>5. CASE c.message # d
  <2>1. \A x \in CopiesOf(d) : inbox'[x] = inbox[x]
    BY <1>1, <1>5, PutTake DEF CopiesOf
  <2>2. SumFunction(Queued(d)') = SumFunction(Queued(d))
    BY <1>1, <2>1, QueuedStays
  <2>3. Routed(d)' = Routed(d)
    BY <1>1, <1>2, <1>5 DEF Routed
  <2> QED BY <1>1, <1>3, <2>2, <2>3 DEF Account
<1> QED BY <1>4, <1>5

\* A router slot puts what it holds back into one of the queues.
LEMMA SlotPuts ==
    ASSUME IInv, NEW r \in Slot, pc[r] # "idle", NEW d \in Dispatch,
           \/ delayed' = Put(delayed, slot[r]) /\ UNCHANGED <<queue, inbox>>
           \/ inbox' = Put(inbox, slot[r]) /\ UNCHANGED <<queue, delayed>>
    PROVE  SumFunction(Queued(d)')
             = SumFunction(Queued(d)) + IF slot[r].message = d THEN 1 ELSE 0
<1> DEFINE c == slot[r]
<1>1. /\ c \in Copy /\ TypeOK /\ inbox \in [Copy -> Nat] /\ delayed \in [Copy -> Nat]
      /\ queue[c] \in Nat /\ inbox[c] \in Nat /\ delayed[c] \in Nat
  BY HeldCopy DEF IInv, TypeOK
<1>2. /\ queue'[c] + inbox'[c] + delayed'[c] = queue[c] + inbox[c] + delayed[c] + 1
      /\ \A x \in Copy : x # c => queue'[x] + inbox'[x] + delayed'[x]
                                    = queue[x] + inbox[x] + delayed[x]
  <2> HIDE DEF c
  <2>1. CASE delayed' = Put(delayed, c) /\ UNCHANGED <<queue, inbox>>
    BY <1>1, <2>1, PutTake
  <2>2. CASE inbox' = Put(inbox, c) /\ UNCHANGED <<queue, delayed>>
    BY <1>1, <2>2, PutTake
  <2> QED BY <2>1, <2>2 DEF c
<1> HIDE DEF c
<1>3. CASE c.message = d
  <2>1. c \in CopiesOf(d) /\ CopiesOf(d) \subseteq Copy
    BY <1>1, <1>3 DEF CopiesOf
  <2>2. SumFunction(Queued(d)') = SumFunction(Queued(d)) + 1
    BY <1>1, <1>2, <2>1, QueuedChanges
  <2> QED BY <1>3, <2>2 DEF c
<1>4. CASE c.message # d
  <2>1. \A x \in CopiesOf(d) : x \in Copy /\ x # c
    BY <1>4 DEF CopiesOf
  <2>2. SumFunction(Queued(d)') = SumFunction(Queued(d))
    BY <1>1, <1>2, <2>1, QueuedStays
  <2> QED BY <1>1, <1>4, <2>2, CountsAre DEF c
<1> QED BY <1>3, <1>4

LEMMA QueuesStay ==
    ASSUME IInv, UNCHANGED <<queue, inbox, delayed>>, NEW d \in Dispatch
    PROVE  SumFunction(Queued(d)') = SumFunction(Queued(d))
BY QueuedStays DEF IInv

\* A slot that stops routing, or was not.
LEMMA SlotIsDone ==
    ASSUME IInv, NEW r \in Slot, pc[r] # "idle", pc'[r] # "route", NEW d \in Dispatch,
           \A q \in Slot : q # r => pc'[q] = pc[q] /\ slot'[q] = slot[q]
    PROVE  Cardinality(Routed(d)')
             = Cardinality(Routed(d))
                 - IF pc[r] = "route" /\ slot[r].message = d THEN 1 ELSE 0
<1>1. CASE pc[r] = "route" /\ slot[r].message = d
  <2>1. r \in Routed(d) /\ Routed(d)' = Routed(d) \ {r}
    BY <1>1 DEF Routed
  <2> QED BY <1>1, <2>1, RoutedLeaves DEF IInv
<1>2. CASE ~(pc[r] = "route" /\ slot[r].message = d)
  <2>1. Routed(d)' = Routed(d)
    BY <1>2 DEF Routed
  <2> QED BY <1>2, <2>1, CountsAre DEF IInv
<1> QED BY <1>1, <1>2

LEMMA RoutePays ==
    ASSUME IInv, IInv', NEW r \in Slot, Route(r) \/ RouterFails(r), NEW d \in Dispatch
    PROVE  Account(d)' - failures' <= Account(d) - failures
<1> DEFINE holds == slot[r].message = d
           queued == SumFunction(Queued(d))
           routed == Cardinality(Routed(d))
<1>1. /\ queued \in Int /\ routed \in Nat
      /\ answered[d] \in Nat /\ exhausted[d] \in Nat /\ failures \in Nat
      /\ exhausted \in [Dispatch -> Nat]
  BY CountsAre DEF IInv, TypeOK
<1>2. /\ pc[r] # "idle" /\ pc'[r] # "route"
      /\ \A q \in Slot : q # r => pc'[q] = pc[q] /\ slot'[q] = slot[q]
  BY DEF Route, ScheduleRetry, PublishFailedCompletion, Archive, Ack, RouterFails, Goto,
         IInv, TypeOK
<1>3. routed' = routed - IF pc[r] = "route" /\ holds THEN 1 ELSE 0
  BY <1>2, SlotIsDone
<1>4. CASE ScheduleRetry(r)
  <2>1. /\ pc[r] = "route" /\ delayed' = Put(delayed, slot[r])
        /\ UNCHANGED <<queue, inbox, answered, exhausted, failures>>
    BY <1>4 DEF ScheduleRetry, answers
  <2>2. queued' = queued + IF holds THEN 1 ELSE 0
    BY <1>2, <2>1, SlotPuts
  <2> HIDE DEF holds, queued, routed
  <2>3. queued' + routed' = queued + routed
    <3>1. CASE holds
      BY <1>1, <1>3, <2>1, <2>2, <3>1
    <3>2. CASE ~holds
      BY <1>1, <1>3, <2>1, <2>2, <3>2
    <3> QED BY <3>1, <3>2
  <2> QED BY <1>1, <2>1, <2>3 DEF Account, queued, routed
<1>5. CASE PublishFailedCompletion(r)
  <2>1. /\ pc[r] = "route" /\ exhausted' = Put(exhausted, slot[r].message)
        /\ UNCHANGED <<queue, inbox, delayed, answered, failures>>
        /\ slot[r].message \in Dispatch
    BY <1>5 DEF PublishFailedCompletion, Routable
  <2>2. queued' = queued
    BY <2>1, QueuesStay
  <2>3. exhausted'[d] = exhausted[d] + IF holds THEN 1 ELSE 0
    <3>1. CASE holds
      BY <1>1, <2>1, <3>1, PutTake
    <3>2. CASE ~holds
      BY <1>1, <2>1, <3>2, PutTake
    <3> QED BY <3>1, <3>2
  <2> HIDE DEF holds
  <2>4. CASE holds
    BY <1>1, <1>3, <2>1, <2>2, <2>3, <2>4 DEF Account
  <2>5. CASE ~holds
    BY <1>1, <1>3, <2>1, <2>2, <2>3, <2>5 DEF Account
  <2> QED BY <2>4, <2>5
<1>6. CASE Archive(r) \/ Ack(r)
  <2>1. UNCHANGED <<queue, inbox, delayed, answered, exhausted, failures>>
    BY <1>6 DEF Archive, Ack, answers
  <2>2. queued' = queued
    BY <2>1, QueuesStay
  <2>3. routed' <= routed /\ routed' \in Int
    BY <1>1, <1>3
  <2> QED BY <1>1, <2>1, <2>2, <2>3 DEF Account
<1>7. CASE RouterFails(r)
  <2>1. /\ inbox' = Put(inbox, slot[r]) /\ failures' = failures + 1
        /\ UNCHANGED <<queue, delayed, answered, exhausted>>
    BY <1>7 DEF RouterFails, Requeued, Fails, answers
  <2>2. queued' = queued + IF holds THEN 1 ELSE 0
    BY <1>2, <2>1, SlotPuts
  <2>3. queued' \in Int /\ queued' <= queued + 1 /\ routed' \in Int /\ routed' <= routed
    BY <1>1, <1>3, <2>2
  <2> QED BY <1>1, <2>1, <2>3 DEF Account
<1> QED BY <1>4, <1>5, <1>6, <1>7 DEF Route

LEMMA StepPays ==
    ASSUME IInv, IInv', [Next]_vars, NEW d \in Dispatch
    PROVE  Account(d)' - failures' <= Account(d) - failures
<1>1. CASE Next
  BY <1>1, ConsumerPays, DelayPays, DeliverPays, RoutePays DEF Next
<1>2. CASE UNCHANGED vars
  <2>1. UNCHANGED <<queue, inbox, delayed, slot, pc, answered, exhausted, failures>>
    BY <1>2 DEF vars, router, answers
  <2>2. Queued(d)' = Queued(d) /\ Routed(d)' = Routed(d)
    BY <2>1 DEF Queued, Routed
  <2>3. Account(d)' = Account(d)
    BY <2>1, <2>2 DEF Account
  <2> QED BY <2>1, <2>3, AccountIs, CountsAre DEF AccountsOK, IInv
<1> QED BY <1>1, <1>2

LEMMA InitAccount == ASSUME Init, NEW d \in Dispatch PROVE Account(d) <= 1 + failures
<1> DEFINE f == Queued(d)
           S == CopiesOf(d)
           c == [message |-> d, deaths |-> 0]
           z == [x \in S |-> 0]
<1>1. TypeOK
  BY InitInv DEF IInv
<1>2. IsFiniteSet(S) /\ (\A x \in S : f[x] \in Int) /\ SumFunction(f) = SumFunctionOnSet(f, S)
  BY <1>1, CountsAre
<1>3. c \in S
  BY RouterAssumption, DispatchIsMessage DEF CopiesOf, Copy, Deaths
<1>4. \A x \in S : f[x] = IF x = c THEN 1 ELSE 0
  <2>1. \A x \in S : x.deaths = 0 <=> x = c
    BY DEF CopiesOf, Copy
  <2>2. \A x \in S : f[x] = queue[x] + inbox[x] + delayed[x] /\ x \in Copy
    BY DEF Queued, CopiesOf
  <2>3. \A x \in Copy : /\ queue[x] = IF x.deaths = 0 THEN 1 ELSE 0
                        /\ inbox[x] = 0 /\ delayed[x] = 0
    BY DEF Init
  <2> HIDE DEF f, S, c
  <2> QED BY <2>1, <2>2, <2>3
<1> HIDE DEF f, S, c
<1>5. SumFunctionOnSet(z, S) = 0
  BY <1>2, SumZero
<1>6. SumFunctionOnSet(f, S) = SumFunctionOnSet(z, S) + 1
  <2>1. /\ IsFiniteSet(S) /\ c \in S /\ 1 \in Int /\ f[c] = z[c] + 1
        /\ \A x \in S : z[x] \in Int
        /\ \A x \in S : x # c => f[x] = z[x]
    BY <1>2, <1>3, <1>4
  <2> HIDE DEF z
  <2> QED BY <2>1, SumChange
<1>7. Routed(d) = {}
  BY DEF Init, Routed
<1>8. answered[d] = 0 /\ exhausted[d] = 0 /\ failures = 0
  BY DEF Init
<1> QED BY <1>2, <1>5, <1>6, <1>7, <1>8, FS_EmptySet DEF Account, f

\* A dispatch is answered at most once more than something failed: neither
\* retries nor the handing over between queues, router and DLQ duplicate it.
THEOREM AnswersAreFew == Spec => []OneAnswerPerFailure
<1>1. Init => AnswersAhead
  BY InitAccount DEF AnswersAhead, Account
<1>2. (TypeOK => AccountsOK) /\ (TypeOK' => AccountsOK')
  BY AccountIs, PTL
<1>3. IInv /\ IInv' /\ AnswersAhead /\ [Next]_vars => AnswersAhead'
  <2> SUFFICES ASSUME IInv, IInv', AnswersAhead, [Next]_vars, NEW d \in Dispatch
               PROVE  Account(d)' <= 1 + failures'
    BY DEF AnswersAhead, Account
  <2>1. Account(d) <= 1 + failures
    BY DEF AnswersAhead, Account
  <2>2. Account(d)' - failures' <= Account(d) - failures
    BY StepPays
  <2>3. /\ Account(d) \in Int /\ failures \in Nat
        /\ Account(d)' \in Int /\ failures' \in Nat
    BY <1>2 DEF AccountsOK, IInv, TypeOK
  <2> QED BY <2>1, <2>2, <2>3
<1>4. IInv /\ AnswersAhead => OneAnswerPerFailure
  <2> SUFFICES ASSUME IInv, AnswersAhead, NEW d \in Dispatch
               PROVE  answered[d] + exhausted[d] <= 1 + failures
    BY DEF OneAnswerPerFailure
  <2>1. \A c \in CopiesOf(d) : Queued(d)[c] >= 0
    BY DEF Queued, CopiesOf, IInv, TypeOK
  <2>2. SumFunction(Queued(d)) >= 0
    BY <2>1, CountsAre, SumNatural DEF IInv
  <2> QED BY <2>2, CountsAre DEF AnswersAhead, IInv
<1> QED BY <1>1, <1>3, <1>4, RouterInvariant, PTL DEF Spec
=============================================================================
