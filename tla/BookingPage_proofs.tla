-------------------------- MODULE BookingPage_proofs --------------------------
(***************************************************************************)
(* Proofs about the confirmation page, for every booking, any delay of its *)
(* requests and any number of requests that fail.                          *)
(***************************************************************************)
EXTENDS BookingPage, TLAPS

LEMMA GroupsUnchanged ==
    /\ UNCHANGED service => UNCHANGED <<booking, step, accepted>>
    /\ UNCHANGED requests => UNCHANGED <<get, answer>>
    /\ UNCHANGED page => UNCHANGED <<post, shown, timer, get, answer, decision>>
BY DEF service, requests, page

-----------------------------------------------------------------------------
(* The service *)

ServiceType ==
    /\ booking \in BookingStatus
    /\ step \in [Step -> RowStatus]
    /\ accepted \in BOOLEAN

ServiceMoves == Service!Next \/ UNCHANGED service

\* The decision of the client is a step of the service.
LEMMA DecisionIsServed ==
    ASSUME DecisionTaken
    PROVE  ServiceMoves
BY DEF DecisionTaken, ServiceMoves, Service!Next

LEMMA RelabelledRows ==
    ASSUME step \in [Step -> RowStatus], NEW S, NEW from, NEW to \in RowStatus,
           step' = Service!Relabelled(S, from, to)
    PROVE  /\ step' \in [Step -> RowStatus]
           /\ \A s \in Step : step'[s] = step[s] \/ (step[s] = from /\ step'[s] = to)
BY DEF Service!Relabelled

LEMMA ServiceTyped ==
    ASSUME ServiceType, ServiceMoves
    PROVE  ServiceType'
<1> USE DEF ServiceType
<1>1. CASE UNCHANGED service
  BY <1>1, GroupsUnchanged
<1>2. CASE Service!Request \/ Service!Ask \/ Service!Accept \/ Service!Fail
           \/ Service!Confirm
  BY <1>2 DEF Service!Request, Service!Ask, Service!Accept, Service!Fail,
     Service!Confirm, BookingStatus, Service!Final
<1>3. CASE Service!FailPending
  BY <1>3, RelabelledRows DEF Service!FailPending, RowStatus
<1>4. ASSUME NEW S, Service!AddRows(S) \/ Service!Undo(S) PROVE ServiceType'
  BY <1>4, RelabelledRows DEF Service!AddRows, Service!Undo, RowStatus
<1>5. ASSUME NEW s \in Step, Service!Begin(Stage[s]) \/ Service!Undone(s)
      PROVE  ServiceType'
  BY <1>5, RelabelledRows DEF Service!Begin, Service!Undone, RowStatus
<1>6. ASSUME NEW s \in Step, NEW o \in {"success", "failed"}, Service!Settle(s, o)
      PROVE  ServiceType'
  BY <1>6 DEF Service!Settle, RowStatus
<1> QED BY <1>1, <1>2, <1>3, <1>4, <1>5, <1>6 DEF ServiceMoves, Service!Next

\* A row that has its outcome never loses it for an earlier status.
LEMMA RowsMoveOn ==
    ASSUME ServiceType, ServiceMoves, NEW s \in Step,
           step[s] \notin {"none", "pending", "in_progress"}
    PROVE  step'[s] \notin {"none", "pending", "in_progress"}
<1> USE DEF ServiceType
<1>1. CASE UNCHANGED service
  BY <1>1, GroupsUnchanged
<1>2. CASE Service!Request \/ Service!Ask \/ Service!Accept \/ Service!Fail
           \/ Service!Confirm
  BY <1>2 DEF Service!Request, Service!Ask, Service!Accept, Service!Fail,
     Service!Confirm
<1>3. CASE Service!FailPending
  BY <1>3, RelabelledRows DEF Service!FailPending, RowStatus
<1>4. ASSUME NEW S, Service!AddRows(S) \/ Service!Undo(S)
      PROVE  step'[s] \notin {"none", "pending", "in_progress"}
  BY <1>4, RelabelledRows DEF Service!AddRows, Service!Undo, RowStatus
<1>5. ASSUME NEW u \in Step, Service!Begin(Stage[u]) \/ Service!Undone(u)
      PROVE  step'[s] \notin {"none", "pending", "in_progress"}
  BY <1>5, RelabelledRows DEF Service!Begin, Service!Undone, RowStatus
<1>6. ASSUME NEW u \in Step, NEW o \in {"success", "failed"}, Service!Settle(u, o)
      PROVE  step'[s] \notin {"none", "pending", "in_progress"}
  BY <1>6 DEF Service!Settle
<1> QED BY <1>1, <1>2, <1>3, <1>4, <1>5, <1>6 DEF ServiceMoves, Service!Next

\* A confirmed booking and its rows are as they will always be.
LEMMA ConfirmedIsFinal ==
    ASSUME ServiceType, ServiceMoves, Fulfilled(booking, step),
           booking \in {"confirmed", "partially_confirmed"}
    PROVE  booking' = booking /\ step' = step
<1> USE DEF ServiceType
<1>1. \A s \in Step : step[s] \in {"success", "failed"}
  BY DEF Fulfilled
<1>2. CASE UNCHANGED service
  BY <1>2, GroupsUnchanged
<1>3. ASSUME NEW s \in Step, Service!Undone(s) PROVE booking' = booking /\ step' = step
  BY <1>1, <1>3 DEF Service!Undone, Service!Relabelled
<1>4. ASSUME NEW s \in Step, NEW o \in {"success", "failed"}, Service!Settle(s, o)
      PROVE  FALSE
  BY <1>1, <1>4 DEF Service!Settle
<1> QED BY <1>2, <1>3, <1>4
        DEF ServiceMoves, Service!Next, Service!Request, Service!Ask, Service!Accept,
            Service!Fail, Service!FailPending, Service!Confirm, Service!AddRows,
            Service!Begin, Service!Undo, Service!Open

\* A booking is only confirmed for what its rows say.
LEMMA ConfirmFulfils ==
    ASSUME ServiceType, Service!Confirm
    PROVE  Fulfilled(booking, step)'
<1> USE DEF ServiceType, Service!Confirm
<1>1. step' = step
  OBVIOUS
<1>2. Service!Asked = Asked
  BY DEF Service!Asked, Asked
<1>3. CASE Service!Mixed
  BY <1>1, <1>2, <1>3 DEF Service!Cleared, Service!Mixed, Fulfilled, Asked
<1>4. CASE ~Service!Mixed
  BY <1>1, <1>4 DEF Service!Cleared, Fulfilled
<1> QED BY <1>3, <1>4

\* Where the status of the booking says something of its rows, it is so.
LEMMA StatusTold ==
    ASSUME ServiceType, ServiceMoves, Known
    PROVE  /\ Fulfilled(booking, step)'
           /\ booking' = "awaiting_user_decision" => AskedSettled(step)'
<1>1. CASE booking' = booking
  <2>1. Fulfilled(booking, step)'
    <3>1. CASE booking \in {"confirmed", "partially_confirmed"}
      <4>1. booking' = booking /\ step' = step
        BY <3>1, ConfirmedIsFinal DEF Known
      <4> QED BY <4>1 DEF Known, Fulfilled, Asked
    <3>2. CASE booking \notin {"confirmed", "partially_confirmed"}
      BY <1>1, <3>2 DEF Fulfilled
    <3> QED BY <3>1, <3>2
  <2>2. booking = "awaiting_user_decision" => AskedSettled(step)'
    BY RowsMoveOn DEF Known, AskedSettled, Asked
  <2> QED BY <1>1, <2>1, <2>2
<1>2. CASE booking' # booking
  <2>1. \/ Service!Request \/ Service!Ask \/ Service!Accept \/ Service!Fail
        \/ Service!Confirm
    BY <1>2, GroupsUnchanged DEF ServiceMoves, Service!Next, Service!FailPending,
       Service!AddRows, Service!Begin, Service!Settle, Service!Undo, Service!Undone
  <2>2. CASE Service!Confirm
    BY <2>2, ConfirmFulfils DEF Service!Confirm
  <2>3. CASE Service!Ask
    <3>1. AskedSettled(step)'
      BY <2>3 DEF Service!Ask, Service!Mixed, Service!Asked, AskedSettled, Asked
    <3> QED BY <2>3, <3>1 DEF Service!Ask, Fulfilled
  <2>4. CASE Service!Request \/ Service!Accept \/ Service!Fail
    BY <2>4 DEF Service!Request, Service!Accept, Service!Fail, Fulfilled
  <2> QED BY <2>1, <2>2, <2>3, <2>4
<1> QED BY <1>1, <1>2

-----------------------------------------------------------------------------
(* The page *)

LEMMA InitInv == Init => IInv
<1> SUFFICES ASSUME Init PROVE IInv
  OBVIOUS
<1>1. Nothing \in Snapshot /\ Nothing.booking = "none"
  BY DEF Nothing, Snapshot, BookingStatus, RowStatus
<1>2. TypeOK
  BY <1>1, PageAssumption DEF Init, Service!Init, TypeOK, BookingStatus, RowStatus
<1>3. Known
  BY <1>1 DEF Init, Service!Init, Known, Fulfilled
<1> QED BY <1>1, <1>2, <1>3
        DEF IInv, Init, ConfirmedIsComplete, OfferIsSettled, Fulfilled

\* While the service moves, what the page has stays true of it.
LEMMA ServiceGoesOn ==
    ASSUME IInv, ServiceMoves, UNCHANGED <<shown, answer>>
    PROVE  ServiceType' /\ Known' /\ ConfirmedIsComplete' /\ OfferIsSettled'
<1>1. ServiceType /\ Known
  BY DEF IInv, TypeOK, ServiceType
<1>2. ServiceType'
  BY <1>1, ServiceTyped
<1>3. Known'
  <2>1. /\ Fulfilled(booking, step)'
        /\ booking' = "awaiting_user_decision" => AskedSettled(step)'
    BY <1>1, StatusTold
  <2>2. ASSUME NEW g \in Get, answer[g].booking \in {"confirmed", "partially_confirmed"}
        PROVE  booking' = answer[g].booking
    BY <1>1, <2>2, ConfirmedIsFinal DEF Known
  <2>3. ASSUME NEW g \in Get, answer[g].booking = "awaiting_user_decision"
        PROVE  AskedSettled(step)' /\ AskedSettled(answer[g].step)
    BY <1>1, <2>3, RowsMoveOn DEF Known, AskedSettled, Asked
  <2>4. \A g \in Get :
          /\ Fulfilled(answer[g].booking, answer[g].step)' <=>
               Fulfilled(answer[g].booking, answer[g].step)
          /\ AskedSettled(answer[g].step)' <=> AskedSettled(answer[g].step)
    BY DEF Fulfilled, AskedSettled, Asked
  <2>5. \A g \in Get : Fulfilled(answer[g].booking, answer[g].step)
    BY <1>1 DEF Known
  <2> QED BY <2>1, <2>2, <2>3, <2>4, <2>5 DEF Known
<1>4. ConfirmedIsComplete' /\ OfferIsSettled'
  BY DEF IInv, ConfirmedIsComplete, OfferIsSettled, Fulfilled, Asked
<1> QED BY <1>1, <1>2, <1>3, <1>4

LEMMA FailuresCounted ==
    ASSUME TypeOK, GoesWell \/ Fails
    PROVE  failures' \in Nat
BY DEF TypeOK, GoesWell, Fails

\* A request that moves on, with its answer as it was.
LEMMA GetType ==
    ASSUME TypeOK, NEW g \in Get, NEW state \in {"idle", "sent", "reading", "answered"}
    PROVE  [get EXCEPT ![g] = state] \in
             [Get -> {"idle", "sent", "reading", "answered"}]
BY DEF TypeOK

LEMMA ServiceInv ==
    ASSUME IInv, ServiceStep \/ DecisionTaken
    PROVE  IInv'
<1>1. ServiceMoves
  BY DecisionIsServed DEF ServiceStep, ServiceMoves
<1>2. UNCHANGED <<post, shown, timer, answer>> /\ GoesWell
  BY GroupsUnchanged DEF ServiceStep, DecisionTaken
<1>3. /\ decision' \in {decision, "none"}
      /\ get' = get \/ get' = [get EXCEPT !["decision"] = "sent"]
  BY GroupsUnchanged DEF ServiceStep, DecisionTaken
<1>4. ServiceType' /\ Known' /\ ConfirmedIsComplete' /\ OfferIsSettled'
  BY <1>1, <1>2, ServiceGoesOn
<1>5. TypeOK'
  <2>1. get' \in [Get -> {"idle", "sent", "reading", "answered"}]
    BY <1>3, GetType DEF IInv, TypeOK, Get
  <2>2. failures' \in Nat
    BY <1>2, FailuresCounted DEF IInv
  <2> QED BY <1>2, <1>3, <1>4, <2>1, <2>2 DEF IInv, TypeOK, ServiceType
<1> QED BY <1>4, <1>5 DEF IInv

\* A snapshot that says of itself no more than is so may be shown.
LEMMA ShowInv ==
    ASSUME IInv, NEW snapshot \in Snapshot,
           NEW gets \in [Get -> {"idle", "sent", "reading", "answered"}],
           Show(snapshot, gets), UNCHANGED <<service, answer, decision>>, GoesWell,
           post' \in {"sent", "answered"},
           Fulfilled(snapshot.booking, snapshot.step),
           snapshot.booking = "awaiting_user_decision" => AskedSettled(snapshot.step)
    PROVE  IInv'
<1>1. /\ shown' = snapshot /\ timer' \in BOOLEAN
      /\ get' = [gets EXCEPT !["poll"] = "idle"]
      /\ UNCHANGED <<booking, step, accepted>>
  BY GroupsUnchanged DEF Show
<1>2. get' \in [Get -> {"idle", "sent", "reading", "answered"}]
  BY <1>1 DEF Get
<1>3. TypeOK'
  BY <1>1, <1>2, FailuresCounted DEF IInv, TypeOK
<1>4. Known'
  BY <1>1 DEF IInv, Known, Fulfilled, AskedSettled, Asked
<1>5. ConfirmedIsComplete' /\ OfferIsSettled'
  BY <1>1 DEF ConfirmedIsComplete, OfferIsSettled, Fulfilled, AskedSettled, Asked
<1> QED BY <1>3, <1>4, <1>5 DEF IInv

LEMMA AnswerShown ==
    ASSUME IInv, NEW g \in Get,
           NEW gets \in [Get -> {"idle", "sent", "reading", "answered"}],
           Show(answer[g], gets), UNCHANGED <<service, post, answer, decision>>, GoesWell
    PROVE  IInv'
<1>1. answer[g] \in Snapshot /\ post \in {"sent", "answered"}
  BY DEF IInv, TypeOK
<1> QED BY <1>1, ShowInv DEF IInv, Known

LEMMA SubmittedInv ==
    ASSUME IInv, Submitted
    PROVE  IInv'
<1> DEFINE snapshot == [booking |-> "in_progress",
                        step |-> [s \in Step |-> IF s \in FirstStage THEN "in_progress"
                                                 ELSE "pending"]]
<1>1. snapshot \in Snapshot
  BY DEF Snapshot, BookingStatus, RowStatus
<1>2. /\ Show(snapshot, get) /\ post' = "answered"
      /\ UNCHANGED <<service, answer, decision>> /\ GoesWell
  BY DEF Submitted
<1>3. snapshot.booking = "in_progress" /\ Fulfilled(snapshot.booking, snapshot.step)
  BY DEF Fulfilled
<1> HIDE DEF snapshot
<1> QED BY <1>1, <1>2, <1>3, ShowInv DEF IInv, TypeOK

\* findById: the booking first, the rows afterwards.
LEMMA ReadInv ==
    ASSUME IInv, NEW g \in Get, Serving(g)
    PROVE  IInv'
<1>1. /\ UNCHANGED <<booking, step, accepted, post, shown, timer, decision>> /\ GoesWell
      /\ TypeOK /\ Known
  BY GroupsUnchanged DEF Serving, ReadBooking, ReadRows, IInv
<1>2. get' \in [Get -> {"idle", "sent", "reading", "answered"}]
  BY <1>1, GetType DEF Serving, ReadBooking, ReadRows
<1>3. PICK a \in Snapshot :
        /\ answer' = [answer EXCEPT ![g] = a]
        /\ a.step = step /\ a.booking \in {booking, answer[g].booking}
  <2>1. CASE ReadBooking(g)
    <3>1. [booking |-> booking, step |-> step] \in Snapshot
      BY <1>1 DEF TypeOK, Snapshot
    <3> QED BY <2>1, <3>1 DEF ReadBooking
  <2>2. CASE ReadRows(g)
    <3>1. [answer[g] EXCEPT !.step = step] \in Snapshot
      BY <1>1 DEF TypeOK, Snapshot
    <3>2. answer' = [answer EXCEPT ![g] = [answer[g] EXCEPT !.step = step]]
      BY <2>2 DEF ReadRows
    <3>3. /\ [answer[g] EXCEPT !.step = step].step = step
          /\ [answer[g] EXCEPT !.step = step].booking = answer[g].booking
      BY <1>1 DEF TypeOK, Snapshot
    <3> QED BY <3>1, <3>2, <3>3
  <2> QED BY <2>1, <2>2 DEF Serving
<1>4. TypeOK'
  BY <1>1, <1>2, <1>3, FailuresCounted DEF TypeOK
<1>5. Known'
  <2>1. /\ answer'[g] = a /\ \A h \in Get \ {g} : answer'[h] = answer[h]
    BY <1>1, <1>3 DEF TypeOK
  <2>2. /\ a.booking \in {"confirmed", "partially_confirmed"} => booking = a.booking
        /\ Fulfilled(a.booking, step)
    <3>1. a.booking = booking \/ a.booking = answer[g].booking
      BY <1>3
    <3>2. a.booking \in {"confirmed", "partially_confirmed"} => booking = a.booking
      BY <1>1, <3>1 DEF Known
    <3> QED BY <1>1, <3>2 DEF Known, Fulfilled
  <2>3. a.booking = "awaiting_user_decision" => AskedSettled(step)
    BY <1>1, <1>3 DEF Known
  <2> QED BY <1>1, <1>3, <2>1, <2>2, <2>3 DEF Known, Fulfilled, AskedSettled, Asked
<1>6. ConfirmedIsComplete' /\ OfferIsSettled'
  BY <1>1 DEF IInv, ConfirmedIsComplete, OfferIsSettled
<1> QED BY <1>4, <1>5, <1>6 DEF IInv

\* Requests that start or fail, and the form that is left, change no snapshot
\* but to the empty one.
LEMMA RequestInv ==
    ASSUME IInv,
           \/ PollFires \/ PollFails \/ DecisionRefused \/ DecisionFails
           \/ \E choice \in {"accept_partial", "reject_all"} : Decide(choice)
    PROVE  IInv'
<1>1. /\ UNCHANGED <<booking, step, accepted, post, shown, answer>>
      /\ GoesWell \/ Fails
      /\ timer' \in {timer, FALSE}
      /\ decision' \in {"none", "accept_partial", "reject_all", decision}
  BY GroupsUnchanged DEF PollFires, PollFails, DecisionRefused, DecisionFails, Decide
<1>2. get' \in [Get -> {"idle", "sent", "reading", "answered"}]
  <2>1. \/ get' = get \/ get' = [get EXCEPT !["poll"] = "sent"]
        \/ get' = [get EXCEPT !["poll"] = "idle"]
        \/ get' = [get EXCEPT !["decision"] = "idle"]
    BY GroupsUnchanged DEF PollFires, PollFails, DecisionRefused, DecisionFails, Decide
  <2> QED BY <2>1, GetType DEF IInv, TypeOK, Get
<1>3. ServiceMoves
  BY <1>1 DEF ServiceMoves, service
<1>4. ServiceType' /\ Known' /\ ConfirmedIsComplete' /\ OfferIsSettled'
  BY <1>1, <1>3, ServiceGoesOn
<1>5. TypeOK'
  BY <1>1, <1>2, FailuresCounted DEF IInv, TypeOK
<1> QED BY <1>4, <1>5 DEF IInv

LEMMA ResetInv ==
    ASSUME IInv, Reset
    PROVE  IInv'
<1>1. /\ UNCHANGED <<booking, step, accepted, post, answer, decision>> /\ GoesWell
      /\ shown' = Nothing /\ timer' = FALSE
      /\ get' = [get EXCEPT !["poll"] = "idle"]
  BY GroupsUnchanged DEF Reset
<1>2. Nothing \in Snapshot /\ Nothing.booking = "none"
  BY DEF Nothing, Snapshot, BookingStatus, RowStatus
<1>3. TypeOK'
  <2>1. get' \in [Get -> {"idle", "sent", "reading", "answered"}]
    BY <1>1, GetType DEF IInv, Get
  <2> QED BY <1>1, <1>2, <2>1, FailuresCounted DEF IInv, TypeOK
<1>4. Known'
  BY <1>1 DEF IInv, Known, Fulfilled, AskedSettled, Asked
<1> QED BY <1>1, <1>2, <1>3, <1>4
        DEF IInv, ConfirmedIsComplete, OfferIsSettled, Fulfilled, Asked

LEMMA NextInv ==
    ASSUME IInv, [Next]_vars
    PROVE  IInv'
<1>1. get \in [Get -> {"idle", "sent", "reading", "answered"}]
  BY DEF IInv, TypeOK
<1>2. CASE PollAnswered
  BY <1>1, <1>2, AnswerShown DEF PollAnswered, Get
<1>3. CASE DecisionAnswered
  <2>1. [get EXCEPT !["decision"] = "idle"] \in
          [Get -> {"idle", "sent", "reading", "answered"}]
    BY <1>1
  <2> QED BY <1>3, <2>1, AnswerShown DEF DecisionAnswered, Get
<1>4. CASE UNCHANGED vars
  <2>1. /\ UNCHANGED <<booking, step, accepted, post, shown, timer, get, answer,
                       decision, failures>>
    BY <1>4, GroupsUnchanged DEF vars
  <2> QED BY <2>1 DEF IInv, TypeOK, Known, Fulfilled, AskedSettled, Asked,
                      ConfirmedIsComplete, OfferIsSettled
<1> QED BY <1>2, <1>3, <1>4, ServiceInv, SubmittedInv, ReadInv, RequestInv, ResetInv
        DEF Next, Polling

THEOREM PageInvariant == Spec => []IInv
BY InitInv, NextInv, PTL DEF Spec

\* Every part of the page, and of the service it watches, keeps its type.
THEOREM PageTypeCorrect == Spec => []TypeOK
<1>1. IInv => TypeOK
  BY DEF IInv
<1> QED BY <1>1, PageInvariant, PTL

\* However late its polls and however its decisions overlap with them, a page
\* that says "confirmed" shows every row successful, and one that says
\* "partially confirmed" every row but the failed ones of the asked stage:
\* the service reads the booking before its rows, and neither is taken back.
THEOREM ConfirmedComplete == Spec => []ConfirmedIsComplete
<1>1. IInv => ConfirmedIsComplete
  BY DEF IInv
<1> QED BY <1>1, PageInvariant, PTL

\* The user is only asked about items whose outcome the page shows.
THEOREM OfferSettled == Spec => []OfferIsSettled
<1>1. IInv => OfferIsSettled
  BY DEF IInv
<1> QED BY <1>1, PageInvariant, PTL
=============================================================================
