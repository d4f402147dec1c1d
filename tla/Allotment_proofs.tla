--------------------------- MODULE Allotment_proofs ---------------------------
(***************************************************************************)
(* Proofs about the inventory, for any number of items, any party sizes,   *)
(* any inventory and any number of failures.                               *)
(***************************************************************************)
EXTENDS Allotment, FiniteSums

LEMMA AddCount ==
    ASSUME NEW f \in [Item -> Nat], NEW i \in Item, NEW n \in Int, f[i] + n \in Nat
    PROVE  Add(f, i, n) \in [Item -> Nat]
BY DEF Add

LEMMA MarkRow ==
    ASSUME TypeOK, NEW i \in Item, NEW status \in RowStatus, Mark(i, status)
    PROVE  /\ row' \in [Item -> RowStatus]
           /\ row'[i] = status
           /\ \A j \in Item : j # i => row'[j] = row[j]
BY DEF TypeOK, Mark

LEMMA GotoLabel ==
    ASSUME TypeOK, NEW i \in Item,
           NEW label \in {"idle", "look", "book", "dispatch"}, Goto(i, label)
    PROVE  pc' \in [Item -> {"idle", "look", "book", "dispatch"}]
BY DEF TypeOK, Goto

LEMMA FailuresCounted ==
    ASSUME TypeOK, NEW i \in Item,
           GoesWell \/ \E kind \in Faults : Fails(kind) \/ Misleads(kind, i)
    PROVE  failures' \in Nat /\ misreported' \subseteq Item
BY DEF TypeOK, GoesWell, Fails, Misleads, Counted, incidents

\* A guarded reservation leaves a natural number, and adds to what is held.
LEMMA ReservationTaken ==
    ASSUME TypeOK, NEW i \in Item, ReserveUnits(i)
    PROVE  /\ left' \in Nat
           /\ held' \in [Item -> Int]
           /\ \A j \in Item : held'[j] >= held[j]
           /\ Fits(Demand[i]) => held'[i] = held[i] + 1
<1>1. Demand[i] \in Nat /\ left \in Nat /\ held \in [Item -> Int]
  BY InventoryAssumption DEF TypeOK
<1>2. CASE Fits(Demand[i])
  <2>1. left' = left - Demand[i] /\ held' = Add(held, i, 1)
    BY <1>2 DEF ReserveUnits
  <2>2. left' \in Nat
    BY <1>1, <1>2, <2>1 DEF Fits
  <2> QED BY <1>1, <1>2, <2>1, <2>2 DEF Add
<1>3. CASE ~Fits(Demand[i])
  BY <1>1, <1>3 DEF ReserveUnits
<1> QED BY <1>2, <1>3

\* Only a reservation that took effect is answered with success.
LEMMA AnswerGiven ==
    ASSUME TypeOK, NEW i \in Item, NEW o \in Outcome,
           completed' = [completed EXCEPT ![i][o] = @ + 1]
    PROVE  /\ completed' \in [Item -> [Outcome -> Nat]]
           /\ \A j \in Item : j # i => completed'[j] = completed[j]
           /\ o = "failed" => completed'[i]["success"] = completed[i]["success"]
<1>1. completed' = [completed EXCEPT ![i] = [completed[i] EXCEPT ![o] = @ + 1]]
  OBVIOUS
<1>2. completed[i] \in [Outcome -> Nat] /\ "success" \in Outcome
  BY DEF TypeOK, Outcome
<1>3. [completed[i] EXCEPT ![o] = @ + 1] \in [Outcome -> Nat]
  BY <1>2
<1> QED BY <1>1, <1>2, <1>3 DEF TypeOK

LEMMA AnsweredIs ==
    ASSUME NEW i
    PROVE  Answered(i) \in Outcome /\ (~Fits(Demand[i]) => Answered(i) = "failed")
BY DEF Answered, Outcome

\* What a delivery to an allotment agent does: a reservation, and its answer.
LEMMA ServeDoes ==
    ASSUME NEW i \in Item, Serve(i)
    PROVE  /\ reserve[i] > 0
           /\ ReserveUnits(i) \/ UNCHANGED <<left, held>>
           /\ \/ ReserveUnits(i) /\ Answer(i)
              \/ completed' = [completed EXCEPT ![i]["failed"] = @ + 1]
              \/ UNCHANGED completed
           /\ reserve' = Add(reserve, i, -1) \/ UNCHANGED reserve
           /\ UNCHANGED <<row, pc, seen, release, compensated, other>>
           /\ GoesWell \/ \E kind \in Faults : Fails(kind) \/ Misleads(kind, i)
<1>1. CASE Reserve(i)
  BY <1>1 DEF Reserve, orchestrator
<1>2. CASE ReserveUnanswered(i)
  BY <1>2 DEF ReserveUnanswered, Fails, Counted, orchestrator
<1>3. ASSUME NEW answered \in BOOLEAN, ReserveRedelivered(i, answered)
      PROVE  /\ reserve[i] > 0 /\ ReserveUnits(i)
             /\ Answer(i) \/ UNCHANGED completed
             /\ UNCHANGED <<row, pc, seen, reserve, release, compensated, other>>
             /\ \E kind \in Faults : Misleads(kind, i)
  BY <1>3 DEF ReserveRedelivered, Misleads, Counted, orchestrator
<1>4. ASSUME NEW committed \in BOOLEAN, ReserveGivenUp(i, committed)
      PROVE  /\ reserve[i] > 0
             /\ ReserveUnits(i) \/ UNCHANGED <<left, held>>
             /\ completed' = [completed EXCEPT ![i]["failed"] = @ + 1]
             /\ reserve' = Add(reserve, i, -1)
             /\ UNCHANGED <<row, pc, seen, release, compensated, other>>
             /\ \E kind \in Faults : Fails(kind) \/ Misleads(kind, i)
  BY <1>4 DEF ReserveGivenUp, Fails, Misleads, Counted, orchestrator
<1> QED BY <1>1, <1>2, <1>3, <1>4 DEF Serve

\* What a delivery of its compensation command does.
LEMMA UndoDoes ==
    ASSUME NEW i \in Item, Undo(i)
    PROVE  /\ release[i] > 0
           /\ ReleaseUnits(i) \/ UNCHANGED <<left, held>>
           /\ release' = Add(release, i, -1) \/ UNCHANGED release
           /\ compensated' = Add(compensated, i, 1) \/ UNCHANGED compensated
           /\ UNCHANGED <<row, pc, seen, reserve, completed, other>>
           /\ GoesWell \/ \E kind \in Faults : Fails(kind) \/ Misleads(kind, i)
<1>1. CASE Release(i)
  BY <1>1 DEF Release, orchestrator
<1>2. ASSUME NEW committed \in BOOLEAN, ReleaseUnanswered(i, committed)
      PROVE  /\ release[i] > 0
             /\ ReleaseUnits(i) \/ UNCHANGED <<left, held>>
             /\ release' = Add(release, i, -1)
             /\ UNCHANGED <<row, pc, seen, reserve, completed, compensated, other>>
             /\ \E kind \in Faults : Fails(kind)
  BY <1>2 DEF ReleaseUnanswered, Fails, Counted, orchestrator
<1>3. ASSUME NEW answered \in BOOLEAN, ReleaseRedelivered(i, answered)
      PROVE  /\ release[i] > 0 /\ ReleaseUnits(i)
             /\ compensated' = Add(compensated, i, 1) \/ UNCHANGED compensated
             /\ UNCHANGED <<row, pc, seen, reserve, release, completed, other>>
             /\ \E kind \in Faults : Misleads(kind, i)
  BY <1>3 DEF ReleaseRedelivered, Misleads, Counted, orchestrator
<1> QED BY <1>1, <1>2, <1>3 DEF Undo

-----------------------------------------------------------------------------

LEMMA InitInv == Init => IInv
<1> SUFFICES ASSUME Init PROVE IInv
  OBVIOUS
<1>1. TypeOK
  BY InventoryAssumption DEF Init, TypeOK, RowStatus
<1>2. \A i \in Item : HoldsWhatItAnswered(i)
  BY DEF Init, HoldsWhatItAnswered, Outcome
<1> QED BY <1>1, <1>2 DEF IInv

\* The orchestrator starts the stage, with the competitor before it.
LEMMA StartInv ==
    ASSUME IInv, NEW i \in Item, Start(i)
    PROVE  IInv'
<1> USE DEF IInv
<1>1. /\ UNCHANGED <<release, completed, compensated, held>>
      /\ failures' \in Nat /\ misreported' \subseteq Item
  <2>1. /\ UNCHANGED <<release, completed, compensated, held>>
        /\ GoesWell \/ \E kind \in Faults : Fails(kind)
    BY DEF Start, ClaimStage, LookAtInventory, BookAsOtherCustomer, DispatchStep,
           DispatchFails, Fails, Counted, queues, history
  <2> QED BY <2>1, FailuresCounted
<1>2. CASE ClaimStage(i)
  <2>1. /\ row[i] = "pending" /\ Mark(i, "in_progress")
        /\ Goto(i, IF i \in Marked THEN "look" ELSE "dispatch")
        /\ UNCHANGED <<left, seen, reserve, other>>
    BY <1>2 DEF ClaimStage, queues, history
  <2>2. /\ row' \in [Item -> RowStatus]
        /\ row'[i] = "in_progress" /\ \A j \in Item : j # i => row'[j] = row[j]
    BY <2>1, MarkRow DEF RowStatus
  <2>3. pc' \in [Item -> {"idle", "look", "book", "dispatch"}]
    BY <2>1, GotoLabel
  <2>4. TypeOK'
    BY <1>1, <2>1, <2>2, <2>3 DEF TypeOK
  <2> QED BY <1>1, <2>1, <2>2, <2>4 DEF HoldsWhatItAnswered
<1>3. CASE LookAtInventory(i)
  <2>1. /\ UNCHANGED <<left, row, reserve, other>>
        /\ \/ Taken(i) > 0 /\ seen' = [seen EXCEPT ![i] = Taken(i)] /\ Goto(i, "book")
           \/ UNCHANGED seen /\ Goto(i, "dispatch")
    BY <1>3 DEF LookAtInventory, queues, history
  <2>2. pc' \in [Item -> {"idle", "look", "book", "dispatch"}]
    BY <2>1, GotoLabel
  <2>3. Taken(i) \in Int
    BY InventoryAssumption DEF Taken, TypeOK
  <2>4. seen' \in [Item -> Nat]
    BY <2>1, <2>3 DEF TypeOK
  <2>5. TypeOK'
    BY <1>1, <2>1, <2>2, <2>4 DEF TypeOK
  <2> QED BY <1>1, <2>1, <2>5 DEF HoldsWhatItAnswered
<1>4. CASE BookAsOtherCustomer(i)
  <2>1. /\ UNCHANGED <<row, seen, reserve>> /\ Goto(i, "dispatch")
        /\ \/ Fits(seen[i]) /\ left' = left - seen[i] /\ other' = Add(other, i, seen[i])
           \/ UNCHANGED <<left, other>>
    BY <1>4 DEF BookAsOtherCustomer, queues
  <2>2. pc' \in [Item -> {"idle", "look", "book", "dispatch"}]
    BY <2>1, GotoLabel
  <2>3. left \in Nat /\ seen[i] \in Nat /\ other \in [Item -> Nat]
    BY DEF TypeOK
  <2>4. left' \in Nat
    BY <2>1, <2>3 DEF Fits
  <2>5. other' \in [Item -> Nat]
    <3>1. Add(other, i, seen[i]) \in [Item -> Nat]
      BY <2>3, AddCount
    <3> QED BY <2>1, <2>3, <3>1
  <2>6. TypeOK'
    BY <1>1, <2>1, <2>2, <2>4, <2>5 DEF TypeOK
  <2> QED BY <1>1, <2>1, <2>6 DEF HoldsWhatItAnswered
<1>5. CASE DispatchStep(i)
  <2>1. /\ UNCHANGED <<left, row, seen, other>> /\ Goto(i, "idle")
        /\ reserve' = Add(reserve, i, 1)
    BY <1>5 DEF DispatchStep, history
  <2>2. pc' \in [Item -> {"idle", "look", "book", "dispatch"}]
    BY <2>1, GotoLabel
  <2>3. reserve' \in [Item -> Nat]
    BY <2>1 DEF Add, TypeOK
  <2>4. TypeOK'
    BY <1>1, <2>1, <2>2, <2>3 DEF TypeOK
  <2> QED BY <1>1, <2>1, <2>4 DEF HoldsWhatItAnswered
<1>6. CASE DispatchFails(i)
  <2>1. UNCHANGED <<left, row, seen, reserve, other>> /\ Goto(i, "idle")
    BY <1>6 DEF DispatchFails, queues, history
  <2>2. pc' \in [Item -> {"idle", "look", "book", "dispatch"}]
    BY <2>1, GotoLabel
  <2>3. TypeOK'
    BY <1>1, <2>1, <2>2 DEF TypeOK
  <2> QED BY <1>1, <2>1, <2>3 DEF HoldsWhatItAnswered
<1> QED BY <1>2, <1>3, <1>4, <1>5, <1>6 DEF Start

\* The agent reserves, once or again, or gives up.
LEMMA ServeInv ==
    ASSUME IInv, NEW i \in Item, Serve(i)
    PROVE  IInv'
<1> USE DEF IInv
<1>1. /\ reserve[i] > 0
      /\ ReserveUnits(i) \/ UNCHANGED <<left, held>>
      /\ \/ ReserveUnits(i) /\ Answer(i)
         \/ completed' = [completed EXCEPT ![i]["failed"] = @ + 1]
         \/ UNCHANGED completed
      /\ reserve' = Add(reserve, i, -1) \/ UNCHANGED reserve
      /\ UNCHANGED <<row, pc, seen, release, compensated, other>>
      /\ GoesWell \/ \E kind \in Faults : Fails(kind) \/ Misleads(kind, i)
  BY ServeDoes
<1>2. /\ left' \in Nat /\ held' \in [Item -> Int]
      /\ \A j \in Item : held'[j] >= held[j]
      /\ ReserveUnits(i) /\ Fits(Demand[i]) => held'[i] = held[i] + 1
  <2>1. CASE ReserveUnits(i)
    BY <2>1, ReservationTaken
  <2>2. CASE UNCHANGED <<left, held>> /\ ~ReserveUnits(i)
    BY <2>2 DEF TypeOK
  <2> QED BY <1>1, <2>1, <2>2
<1>3. /\ completed' \in [Item -> [Outcome -> Nat]]
      /\ \A j \in Item : \/ completed'[j]["success"] = completed[j]["success"]
                         \/ j = i /\ ReserveUnits(i) /\ Fits(Demand[i])
  <2>1. CASE ReserveUnits(i) /\ Answer(i)
    <3>1. completed' = [completed EXCEPT ![i][Answered(i)] = @ + 1]
      BY <2>1 DEF Answer
    <3> QED BY <2>1, <3>1, AnswerGiven, AnsweredIs
  <2>2. CASE completed' = [completed EXCEPT ![i]["failed"] = @ + 1]
    BY <2>2, AnswerGiven DEF Outcome
  <2>3. CASE UNCHANGED completed
    BY <2>3 DEF TypeOK
  <2> QED BY <1>1, <2>1, <2>2, <2>3
<1>4. reserve' \in [Item -> Nat]
  BY <1>1 DEF Add, TypeOK
<1>5. TypeOK'
  BY <1>1, <1>2, <1>3, <1>4, FailuresCounted DEF TypeOK
<1>6. ASSUME NEW j \in Item PROVE HoldsWhatItAnswered(j)'
  <2>1. held[j] \in Int /\ held'[j] \in Int /\ held'[j] >= held[j]
    BY <1>2 DEF TypeOK
  <2>2. \/ completed'[j]["success"] = completed[j]["success"]
        \/ j = i /\ held'[i] = held[i] + 1
    BY <1>2, <1>3
  <2>3. HoldsWhatItAnswered(j) /\ row'[j] = row[j] /\ release'[j] = release[j]
    BY <1>1
  <2> QED BY <2>1, <2>2, <2>3 DEF HoldsWhatItAnswered
<1> QED BY <1>5, <1>6

\* The agent releases, once or again, or fails to.
LEMMA UndoInv ==
    ASSUME IInv, NEW i \in Item, Undo(i)
    PROVE  IInv'
<1> USE DEF IInv
<1>1. /\ release[i] > 0
      /\ \/ left' = left + Demand[i] /\ held' = Add(held, i, -1)
         \/ UNCHANGED <<left, held>>
      /\ release' = Add(release, i, -1) \/ UNCHANGED release
      /\ compensated' = Add(compensated, i, 1) \/ UNCHANGED compensated
      /\ UNCHANGED <<row, pc, seen, reserve, completed, other>>
      /\ GoesWell \/ \E kind \in Faults : Fails(kind) \/ Misleads(kind, i)
  BY UndoDoes DEF ReleaseUnits, Returned
<1>2. left' \in Nat
  BY <1>1, InventoryAssumption DEF TypeOK
<1>3. held' \in [Item -> Int] /\ \A j \in Item : j # i => held'[j] = held[j]
  BY <1>1 DEF Add, TypeOK
<1>4. release' \in [Item -> Nat] /\ \A j \in Item : j # i => release'[j] = release[j]
  <2>1. release[i] + (-1) \in Nat /\ release \in [Item -> Nat]
    BY <1>1 DEF TypeOK
  <2>2. Add(release, i, -1) \in [Item -> Nat]
    BY <2>1 DEF Add
  <2>3. \A j \in Item : j # i => Add(release, i, -1)[j] = release[j]
    BY <2>1 DEF Add
  <2> QED BY <1>1, <2>1, <2>2, <2>3
<1>5. compensated' \in [Item -> Nat]
  BY <1>1 DEF Add, TypeOK
<1>6. TypeOK'
  BY <1>1, <1>2, <1>3, <1>4, <1>5, FailuresCounted DEF TypeOK
<1>7. row[i] \in {"compensating", "compensated"}
  BY <1>1 DEF HoldsWhatItAnswered, TypeOK
<1> QED BY <1>1, <1>3, <1>4, <1>6, <1>7 DEF HoldsWhatItAnswered

\* The orchestrator applies an answer, or archives it.
LEMMA ApplyInv ==
    ASSUME IInv, NEW i \in Item, NEW o \in Outcome,
           ApplyCompletion(i, o) \/ CompletionArchived(i, o)
    PROVE  IInv'
<1> USE DEF IInv
<1>1. /\ completed[i][o] > 0
      /\ completed' = [completed EXCEPT ![i] = [completed[i] EXCEPT ![o] = @ - 1]]
      /\ \/ row' = IF row[i] = "in_progress" THEN [row EXCEPT ![i] = o] ELSE row
         \/ row' = row
      /\ UNCHANGED <<left, pc, seen, reserve, release, compensated, held, other>>
      /\ GoesWell \/ \E kind \in Faults : Fails(kind)
  BY DEF ApplyCompletion, CompletionArchived, Fails, Counted, orchestrator, history
<1>2. completed[i] \in [Outcome -> Nat] /\ "success" \in Outcome /\ Outcome \subseteq RowStatus
  BY DEF TypeOK, Outcome, RowStatus
<1>3. /\ [completed[i] EXCEPT ![o] = @ - 1] \in [Outcome -> Nat]
      /\ [completed[i] EXCEPT ![o] = @ - 1]["success"] <= completed[i]["success"]
  BY <1>1, <1>2
<1>4. /\ completed' \in [Item -> [Outcome -> Nat]]
      /\ completed'[i]["success"] <= completed[i]["success"]
      /\ \A j \in Item : j # i => completed'[j] = completed[j]
  BY <1>1, <1>3 DEF TypeOK
<1>5. row' \in [Item -> RowStatus] /\ \A j \in Item : j # i => row'[j] = row[j]
  BY <1>1, <1>2 DEF TypeOK
<1>6. TypeOK'
  BY <1>1, <1>4, <1>5, FailuresCounted DEF TypeOK
<1>7. ASSUME NEW j \in Item, j # i PROVE HoldsWhatItAnswered(j)'
  BY <1>1, <1>4, <1>5, <1>7 DEF HoldsWhatItAnswered
<1>8. HoldsWhatItAnswered(i)'
  <2>1. row'[i] = row[i] \/ (row[i] = "in_progress" /\ row'[i] = o)
    <3>1. CASE row[i] = "in_progress"
      BY <1>1, <3>1 DEF TypeOK
    <3>2. CASE row[i] # "in_progress"
      BY <1>1, <3>2
    <3> QED BY <3>1, <3>2
  <2>2. o = "success" => completed[i]["success"] > 0
    BY <1>1
  <2>3. completed'[i]["success"] > 0 => completed[i]["success"] > 0
    BY <1>2, <1>4 DEF TypeOK
  <2>4. HoldsWhatItAnswered(i) /\ UNCHANGED <<release, held>>
    BY <1>1
  <2> QED BY <2>1, <2>2, <2>3, <2>4 DEF HoldsWhatItAnswered
<1> QED BY <1>6, <1>7, <1>8

\* The orchestrator gives a row up, and learns that it was undone.
LEMMA GiveUpInv ==
    ASSUME IInv, NEW i \in Item, NEW published \in BOOLEAN,
           \/ CompensateStep(i, published)
           \/ ApplyCompensated(i) \/ CompensatedArchived(i)
    PROVE  IInv'
<1> USE DEF IInv
<1>1. /\ UNCHANGED <<left, pc, seen, reserve, completed, held, other>>
      /\ GoesWell \/ \E kind \in Faults : Fails(kind)
  BY DEF CompensateStep, ApplyCompensated, CompensatedArchived, Fails, Counted,
         orchestrator, history
<1>2. CASE CompensateStep(i, published)
  <2>1. /\ Mark(i, "compensating")
        /\ release' = Add(release, i, 1) \/ UNCHANGED release
        /\ UNCHANGED compensated
    BY <1>2 DEF CompensateStep
  <2>2. /\ row' \in [Item -> RowStatus]
        /\ row'[i] = "compensating" /\ \A j \in Item : j # i => row'[j] = row[j]
    BY <2>1, MarkRow DEF RowStatus
  <2>3. release' \in [Item -> Nat] /\ \A j \in Item : j # i => release'[j] = release[j]
    BY <2>1 DEF Add, TypeOK
  <2>4. TypeOK'
    BY <1>1, <2>1, <2>2, <2>3, FailuresCounted DEF TypeOK
  <2> QED BY <1>1, <2>2, <2>3, <2>4 DEF HoldsWhatItAnswered
<1>3. CASE ApplyCompensated(i) \/ CompensatedArchived(i)
  <2>1. /\ compensated[i] > 0 /\ compensated' = Add(compensated, i, -1)
        /\ UNCHANGED release
        /\ \/ row' = IF row[i] = "compensating"
                     THEN [row EXCEPT ![i] = "compensated"] ELSE row
           \/ row' = row
    BY <1>3 DEF ApplyCompensated, CompensatedArchived, orchestrator
  <2>2. /\ row' \in [Item -> RowStatus]
        /\ row'[i] = row[i] \/ row'[i] = "compensated"
        /\ \A j \in Item : j # i => row'[j] = row[j]
    BY <2>1 DEF TypeOK, RowStatus
  <2>3. compensated' \in [Item -> Nat]
    BY <2>1 DEF Add, TypeOK
  <2>4. TypeOK'
    BY <1>1, <2>1, <2>2, <2>3, FailuresCounted DEF TypeOK
  <2> QED BY <1>1, <2>1, <2>2, <2>4 DEF HoldsWhatItAnswered
<1> QED BY <1>2, <1>3

LEMMA StutterInv == IInv /\ UNCHANGED vars => IInv'
BY DEF IInv, TypeOK, HoldsWhatItAnswered, vars, orchestrator, queues, history, incidents

-----------------------------------------------------------------------------

\* Whatever is reserved, released, answered and delivered again, in any order:
\* a row that is not being given up holds what it has answered or recorded.
THEOREM AllotmentInvariant == Spec => []IInv
<1>1. IInv /\ [Next]_vars => IInv'
  <2> SUFFICES ASSUME IInv, [Next]_vars PROVE IInv'
    OBVIOUS
  <2>1. CASE UNCHANGED vars
    BY <2>1, StutterInv
  <2>2. CASE \E i \in Item : Start(i)
    BY <2>2, StartInv
  <2>3. CASE \E i \in Item : Settle(i)
    BY <2>3, ApplyInv, GiveUpInv DEF Settle
  <2>4. CASE \E i \in Item : Serve(i) \/ Undo(i)
    BY <2>4, ServeInv, UndoInv
  <2> QED BY <2>1, <2>2, <2>3, <2>4 DEF Next
<1> QED BY <1>1, InitInv, PTL DEF Spec

\* Units of the inventory never become negative, whatever competes for them.
THEOREM AllotmentTypeCorrect == Spec => []TypeOK
<1>1. IInv => TypeOK
  BY DEF IInv
<1> QED BY <1>1, AllotmentInvariant, PTL

\* A row that says "success" holds its units, for any items, party sizes and
\* failures: it is never confirmed on an answer that stands for nothing.
THEOREM SuccessHeld == Spec => []SuccessIsHeld
<1>1. IInv => SuccessIsHeld
  BY DEF IInv, TypeOK, HoldsWhatItAnswered, SuccessIsHeld, Confirmed
<1> QED BY <1>1, AllotmentInvariant, PTL

-----------------------------------------------------------------------------
(* No unit is lost, and none is promised twice. *)

LEMMA SumsAre ==
    ASSUME TypeOK
    PROVE  /\ IsFiniteSet(Item) /\ DOMAIN Reserved = Item /\ DOMAIN other = Item
           /\ \A i \in Item : Reserved[i] \in Int /\ other[i] \in Int
           /\ SumFunction(Reserved) = SumFunctionOnSet(Reserved, Item)
           /\ SumFunction(other) = SumFunctionOnSet(other, Item)
           /\ SumFunction(Reserved) \in Int /\ SumFunction(other) \in Int
<1>1. IsFiniteSet(Item) /\ DOMAIN Reserved = Item /\ DOMAIN other = Item
  BY InventoryAssumption DEF TypeOK, Reserved
<1>2. \A i \in Item : Reserved[i] \in Int /\ other[i] \in Int
  <2> SUFFICES ASSUME NEW i \in Item PROVE Reserved[i] \in Int /\ other[i] \in Int
    OBVIOUS
  <2>1. Demand[i] \in Int /\ held[i] \in Int /\ other[i] \in Int
    BY InventoryAssumption DEF TypeOK
  <2> QED BY <2>1 DEF Reserved
<1>3. /\ SumFunction(Reserved) = SumFunctionOnSet(Reserved, Item)
      /\ SumFunction(other) = SumFunctionOnSet(other, Item)
  BY <1>1 DEF SumFunction
<1> QED BY <1>1, <1>2, <1>3, SumType

\* Another n units' worth of reservations of item i.
LEMMA ReservedChanges ==
    ASSUME TypeOK, TypeOK', NEW i \in Item, NEW n \in {-1, 1}, held' = Add(held, i, n)
    PROVE  SumFunction(Reserved') = SumFunction(Reserved) + n * Demand[i]
<1>1. \A j \in Item : Reserved[j] \in Int /\ (j # i => Reserved'[j] = Reserved[j])
  BY SumsAre DEF Reserved, Add, TypeOK
<1>2. Reserved'[i] = Reserved[i] + n * Demand[i]
  <2>1. Demand[i] \in Int /\ held[i] \in Int /\ held'[i] = held[i] + n
    <3>1. Demand[i] \in Int
      BY InventoryAssumption
    <3>2. held \in [Item -> Int] /\ held' = [held EXCEPT ![i] = @ + n]
      BY DEF TypeOK, Add
    <3> QED BY <3>1, <3>2
  <2>2. \A d, h \in Int : d * (h + n) = d * h + n * d
    <3>1. CASE n = 1
      BY <3>1
    <3>2. CASE n = -1
      BY <3>2
    <3> QED BY <3>1, <3>2
  <2> QED BY <2>1, <2>2 DEF Reserved
<1>3. n * Demand[i] \in Int
  BY InventoryAssumption
<1>4. SumFunctionOnSet(Reserved', Item) = SumFunctionOnSet(Reserved, Item) + n * Demand[i]
  <2> DEFINE f == Reserved
             g == Reserved'
             k == n * Demand[i]
  <2>1. /\ IsFiniteSet(Item) /\ k \in Int
        /\ g[i] = f[i] + k
        /\ \A j \in Item : f[j] \in Int
        /\ \A j \in Item : j # i => g[j] = f[j]
    BY <1>1, <1>2, <1>3, SumsAre
  <2> HIDE DEF f, g, k
  <2>2. SumFunctionOnSet(g, Item) = SumFunctionOnSet(f, Item) + k
    BY <2>1, SumChange
  <2> QED BY <2>2 DEF f, g, k
<1> QED BY <1>4, SumsAre DEF SumFunction, Reserved

LEMMA OtherChanges ==
    ASSUME TypeOK, TypeOK', NEW i \in Item, NEW n \in Nat, other' = Add(other, i, n)
    PROVE  SumFunction(other') = SumFunction(other) + n
<1>1. other'[i] = other[i] + n /\ \A j \in Item : j # i => other'[j] = other[j]
  BY DEF Add, TypeOK
<1>2. SumFunctionOnSet(other', Item) = SumFunctionOnSet(other, Item) + n
  <2> DEFINE f == other
             g == other'
  <2>1. /\ IsFiniteSet(Item) /\ n \in Int
        /\ g[i] = f[i] + n
        /\ \A j \in Item : f[j] \in Int
        /\ \A j \in Item : j # i => g[j] = f[j]
    BY <1>1, SumsAre
  <2> HIDE DEF f, g
  <2>2. SumFunctionOnSet(g, Item) = SumFunctionOnSet(f, Item) + n
    BY <2>1, SumChange
  <2> QED BY <2>2 DEF f, g
<1> QED BY <1>2, SumsAre DEF SumFunction, TypeOK

\* The UPDATE statements, and every other step.
LEMMA UpdatesOnly ==
    ASSUME [Next]_vars
    PROVE  \/ UNCHANGED <<left, held, other>>
           \/ \E i \in Item : \/ ReserveUnits(i) /\ UNCHANGED other
                              \/ ReleaseUnits(i) /\ UNCHANGED other
                              \/ BookAsOtherCustomer(i)
<1>1. CASE UNCHANGED vars
  BY <1>1 DEF vars, history
<1>2. CASE \E i \in Item : Start(i)
  BY <1>2 DEF Start, ClaimStage, LookAtInventory, DispatchStep, DispatchFails, history
<1>3. CASE \E i \in Item : Settle(i)
  BY <1>3 DEF Settle, ApplyCompletion, CompletionArchived, CompensateStep,
              ApplyCompensated, CompensatedArchived, history
<1>4. CASE \E i \in Item : Serve(i)
  BY <1>4, ServeDoes
<1>5. CASE \E i \in Item : Undo(i)
  BY <1>5, UndoDoes
<1> QED BY <1>1, <1>2, <1>3, <1>4, <1>5 DEF Next

LEMMA ConservedStep ==
    ASSUME TypeOK, TypeOK', Conserved, [Next]_vars
    PROVE  Conserved'
<1> DEFINE reserved == SumFunction(Reserved)
           taken == SumFunction(other)
<1>1. left \in Nat /\ reserved \in Int /\ taken \in Int /\ left + reserved + taken = Units
  BY SumsAre DEF TypeOK, Conserved
<1>2. \A i \in Item : Demand[i] \in Nat
  BY InventoryAssumption
<1> SUFFICES left' + reserved' + taken' = Units
  BY DEF Conserved
<1>3. UNCHANGED held => reserved' = reserved
  BY DEF Reserved
<1>4. UNCHANGED other => taken' = taken
  OBVIOUS
<1>5. CASE UNCHANGED <<left, held, other>>
  BY <1>1, <1>3, <1>4, <1>5
<1>6. ASSUME NEW i \in Item, ReserveUnits(i), UNCHANGED other
      PROVE  left' + reserved' + taken' = Units
  <2>1. CASE Fits(Demand[i])
    <3>1. left' = left - Demand[i] /\ held' = Add(held, i, 1)
      BY <1>6, <2>1 DEF ReserveUnits
    <3>2. reserved' = reserved + 1 * Demand[i]
      BY <3>1, ReservedChanges
    <3> HIDE DEF reserved, taken
    <3> QED BY <1>1, <1>2, <1>4, <1>6, <3>1, <3>2
  <2>2. CASE ~Fits(Demand[i])
    BY <1>1, <1>3, <1>4, <1>6, <2>2 DEF ReserveUnits
  <2> QED BY <2>1, <2>2
<1>7. ASSUME NEW i \in Item, ReleaseUnits(i), UNCHANGED other
      PROVE  left' + reserved' + taken' = Units
  <2>1. left' = left + Demand[i] /\ held' = Add(held, i, -1)
    BY <1>7 DEF ReleaseUnits, Returned
  <2>2. reserved' = reserved + (-1) * Demand[i]
    BY <2>1, ReservedChanges
  <2> HIDE DEF reserved, taken
  <2> QED BY <1>1, <1>2, <1>4, <1>7, <2>1, <2>2
<1>8. ASSUME NEW i \in Item, BookAsOtherCustomer(i)
      PROVE  left' + reserved' + taken' = Units
  <2>1. CASE Fits(seen[i])
    <3>1. left' = left - seen[i] /\ other' = Add(other, i, seen[i]) /\ UNCHANGED held
      BY <1>8, <2>1 DEF BookAsOtherCustomer
    <3>2. seen[i] \in Nat /\ taken' = taken + seen[i]
      BY <3>1, OtherChanges DEF TypeOK
    <3> HIDE DEF reserved, taken
    <3> QED BY <1>1, <1>3, <3>1, <3>2
  <2>2. CASE ~Fits(seen[i])
    BY <1>1, <1>3, <1>4, <1>8, <2>2 DEF BookAsOtherCustomer
  <2> QED BY <2>1, <2>2
<1> QED BY <1>5, <1>6, <1>7, <1>8, UpdatesOnly

\* Reservations, releases and the competitor move units and never make or lose
\* one, for any items, demands and failures.
THEOREM UnitsConserved == Spec => []Conserved
<1>1. Init => Conserved
  <2> SUFFICES ASSUME Init PROVE Conserved
    OBVIOUS
  <2>1. TypeOK
    BY InitInv DEF IInv
  <2>2. left = Units /\ Units \in Int
    BY InventoryAssumption DEF Init
  <2>3. \A i \in Item : Reserved[i] = 0 /\ other[i] = 0
    <3> SUFFICES ASSUME NEW i \in Item PROVE Reserved[i] = 0 /\ other[i] = 0
      OBVIOUS
    <3>1. held[i] = 0 /\ other[i] = 0 /\ Demand[i] \in Int
      BY InventoryAssumption DEF Init
    <3> QED BY <3>1 DEF Reserved
  <2>4. SumFunction(Reserved) = 0 /\ SumFunction(other) = 0
    BY <2>1, <2>3, SumsAre, SumZero
  <2> QED BY <2>2, <2>4 DEF Conserved
<1>2. TypeOK /\ TypeOK' /\ Conserved /\ [Next]_vars => Conserved'
  BY ConservedStep
<1> QED BY <1>1, <1>2, AllotmentTypeCorrect, PTL DEF Spec

\* What is confirmed is at most what is reserved.
LEMMA ConfirmedIsReserved ==
    ASSUME TypeOK, \A i \in Item : held[i] >= 0, SuccessIsHeld
    PROVE  /\ SumFunctionOnSet(Demand, Confirmed) \in Int
           /\ SumFunctionOnSet(Demand, Confirmed) <= SumFunction(Reserved)
<1> DEFINE asked == [i \in Item |-> IF i \in Confirmed THEN Demand[i] ELSE 0]
<1>1. IsFiniteSet(Item) /\ Confirmed \in SUBSET Item /\ IsFiniteSet(Confirmed)
  BY SumsAre, FS_Subset DEF Confirmed
<1>2. \A i \in Item : Demand[i] \in Nat
  BY InventoryAssumption
<1>3. SumFunctionOnSet(asked, Item) = SumFunctionOnSet(Demand, Confirmed)
  BY <1>1, <1>2, SumOfPart
<1>4. \A i \in Item : asked[i] <= Reserved[i]
  <2> SUFFICES ASSUME NEW i \in Item PROVE asked[i] <= Reserved[i]
    OBVIOUS
  <2>1. held[i] \in Nat /\ (i \in Confirmed => held[i] >= 1)
    BY DEF TypeOK, SuccessIsHeld
  <2>2. Reserved[i] = Demand[i] * held[i] /\ Demand[i] \in Nat
    BY <1>2 DEF Reserved
  <2>3. Demand[i] * held[i] >= 0 /\ (held[i] >= 1 => Demand[i] * held[i] >= Demand[i])
    BY <2>1, <2>2
  <2> QED BY <2>1, <2>2, <2>3
<1>5. SumFunctionOnSet(asked, Item) <= SumFunctionOnSet(Reserved, Item)
  BY <1>1, <1>2, <1>4, SumsAre, SumMonotone
<1>6. SumFunctionOnSet(Demand, Confirmed) \in Int
  BY <1>1, <1>2, SumType
<1> QED BY <1>3, <1>5, <1>6, SumsAre

\* Never is more promised than there is: what confirmed items and the other
\* customers have fits into the inventory, unless a release ran twice.
THEOREM NothingOversold == Spec => []NoOversell
<1>1. TypeOK /\ Conserved /\ SuccessIsHeld => NoOversell
  <2> SUFFICES ASSUME TypeOK, Conserved, SuccessIsHeld, ~OverReleased
               PROVE  SumFunctionOnSet(Demand, Confirmed) + SumFunction(other) <= Units
    BY DEF NoOversell
  <2>1. \A i \in Item : held[i] >= 0
    BY DEF OverReleased, TypeOK
  <2>2. /\ SumFunctionOnSet(Demand, Confirmed) \in Int
        /\ SumFunctionOnSet(Demand, Confirmed) <= SumFunction(Reserved)
    BY <2>1, ConfirmedIsReserved
  <2>3. /\ left \in Nat /\ SumFunction(Reserved) \in Int /\ SumFunction(other) \in Int
        /\ left + SumFunction(Reserved) + SumFunction(other) = Units
    BY SumsAre DEF TypeOK, Conserved
  <2> QED BY <2>2, <2>3
<1> QED BY <1>1, AllotmentTypeCorrect, UnitsConserved, SuccessHeld, PTL

-----------------------------------------------------------------------------
(* A step concerns one item. *)

Act(i) == Start(i) \/ Settle(i) \/ Serve(i) \/ Undo(i)

AsBefore(j) ==
    /\ row'[j] = row[j] /\ pc'[j] = pc[j] /\ seen'[j] = seen[j]
    /\ reserve'[j] = reserve[j] /\ release'[j] = release[j]
    /\ completed'[j] = completed[j] /\ compensated'[j] = compensated[j]
    /\ held'[j] = held[j] /\ other'[j] = other[j]

LEMMA AddElsewhere ==
    ASSUME NEW T, NEW f \in [Item -> T], NEW i \in Item, NEW n, NEW j \in Item, j # i
    PROVE  Add(f, i, n)[j] = f[j]
BY DEF Add

LEMMA OthersStay ==
    ASSUME TypeOK, NEW i \in Item, Act(i), NEW j \in Item, j # i
    PROVE  AsBefore(j)
<1>1. /\ \A label : Goto(i, label) => pc'[j] = pc[j]
      /\ \A status : Mark(i, status) => row'[j] = row[j]
      /\ \A n : /\ Add(reserve, i, n)[j] = reserve[j]
                /\ Add(release, i, n)[j] = release[j]
                /\ Add(compensated, i, n)[j] = compensated[j]
                /\ Add(held, i, n)[j] = held[j]
                /\ Add(other, i, n)[j] = other[j]
      /\ Answer(i) => completed'[j] = completed[j]
  BY AddElsewhere DEF TypeOK, Goto, Mark, Answer
<1>2. CASE ClaimStage(i) \/ LookAtInventory(i)
  BY <1>1, <1>2 DEF ClaimStage, LookAtInventory, AsBefore, TypeOK, queues, history
<1>3. CASE BookAsOtherCustomer(i) \/ DispatchStep(i) \/ DispatchFails(i)
  BY <1>1, <1>3 DEF BookAsOtherCustomer, DispatchStep, DispatchFails, AsBefore, queues,
                    history
<1>4. CASE \E o \in Outcome : ApplyCompletion(i, o) \/ CompletionArchived(i, o)
  BY <1>4 DEF ApplyCompletion, CompletionArchived, AsBefore, TypeOK, orchestrator, history
<1>5. ASSUME NEW published \in BOOLEAN,
             \/ CompensateStep(i, published)
             \/ ApplyCompensated(i) \/ CompensatedArchived(i)
      PROVE  AsBefore(j)
  BY <1>1, <1>5 DEF CompensateStep, ApplyCompensated, CompensatedArchived, AsBefore,
                    TypeOK, orchestrator, history
<1>6. CASE Serve(i)
  <2>1. completed' = [completed EXCEPT ![i]["failed"] = @ + 1] => completed'[j] = completed[j]
    BY DEF TypeOK
  <2> QED BY <1>1, <1>6, <2>1, ServeDoes DEF ReserveUnits, AsBefore
<1>7. CASE Undo(i)
  BY <1>1, <1>7, UndoDoes DEF ReleaseUnits, AsBefore
<1> QED BY <1>2, <1>3, <1>4, <1>5, <1>6, <1>7 DEF Act, Start, Settle

\* At most one failure in a step, and it misleads about its own item only.
LEMMA FailureOfItem ==
    ASSUME TypeOK, NEW i \in Item, Act(i)
    PROVE  /\ failures' \in {failures, failures + 1}
           /\ misreported \subseteq misreported'
           /\ misreported' \subseteq misreported \cup {i}
<1>1. CASE Start(i)
  BY <1>1 DEF Start, ClaimStage, LookAtInventory, BookAsOtherCustomer, DispatchStep,
              DispatchFails, GoesWell, Fails, Counted, incidents
<1>2. CASE Settle(i)
  BY <1>2 DEF Settle, ApplyCompletion, CompletionArchived, CompensateStep,
              ApplyCompensated, CompensatedArchived, GoesWell, Fails, Counted, incidents
<1>3. CASE Serve(i)
  BY <1>3, ServeDoes DEF GoesWell, Fails, Misleads, Counted, incidents
<1>4. CASE Undo(i)
  BY <1>4, UndoDoes DEF GoesWell, Fails, Misleads, Counted, incidents
<1> QED BY <1>1, <1>2, <1>3, <1>4 DEF Act

-----------------------------------------------------------------------------
(* The rows and the inventory agree, as far as the rows can tell. *)

\* What the step of an item does to its numbers.
LEMMA Added ==
    ASSUME TypeOK, NEW i \in Item, NEW n \in Int
    PROVE  /\ Add(reserve, i, n)[i] = reserve[i] + n
           /\ Add(release, i, n)[i] = release[i] + n
           /\ Add(compensated, i, n)[i] = compensated[i] + n
           /\ Add(held, i, n)[i] = held[i] + n
BY DEF TypeOK, Add

\* The next thing of the item is under way, or a failure was the last one.
GoesOn(i) == OneThingUnderWay(i)' \/ (Stuck(i)' /\ failures' = failures + 1)

LEMMA StartGoesOn ==
    ASSUME TypeOK, NEW i \in Item, Start(i), OneThingUnderWay(i)
    PROVE  GoesOn(i)
<1>1. CASE ClaimStage(i)
  BY <1>1 DEF ClaimStage, Mark, Goto, GoesOn, OneThingUnderWay, Stands, TypeOK, queues,
              history
<1>2. CASE LookAtInventory(i) \/ BookAsOtherCustomer(i)
  BY <1>2 DEF LookAtInventory, BookAsOtherCustomer, Goto, GoesOn, OneThingUnderWay,
              Stands, TypeOK, queues, history
<1>3. CASE DispatchStep(i)
  BY <1>3, Added DEF DispatchStep, Goto, GoesOn, OneThingUnderWay, Stands, TypeOK, history
<1>4. CASE DispatchFails(i)
  BY <1>4 DEF DispatchFails, Goto, Fails, Counted, GoesOn, OneThingUnderWay, Stuck,
              Stands, TypeOK, queues, history
<1> QED BY <1>1, <1>2, <1>3, <1>4 DEF Start

LEMMA AnswerTaken ==
    ASSUME TypeOK, NEW i \in Item, NEW o \in Outcome,
           completed' = [completed EXCEPT ![i][o] = @ - 1]
    PROVE  /\ completed'[i][o] = completed[i][o] - 1
           /\ \A p \in Outcome : p # o => completed'[i][p] = completed[i][p]
<1>1. completed' = [completed EXCEPT ![i] = [completed[i] EXCEPT ![o] = @ - 1]]
  OBVIOUS
<1>2. completed[i] \in [Outcome -> Nat] /\ completed \in [Item -> [Outcome -> Nat]]
  BY DEF TypeOK
<1> QED BY <1>1, <1>2

LEMMA SettleGoesOn ==
    ASSUME TypeOK, NEW i \in Item, Settle(i), OneThingUnderWay(i)
    PROVE  GoesOn(i)
<1>1. ASSUME NEW o \in Outcome, ApplyCompletion(i, o) PROVE OneThingUnderWay(i)'
  <2>1. /\ completed[i][o] > 0
        /\ row' = IF row[i] = "in_progress" THEN [row EXCEPT ![i] = o] ELSE row
        /\ UNCHANGED <<pc, reserve, release, compensated, held>>
    BY <1>1 DEF ApplyCompletion, history
  <2>2. completed[i] \in [Outcome -> Nat] /\ row \in [Item -> RowStatus]
    BY DEF TypeOK
  <2>3. /\ completed'[i][o] = completed[i][o] - 1
        /\ \A p \in Outcome : p # o => completed'[i][p] = completed[i][p]
    BY <1>1, AnswerTaken DEF ApplyCompletion
  <2>4. CASE o = "success"
    BY <2>1, <2>2, <2>3, <2>4 DEF OneThingUnderWay, Stands, Outcome
  <2>5. CASE o = "failed"
    BY <2>1, <2>2, <2>3, <2>5 DEF OneThingUnderWay, Stands, Outcome
  <2> QED BY <2>4, <2>5 DEF Outcome
<1>2. ASSUME NEW o \in Outcome, CompletionArchived(i, o)
      PROVE  Stuck(i)' /\ failures' = failures + 1
  <2>1. /\ completed[i][o] > 0
        /\ UNCHANGED <<row, pc, reserve, release, compensated, held>>
        /\ failures' = failures + 1
    BY <1>2 DEF CompletionArchived, Fails, Counted, orchestrator, history
  <2>2. completed[i] \in [Outcome -> Nat]
    BY DEF TypeOK
  <2>3. /\ completed'[i][o] = completed[i][o] - 1
        /\ \A p \in Outcome : p # o => completed'[i][p] = completed[i][p]
    BY <1>2, AnswerTaken DEF CompletionArchived
  <2>4. CASE o = "success"
    BY <2>1, <2>2, <2>3, <2>4 DEF OneThingUnderWay, Stuck, Stands, Outcome
  <2>5. CASE o = "failed"
    BY <2>1, <2>2, <2>3, <2>5 DEF OneThingUnderWay, Stuck, Stands, Outcome
  <2> QED BY <2>1, <2>4, <2>5 DEF Outcome
<1>3. ASSUME NEW published \in BOOLEAN, CompensateStep(i, published) PROVE GoesOn(i)
  <2>1. /\ row[i] = "success" /\ row'[i] = "compensating"
        /\ UNCHANGED <<pc, reserve, completed, compensated, held>>
    BY <1>3 DEF CompensateStep, Mark, TypeOK, history
  <2>2. pc[i] = "idle" /\ Stands(i, "success", 0, 0, 0, 0, 0, 1)
    BY <2>1 DEF OneThingUnderWay, Stands
  <2>3. CASE published
    <3>1. release'[i] = 1
      BY <1>3, <2>2, <2>3, Added DEF CompensateStep, Stands
    <3> QED BY <2>1, <2>2, <3>1 DEF GoesOn, OneThingUnderWay, Stands
  <2>4. CASE ~published
    <3>1. release' = release /\ failures' = failures + 1
      BY <1>3, <2>4 DEF CompensateStep, Fails, Counted
    <3>2. Stands(i, "compensating", 0, 0, 0, 0, 0, 1)'
      BY <2>1, <2>2, <3>1 DEF Stands
    <3> QED BY <2>1, <2>2, <3>1, <3>2 DEF GoesOn, Stuck
  <2> QED BY <2>3, <2>4
<1>4. CASE ApplyCompensated(i) \/ CompensatedArchived(i)
  <2>1. /\ compensated[i] > 0 /\ compensated' = Add(compensated, i, -1)
        /\ UNCHANGED <<pc, reserve, completed, release, held>>
    BY <1>4 DEF ApplyCompensated, CompensatedArchived, orchestrator, history
  <2>2. pc[i] = "idle" /\ Stands(i, "compensating", 0, 0, 0, 0, 1, 0)
    BY <2>1 DEF OneThingUnderWay, Stands
  <2>3. compensated'[i] = 0
    BY <2>1, <2>2, Added DEF Stands
  <2>4. CASE ApplyCompensated(i)
    <3>1. row'[i] = "compensated"
      BY <2>2, <2>4 DEF ApplyCompensated, Stands, TypeOK
    <3> QED BY <2>1, <2>2, <2>3, <3>1 DEF GoesOn, OneThingUnderWay, Stands
  <2>5. CASE CompensatedArchived(i)
    <3>1. row' = row /\ failures' = failures + 1
      BY <2>5 DEF CompensatedArchived, Fails, Counted, orchestrator
    <3>2. Stands(i, "compensating", 0, 0, 0, 0, 0, 0)'
      BY <2>1, <2>2, <2>3, <3>1 DEF Stands
    <3> QED BY <2>1, <2>2, <3>1, <3>2 DEF GoesOn, Stuck
  <2> QED BY <1>4, <2>4, <2>5
<1> QED BY <1>1, <1>2, <1>3, <1>4 DEF Settle, GoesOn

LEMMA ServeGoesOn ==
    ASSUME TypeOK, NEW i \in Item, Serve(i), OneThingUnderWay(i), i \notin misreported'
    PROVE  GoesOn(i)
<1>1. /\ reserve[i] > 0 /\ UNCHANGED <<row, pc, release, compensated>>
  BY ServeDoes
<1>2. pc[i] = "idle" /\ Stands(i, "in_progress", 1, 0, 0, 0, 0, 0)
  BY <1>1 DEF OneThingUnderWay, Stands
<1>3. /\ completed[i] \in [Outcome -> Nat] /\ completed \in [Item -> [Outcome -> Nat]]
      /\ "failed" \in Outcome
  BY DEF TypeOK, Outcome
<1>4. CASE Reserve(i)
  <2>1. reserve'[i] = 0 /\ ReserveUnits(i) /\ Answer(i)
    BY <1>2, <1>4, Added DEF Reserve, Stands
  <2>2. CASE Fits(Demand[i])
    <3>1. held'[i] = 1
      BY <1>2, <2>1, <2>2, Added DEF ReserveUnits, Stands
    <3>2. completed'[i]["success"] = 1 /\ completed'[i]["failed"] = 0
      BY <1>2, <1>3, <2>1, <2>2 DEF Answer, Answered, Stands, Outcome
    <3> QED BY <1>1, <1>2, <2>1, <3>1, <3>2 DEF GoesOn, OneThingUnderWay, Stands
  <2>3. CASE ~Fits(Demand[i])
    <3>1. held'[i] = 0
      BY <1>2, <2>1, <2>3 DEF ReserveUnits, Stands
    <3>2. completed'[i]["success"] = 0 /\ completed'[i]["failed"] = 1
      BY <1>2, <1>3, <2>1, <2>3 DEF Answer, Answered, Stands, Outcome
    <3> QED BY <1>1, <1>2, <2>1, <3>1, <3>2 DEF GoesOn, OneThingUnderWay, Stands
  <2> QED BY <2>2, <2>3
<1>5. CASE ReserveUnanswered(i)
  <2>1. /\ reserve'[i] = 0 /\ ReserveUnits(i) /\ completed' = completed
        /\ failures' = failures + 1
    BY <1>2, <1>5, Added DEF ReserveUnanswered, Fails, Counted, Stands
  <2>2. held'[i] \in {0, 1}
    BY <1>2, <2>1, Added DEF ReserveUnits, Stands
  <2>3. Stands(i, "in_progress", 0, 0, 0, 0, 0, held[i])'
    BY <1>1, <1>2, <2>1 DEF Stands
  <2> QED BY <1>1, <1>2, <2>1, <2>2, <2>3 DEF GoesOn, Stuck
<1>6. ASSUME NEW answered \in BOOLEAN, ReserveRedelivered(i, answered) PROVE FALSE
  BY <1>6 DEF ReserveRedelivered, Misleads
<1>7. ASSUME NEW committed \in BOOLEAN, ReserveGivenUp(i, committed) PROVE GoesOn(i)
  <2>1. held' = held
    BY <1>7 DEF ReserveGivenUp, Misleads
  <2>2. reserve'[i] = 0
    BY <1>2, <1>7, Added DEF ReserveGivenUp, Stands
  <2>3. completed'[i]["success"] = 0 /\ completed'[i]["failed"] = 1
    BY <1>2, <1>3, <1>7 DEF ReserveGivenUp, Stands, Outcome
  <2> QED BY <1>1, <1>2, <2>1, <2>2, <2>3 DEF GoesOn, OneThingUnderWay, Stands
<1> QED BY <1>4, <1>5, <1>6, <1>7 DEF Serve

LEMMA UndoGoesOn ==
    ASSUME TypeOK, NEW i \in Item, Undo(i), OneThingUnderWay(i), i \notin misreported'
    PROVE  GoesOn(i)
<1>1. release[i] > 0 /\ UNCHANGED <<row, pc, reserve, completed>>
  BY UndoDoes
<1>2. pc[i] = "idle" /\ Stands(i, "compensating", 0, 0, 0, 1, 0, 1)
  BY <1>1 DEF OneThingUnderWay, Stands
<1>3. CASE Release(i)
  <2>1. release'[i] = 0 /\ compensated'[i] = 1 /\ held'[i] = 0
    BY <1>2, <1>3, Added DEF Release, ReleaseUnits, Stands
  <2> QED BY <1>1, <1>2, <2>1 DEF GoesOn, OneThingUnderWay, Stands
<1>4. ASSUME NEW committed \in BOOLEAN, ReleaseUnanswered(i, committed) PROVE GoesOn(i)
  <2>1. /\ release'[i] = 0 /\ compensated' = compensated /\ held'[i] \in {0, 1}
        /\ failures' = failures + 1
    BY <1>2, <1>4, Added DEF ReleaseUnanswered, ReleaseUnits, Fails, Counted, Stands
  <2>2. Stands(i, "compensating", 0, 0, 0, 0, 0, held[i])'
    BY <1>1, <1>2, <2>1 DEF Stands
  <2> QED BY <1>1, <1>2, <2>1, <2>2 DEF GoesOn, Stuck
<1>5. ASSUME NEW answered \in BOOLEAN, ReleaseRedelivered(i, answered) PROVE FALSE
  BY <1>5 DEF ReleaseRedelivered, Misleads
<1> QED BY <1>3, <1>4, <1>5 DEF Undo

\* Nobody has anything left to do for an item that is stuck.
LEMMA StuckForGood ==
    ASSUME TypeOK, NEW i \in Item, Stuck(i)
    PROVE  ~Act(i)
<1>1. /\ pc[i] = "idle" /\ row[i] \in {"in_progress", "compensating"}
      /\ reserve[i] = 0 /\ release[i] = 0 /\ compensated[i] = 0
      /\ \A o \in Outcome : completed[i][o] = 0
  BY DEF Stuck, Stands, Outcome
<1>2. ~Start(i)
  BY <1>1 DEF Start, ClaimStage, LookAtInventory, BookAsOtherCustomer, DispatchStep,
              DispatchFails
<1>3. ~Settle(i)
  BY <1>1 DEF Settle, ApplyCompletion, CompletionArchived, CompensateStep,
              ApplyCompensated, CompensatedArchived
<1>4. ~Serve(i) /\ ~Undo(i)
  BY <1>1, ServeDoes, UndoDoes
<1> QED BY <1>2, <1>3, <1>4 DEF Act

StuckItems == {i \in Item \ misreported : Stuck(i)}

LEMMA UndisturbedAct ==
    ASSUME TypeOK, Undisturbed, NEW i \in Item, Act(i)
    PROVE  Undisturbed'
<1>1. /\ failures \in Nat /\ failures' \in {failures, failures + 1}
      /\ misreported \subseteq misreported'
  BY FailureOfItem DEF TypeOK
<1>2. i \notin misreported' => GoesOn(i)
  <2> HAVE i \notin misreported'
  <2>1. OneThingUnderWay(i)
    BY <1>1, StuckForGood DEF Undisturbed
  <2> QED BY <2>1, StartGoesOn, SettleGoesOn, ServeGoesOn, UndoGoesOn DEF Act
<1>3. ASSUME NEW j \in Item, j # i
      PROVE  /\ OneThingUnderWay(j)' <=> OneThingUnderWay(j)
             /\ Stuck(j)' <=> Stuck(j)
  <2>1. AsBefore(j)
    BY <1>3, OthersStay
  <2> QED BY <2>1 DEF AsBefore, OneThingUnderWay, Stuck, Stands
<1>4. \A j \in Item \ misreported' : OneThingUnderWay(j)' \/ Stuck(j)'
  BY <1>1, <1>2, <1>3 DEF Undisturbed, GoesOn
<1>5. IsFiniteSet(StuckItems) /\ Cardinality(StuckItems) \in Nat
  BY InventoryAssumption, FS_Subset, FS_CardinalityType DEF StuckItems
<1>6. StuckItems' \subseteq StuckItems \cup {i}
  BY <1>1, <1>3 DEF StuckItems
<1>7. Cardinality(StuckItems) <= failures
  BY DEF Undisturbed, StuckItems
<1>8. Cardinality(StuckItems') <= failures'
  <2>1. CASE i \in StuckItems'
    <3>1. ~OneThingUnderWay(i)' /\ i \notin misreported'
      BY <2>1 DEF StuckItems, Stuck, OneThingUnderWay, Stands
    <3>2. failures' = failures + 1
      BY <1>2, <3>1 DEF GoesOn
    <3>3. /\ IsFiniteSet(StuckItems \cup {i})
          /\ Cardinality(StuckItems \cup {i}) \in {Cardinality(StuckItems),
                                                 Cardinality(StuckItems) + 1}
      BY <1>5, FS_AddElement
    <3>4. Cardinality(StuckItems') <= Cardinality(StuckItems \cup {i})
      BY <1>6, <3>3, FS_Subset
    <3>5. Cardinality(StuckItems') \in Nat
      BY <1>6, <3>3, FS_Subset, FS_CardinalityType
    <3> QED BY <1>1, <1>5, <1>7, <3>2, <3>3, <3>4, <3>5
  <2>2. CASE i \notin StuckItems'
    <3>1. StuckItems' \subseteq StuckItems
      BY <1>6, <2>2
    <3>2. Cardinality(StuckItems') <= Cardinality(StuckItems)
      BY <1>5, <3>1, FS_Subset
    <3>3. Cardinality(StuckItems') \in Nat
      BY <1>5, <3>1, FS_Subset, FS_CardinalityType
    <3> QED BY <1>1, <1>5, <1>7, <3>2, <3>3
  <2> QED BY <2>1, <2>2
<1> QED BY <1>4, <1>8 DEF Undisturbed, StuckItems

LEMMA UndisturbedStep ==
    ASSUME TypeOK, Undisturbed, [Next]_vars
    PROVE  Undisturbed'
<1>1. CASE UNCHANGED vars
  BY <1>1 DEF Undisturbed, OneThingUnderWay, Stuck, Stands, vars, orchestrator, queues,
              history, incidents
<1>2. CASE \E i \in Item : Act(i)
  BY <1>2, UndisturbedAct
<1> QED BY <1>1, <1>2 DEF Next, Act

\* Of every item about which no delivery misled, one thing is under way and it
\* holds its units exactly from the reservation to the release; each failure
\* leaves at most one such item with nothing under way, its row unsettled
\* (flight-allotment.controller.ts:85-94 and 108-133).
THEOREM OneThingAtATime == Spec => []Undisturbed
<1>1. Init => Undisturbed
  <2> SUFFICES ASSUME Init PROVE Undisturbed
    OBVIOUS
  <2>1. \A i \in Item : OneThingUnderWay(i) /\ ~Stuck(i)
    BY DEF Init, OneThingUnderWay, Stuck, Stands, Outcome
  <2>2. {i \in Item \ misreported : Stuck(i)} = {}
    BY <2>1
  <2>3. Cardinality({}) = 0
    BY FS_EmptySet
  <2>4. failures = 0
    BY DEF Init
  <2> QED BY <2>1, <2>2, <2>3, <2>4 DEF Undisturbed
<1>2. TypeOK /\ Undisturbed /\ [Next]_vars => Undisturbed'
  BY UndisturbedStep
<1> QED BY <1>1, <1>2, AllotmentTypeCorrect, PTL DEF Spec

\* At rest the rows say what became of the inventory: what is missing is what
\* confirmed items and other customers have, and what some of the items whose
\* rows are still unsettled hold, no more of these than there were failures.
THEOREM NothingLeaks == Spec => []InventoryMatchesRows
<1>1. TypeOK /\ Conserved /\ Undisturbed => InventoryMatchesRows
  <2> SUFFICES ASSUME TypeOK, Conserved, Undisturbed, Quiet, misreported = {}
               PROVE  /\ Cardinality(Unsettled) <= failures
                      /\ \E stuck \in SUBSET Unsettled :
                           left + SumFunctionOnSet(Demand, Confirmed \cup stuck)
                                + SumFunction(other) = Units
    BY DEF InventoryMatchesRows
  <2>1. ASSUME NEW i \in Item
        PROVE  /\ held[i] \in {0, 1}
               /\ row[i] \notin {"in_progress", "compensating"} =>
                    held[i] = IF row[i] = "success" THEN 1 ELSE 0
               /\ row[i] \in {"in_progress", "compensating"} => Stuck(i)
    <3>1. CASE Stuck(i)
      BY <3>1 DEF Stuck, Stands
    <3>2. CASE OneThingUnderWay(i)
      BY <3>2 DEF Quiet, OneThingUnderWay, Stands, Outcome
    <3> QED BY <3>1, <3>2 DEF Undisturbed
  <2>2. Cardinality(Unsettled) <= failures
    <3>1. Unsettled \subseteq StuckItems
      BY <2>1 DEF Unsettled, StuckItems
    <3>2. IsFiniteSet(StuckItems)
      BY InventoryAssumption, FS_Subset DEF StuckItems
    <3>3. Cardinality(Unsettled) <= Cardinality(StuckItems)
      BY <3>1, <3>2, FS_Subset
    <3>4. Cardinality(Unsettled) \in Nat /\ Cardinality(StuckItems) \in Nat
      BY <3>1, <3>2, FS_Subset, FS_CardinalityType
    <3>5. Cardinality(StuckItems) <= failures /\ failures \in Nat
      BY DEF Undisturbed, StuckItems, TypeOK
    <3> QED BY <3>3, <3>4, <3>5
  <2> DEFINE stuck == {i \in Unsettled : held[i] = 1}
             holders == Confirmed \cup stuck
  <2>3. holders \in SUBSET Item /\ stuck \in SUBSET Unsettled
    BY DEF Confirmed, Unsettled
  <2>4. ASSUME NEW i \in Item
        PROVE  Reserved[i] = IF i \in holders THEN Demand[i] ELSE 0
    <3>1. held[i] = IF i \in holders THEN 1 ELSE 0
      BY <2>1 DEF Confirmed, Unsettled
    <3>2. Demand[i] \in Int
      BY InventoryAssumption
    <3> HIDE DEF holders
    <3> QED BY <3>1, <3>2 DEF Reserved
  <2>5. SumFunctionOnSet(Reserved, Item) = SumFunctionOnSet(Demand, holders)
    <3> DEFINE f == Reserved
    <3> HIDE DEF holders
    <3>1. /\ IsFiniteSet(Item) /\ \A i \in holders : Demand[i] \in Int /\ f[i] = Demand[i]
          /\ \A i \in Item \ holders : f[i] = 0
      BY <2>3, <2>4, InventoryAssumption
    <3> HIDE DEF f
    <3>2. SumFunctionOnSet(f, Item) = SumFunctionOnSet(Demand, holders)
      BY <2>3, <3>1, SumOfPart
    <3> QED BY <3>2 DEF f
  <2>6. SumFunctionOnSet(Reserved, Item) = SumFunction(Reserved)
    BY SumsAre
  <2>7. left + SumFunctionOnSet(Demand, holders) + SumFunction(other) = Units
    BY <2>5, <2>6 DEF Conserved
  <2> QED BY <2>2, <2>3, <2>7
<1> QED BY <1>1, AllotmentTypeCorrect, UnitsConserved, OneThingAtATime, PTL

-----------------------------------------------------------------------------
(* The simulated competitor. *)

\* Releases are commanded only for rows that are given up.
LEMMA ReleasedIsGivenUp ==
    ASSUME IInv, NEW i \in Item, release[i] > 0
    PROVE  row[i] \in {"compensating", "compensated"}
BY DEF IInv, HoldsWhatItAnswered

\* The orchestrator moves no reservations; only the competitor books units there.
LEMMA OrchestratorBooks ==
    ASSUME NEW j \in Item, Start(j) \/ Settle(j)
    PROVE  /\ held' = held
           /\ other' = other \/ other' = Add(other, j, seen[j])
           /\ \/ row' = row
              \/ row[j] \notin {"compensating", "compensated"}
              \/ row' = [row EXCEPT ![j] = "compensated"]
           /\ ~BookAsOtherCustomer(j) => left' = left
<1>1. CASE Start(j)
  BY <1>1 DEF Start, ClaimStage, LookAtInventory, BookAsOtherCustomer, DispatchStep,
              DispatchFails, history
<1>2. CASE Settle(j)
  BY <1>2 DEF Settle, ApplyCompletion, CompletionArchived, CompensateStep,
              ApplyCompensated, CompensatedArchived, orchestrator, history
<1> QED BY <1>1, <1>2

\* An item that moved has moved for good.
LEMMA MovedStays ==
    ASSUME IInv, [Next]_vars, NEW j \in Item, Moved(j)
    PROVE  Moved(j)'
<1>1. CASE UNCHANGED vars
  BY <1>1 DEF Moved, vars, orchestrator, history
<1>2. ASSUME NEW i \in Item, Act(i), i # j PROVE Moved(j)'
  <2>1. AsBefore(j)
    BY <1>2, OthersStay DEF IInv
  <2> QED BY <2>1 DEF AsBefore, Moved
<1>3. CASE Start(j) \/ Settle(j)
  <2>1. held' = held
    BY <1>3, OrchestratorBooks
  <2>2. other[j] > 0 => other'[j] > 0
    <3>1. other[j] \in Nat /\ seen[j] \in Nat /\ other \in [Item -> Nat]
      BY DEF IInv, TypeOK
    <3> QED BY <1>3, <3>1, OrchestratorBooks DEF Add
  <2>3. row[j] \in {"compensating", "compensated"} =>
          row'[j] \in {"compensating", "compensated"}
    BY <1>3, OrchestratorBooks DEF IInv, TypeOK
  <2> QED BY <2>1, <2>2, <2>3 DEF Moved
<1>4. CASE Serve(j)
  <2>1. UNCHANGED <<row, other>>
    BY <1>4, ServeDoes
  <2>2. CASE row[j] \in {"compensating", "compensated"} \/ other[j] > 0
    BY <2>1, <2>2 DEF Moved
  <2>3. CASE row[j] \notin {"compensating", "compensated"} /\ held[j] # 0
    <3>1. held[j] \in Int /\ held[j] > 0
      BY <2>3 DEF IInv, TypeOK, HoldsWhatItAnswered
    <3>2. held'[j] >= held[j] /\ held'[j] \in Int
      BY <1>4, <3>1, ServeDoes, ReservationTaken DEF IInv
    <3> QED BY <3>1, <3>2 DEF Moved
  <2> QED BY <2>2, <2>3 DEF Moved
<1>5. CASE Undo(j)
  <2>1. release[j] > 0 /\ row' = row
    BY <1>5, UndoDoes
  <2> QED BY <2>1, ReleasedIsGivenUp DEF Moved
<1> QED BY <1>1, <1>2, <1>3, <1>4, <1>5 DEF Next, Act

\* An item that did not move has not touched the inventory.
LEMMA UnmovedTookNothing ==
    ASSUME IInv, NEW j \in Item, Act(j), ~Moved(j)'
    PROVE  left' = left
<1>1. left \in Nat /\ held \in [Item -> Int] /\ other \in [Item -> Nat] /\ seen[j] \in Nat
  BY DEF IInv, TypeOK
<1>2. held'[j] = 0 /\ ~(other'[j] > 0) /\ row'[j] \notin {"compensating", "compensated"}
  BY DEF Moved
<1>3. CASE BookAsOtherCustomer(j)
  <2>1. CASE Fits(seen[j])
    <3>1. left' = left - seen[j] /\ other'[j] = other[j] + seen[j]
      BY <1>1, <1>3, <2>1 DEF BookAsOtherCustomer, Add
    <3>2. other[j] \in Nat
      BY <1>1
    <3> QED BY <1>1, <1>2, <3>1, <3>2
  <2>2. CASE ~Fits(seen[j])
    BY <1>3, <2>2 DEF BookAsOtherCustomer
  <2> QED BY <2>1, <2>2
<1>4. CASE (Start(j) \/ Settle(j)) /\ ~BookAsOtherCustomer(j)
  BY <1>4, OrchestratorBooks
<1>5. CASE Serve(j)
  <2>1. row' = row /\ release' = release /\ (ReserveUnits(j) \/ left' = left)
    BY <1>5, ServeDoes
  <2>2. held[j] >= 0
    BY <1>2, <2>1 DEF IInv, HoldsWhatItAnswered
  <2>3. ReserveUnits(j) => ~Fits(Demand[j])
    BY <1>1, <1>2, <2>2, ReservationTaken DEF IInv
  <2> QED BY <2>1, <2>3 DEF ReserveUnits
<1>6. ~Undo(j)
  BY <1>2, UndoDoes, ReleasedIsGivenUp
<1> QED BY <1>3, <1>4, <1>5, <1>6 DEF Act

\* The steps of a marked item whose competitor left too little for it.
LEMMA TooLittleStep ==
    ASSUME IInv, NEW i \in Marked, Act(i), TooLittle(i)
    PROVE  TooLittle(i)'
<1>1. /\ i \in Item /\ Demand[i] \in Nat \ {0} /\ left \in Nat /\ seen[i] \in Nat
      /\ pc \in [Item -> {"idle", "look", "book", "dispatch"}]
      /\ row \in [Item -> RowStatus] /\ seen \in [Item -> Nat]
      /\ reserve \in [Item -> Nat] /\ completed \in [Item -> [Outcome -> Nat]]
      /\ row[i] \notin {"success", "compensating", "compensated"}
      /\ completed[i]["success"] = 0
  BY InventoryAssumption DEF IInv, TypeOK, TooLittle
<1>2. ~(release[i] > 0)
  BY <1>1, ReleasedIsGivenUp
<1>3. CASE ClaimStage(i)
  BY <1>1, <1>3 DEF ClaimStage, Mark, Goto, TooLittle, Fits, queues
<1>4. CASE LookAtInventory(i)
  <2>1. CASE Taken(i) > 0
    BY <1>1, <1>4, <2>1 DEF LookAtInventory, Taken, Goto, TooLittle, Fits, queues
  <2>2. CASE ~(Taken(i) > 0)
    BY <1>1, <1>4, <2>2 DEF LookAtInventory, Taken, Goto, TooLittle, Fits, queues
  <2> QED BY <2>1, <2>2
<1>5. CASE BookAsOtherCustomer(i)
  BY <1>1, <1>5 DEF BookAsOtherCustomer, Goto, TooLittle, Fits, queues
<1>6. CASE DispatchStep(i)
  BY <1>1, <1>6 DEF DispatchStep, Goto, Add, TooLittle, Fits
<1>7. ASSUME NEW o \in Outcome, ApplyCompletion(i, o) \/ CompletionArchived(i, o)
      PROVE  TooLittle(i)'
  <2>1. o = "failed"
    BY <1>1, <1>7 DEF ApplyCompletion, CompletionArchived, Outcome
  <2>2. completed'[i]["success"] = 0
    BY <1>1, <1>7, <2>1 DEF ApplyCompletion, CompletionArchived, Outcome
  <2>3. row'[i] \notin {"success", "compensating", "compensated"}
    BY <1>1, <1>7, <2>1 DEF ApplyCompletion, CompletionArchived, orchestrator
  <2>4. UNCHANGED <<left, pc, seen, reserve>>
    BY <1>7 DEF ApplyCompletion, CompletionArchived, orchestrator
  <2> QED BY <2>2, <2>3, <2>4 DEF TooLittle, Fits
<1>8. ASSUME NEW published \in BOOLEAN PROVE ~CompensateStep(i, published)
  BY <1>1 DEF CompensateStep
<1>9. CASE ApplyCompensated(i) \/ CompensatedArchived(i)
  BY <1>1, <1>9 DEF ApplyCompensated, CompensatedArchived, TooLittle, Fits, orchestrator
<1>10. CASE DispatchFails(i)
  BY <1>1, <1>10 DEF DispatchFails, Goto, TooLittle, Fits, queues
<1>11. CASE Undo(i)
  BY <1>1, <1>2, <1>11, UndoDoes
<1>12. CASE Serve(i)
  <2>1. left < Demand[i] /\ ~Fits(Demand[i])
    BY <1>1, <1>12, ServeDoes DEF TooLittle, Fits
  <2>2. left' = left
    BY <1>1, <1>12, <2>1, ServeDoes DEF ReserveUnits
  <2>3. completed'[i]["success"] = 0
    <3>1. CASE completed' = [completed EXCEPT ![i]["failed"] = @ + 1]
      BY <1>1, <3>1, AnswerGiven DEF IInv, Outcome
    <3>2. CASE Answer(i)
      <4>1. Answered(i) = "failed"
        BY <2>1, AnsweredIs
      <4> QED BY <1>1, <3>2, <4>1, AnswerGiven DEF Answer, IInv, Outcome
    <3> QED BY <1>1, <1>12, <3>1, <3>2, ServeDoes
  <2>4. /\ reserve' = Add(reserve, i, -1) \/ UNCHANGED reserve
        /\ reserve[i] > 0 /\ UNCHANGED <<row, pc, seen>>
    BY <1>1, <1>12, ServeDoes
  <2> QED BY <1>1, <2>1, <2>2, <2>3, <2>4 DEF TooLittle, Fits
<1> QED BY <1>3, <1>4, <1>5, <1>6, <1>7, <1>8, <1>9, <1>10, <1>11, <1>12
        DEF Act, Start, Settle

LEMMA OutbidStep == ASSUME IInv, Outbid, [Next]_vars PROVE Outbid'
<1> SUFFICES ASSUME NEW i \in Marked, ~\E j \in Item \ {i} : Moved(j)'
             PROVE  TooLittle(i)'
  BY DEF Outbid
<1>1. TooLittle(i) /\ i \in Item
  BY MovedStays, InventoryAssumption DEF Outbid
<1>2. CASE UNCHANGED vars
  BY <1>1, <1>2 DEF TooLittle, Fits, vars, orchestrator, queues
<1>3. ASSUME NEW j \in Item, Act(j) PROVE TooLittle(i)'
  <2>1. CASE j = i
    BY <1>1, <1>3, <2>1, TooLittleStep
  <2>2. CASE j # i
    <3>1. left' = left
      BY <1>3, <2>2, UnmovedTookNothing
    <3>2. AsBefore(i)
      BY <1>1, <1>3, <2>2, OthersStay DEF IInv
    <3> QED BY <1>1, <3>1, <3>2 DEF AsBefore, TooLittle, Fits
  <2> QED BY <2>1, <2>2
<1> QED BY <1>2, <1>3 DEF Next, Act

\* A ticked item is confirmed only where another item's reservation, release or
\* competitor came between the competitor's look and the item's reservation.
THEOREM MarkedFail == Spec => []MarkedItemsFail
<1>1. Init => Outbid
  BY InventoryAssumption DEF Init, Outbid, TooLittle, Outcome
<1>2. IInv /\ Outbid /\ [Next]_vars => Outbid'
  BY OutbidStep
<1>3. Outbid => MarkedItemsFail
  BY DEF Outbid, MarkedItemsFail, TooLittle, Confirmed
<1> QED BY <1>1, <1>2, <1>3, AllotmentInvariant, PTL DEF Spec
=============================================================================
