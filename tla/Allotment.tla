------------------------------ MODULE Allotment ------------------------------
(***************************************************************************)
(* One flight's seats, or one room type's rooms, and the items of several  *)
(* bookings that compete for them.  The allotment agents reserve and       *)
(* release through single guarded UPDATE statements; the demo competitor   *)
(* reads the inventory first and reserves later.  Commands are delivered   *)
(* at least once, so both services may run again for the same item; and    *)
(* they are acknowledged before they are answered, or archived when they   *)
(* throw, so an item may also be left without an answer for ever.          *)
(*                                                                         *)
(* What the saga of each booking decides (BookingSaga) is left open here:  *)
(* any item may be dispatched, and any reserved item may be given up.      *)
(***************************************************************************)
EXTENDS Integers, FiniteSetsExt

CONSTANTS
    Item,         \* flight or hotel items that ask for the same inventory
    Demand,       \* Demand[i]: passengers, or rooms, of item i
    Units,        \* seats_left or rooms_left at the start
    Marked,       \* items ticked "Someone else takes this"
    Faults,       \* kinds of failures that may happen
    MaxFailures   \* how many failures one behaviour may contain

ASSUME InventoryAssumption ==
    /\ IsFiniteSet(Item)
    /\ Demand \in [Item -> Nat \ {0}]
    /\ Units \in Nat
    /\ Marked \subseteq Item
    /\ Faults \subseteq {"redelivery", "giveup", "loss", "crash"}
    /\ MaxFailures \in Nat

RowStatus == {"pending", "in_progress", "success", "failed", "compensating",
              "compensated"}
Outcome == {"success", "failed"}

VARIABLES
    left,         \* seats_left of the flight, rooms_left of the room
    row,          \* BookingStep.status of each item's allotment row
    pc,           \* where the handler that claimed the row is
    seen,         \* what the competitor decided to take for each marked item
    reserve,      \* dispatches of each row in the allotment queue
    release,      \* compensation commands of each row
    completed,    \* completions waiting for the orchestrator
    compensated,  \* compensation results waiting for the orchestrator
    held,         \* history: reservations less releases of each item
    other,        \* history: units the competitor booked for each item
    misreported,  \* history: items with an UPDATE that its delivery denies:
                  \* it came again, or was given up, although it took effect
    failures      \* history: failures so far

orchestrator == <<row, pc, seen>>
queues == <<reserve, release, completed, compensated>>
history == <<held, other>>
incidents == <<misreported, failures>>
vars == <<left, orchestrator, queues, history, incidents>>

TypeOK ==
    /\ left \in Nat
    /\ row \in [Item -> RowStatus]
    /\ pc \in [Item -> {"idle", "look", "book", "dispatch"}]
    /\ seen \in [Item -> Nat]
    /\ reserve \in [Item -> Nat]
    /\ release \in [Item -> Nat]
    /\ completed \in [Item -> [Outcome -> Nat]]
    /\ compensated \in [Item -> Nat]
    /\ held \in [Item -> Int]
    /\ other \in [Item -> Nat]
    /\ misreported \subseteq Item
    /\ failures \in Nat

Init ==
    /\ left = Units
    /\ row = [i \in Item |-> "pending"]
    /\ pc = [i \in Item |-> "idle"]
    /\ seen = [i \in Item |-> 0]
    /\ reserve = [i \in Item |-> 0]
    /\ release = [i \in Item |-> 0]
    /\ completed = [i \in Item |-> [o \in Outcome |-> 0]]
    /\ compensated = [i \in Item |-> 0]
    /\ held = [i \in Item |-> 0]
    /\ other = [i \in Item |-> 0]
    /\ misreported = {}
    /\ failures = 0

-----------------------------------------------------------------------------

Add(f, i, n) == [f EXCEPT ![i] = @ + n]
Goto(i, label) == pc' = [pc EXCEPT ![i] = label]
Mark(i, status) == row' = [row EXCEPT ![i] = status]

GoesWell == UNCHANGED incidents

\* A failure of this kind happens.  One that misleads hides from the broker that
\* the UPDATE of a delivery took effect.
Counted(kind) ==
    /\ kind \in Faults
    /\ failures < MaxFailures
    /\ failures' = failures + 1
Fails(kind) == Counted(kind) /\ UNCHANGED misreported
Misleads(kind, i) == Counted(kind) /\ misreported' = misreported \cup {i}

(* The orchestrator starts the allotment stage of a booking. *)

ClaimStage(i) ==
    /\ row[i] = "pending"
    /\ Mark(i, "in_progress")
    /\ Goto(i, IF i \in Marked THEN "look" ELSE "dispatch")
    /\ UNCHANGED <<left, seen, queues, history>>
    /\ GoesWell

\* One fewer than the user asked for is to remain.
TakenTooLittle(i) == left - Demand[i]
Taken(i) == left - (Demand[i] - 1)

LookAtInventory(i) ==
    /\ pc[i] = "look"
    /\ IF Taken(i) > 0
       THEN seen' = [seen EXCEPT ![i] = Taken(i)] /\ Goto(i, "book")
       ELSE UNCHANGED seen /\ Goto(i, "dispatch")
    /\ UNCHANGED <<left, row, queues, history>>
    /\ GoesWell

\* Every reservation is UPDATE .. SET left = left - n WHERE left >= n.
FitsAny(n) == left > 0
Fits(n) == left >= n

BookAsOtherCustomer(i) ==
    /\ pc[i] = "book"
    /\ IF Fits(seen[i])
       THEN left' = left - seen[i] /\ other' = Add(other, i, seen[i])
       ELSE UNCHANGED <<left, other>>
    /\ Goto(i, "dispatch")
    /\ UNCHANGED <<row, seen, queues, held>>
    /\ GoesWell

DispatchStep(i) ==
    /\ pc[i] = "dispatch"
    /\ reserve' = Add(reserve, i, 1)
    /\ Goto(i, "idle")
    /\ UNCHANGED <<left, row, seen, release, completed, compensated, history>>
    /\ GoesWell

\* The process dies, the competitor throws (nothing catches it before the
\* consumer archives the completion) or the publish fails, which is logged: the
\* row is claimed, and no dispatch of it is ever sent.
DispatchFails(i) ==
    /\ pc[i] # "idle"
    /\ Goto(i, "idle")
    /\ UNCHANGED <<left, row, seen, queues, history>>
    /\ Fails("crash")

-----------------------------------------------------------------------------
(* The allotment agent. *)

ReserveUnits(i) ==
    IF Fits(Demand[i])
    THEN left' = left - Demand[i] /\ held' = Add(held, i, 1)
    ELSE UNCHANGED <<left, held>>

AnsweredAnyway(i) == "success"
Answered(i) == IF Fits(Demand[i]) THEN "success" ELSE "failed"

Answer(i) == completed' = [completed EXCEPT ![i][Answered(i)] = @ + 1]

Reserve(i) ==
    /\ reserve[i] > 0
    /\ ReserveUnits(i)
    /\ Answer(i)
    /\ reserve' = Add(reserve, i, -1)
    /\ UNCHANGED <<orchestrator, release, compensated, other>>
    /\ GoesWell

\* Acknowledged, and then the publish of the answer fails or the process dies.
ReserveUnanswered(i) ==
    /\ reserve[i] > 0
    /\ ReserveUnits(i)
    /\ reserve' = Add(reserve, i, -1)
    /\ UNCHANGED <<orchestrator, release, completed, compensated, other>>
    /\ Fails("loss")

\* The UPDATE takes effect and the command comes again: the acknowledgement is
\* lost, the process dies before it, or the query throws after its commit and
\* the retry router delivers the rejected command once more.
ReserveRedelivered(i, answered) ==
    /\ reserve[i] > 0
    /\ ReserveUnits(i)
    /\ IF answered THEN Answer(i) ELSE UNCHANGED completed
    /\ UNCHANGED <<orchestrator, reserve, release, compensated, other>>
    /\ Misleads("redelivery", i)

\* The query throws on every delivery and the retry router answers "failed" for
\* the agent, whether or not the last UPDATE was committed before it threw.
ReserveGivenUp(i, committed) ==
    /\ reserve[i] > 0
    /\ IF committed
       THEN ReserveUnits(i) /\ Misleads("giveup", i)
       ELSE UNCHANGED <<left, held>> /\ Fails("giveup")
    /\ completed' = [completed EXCEPT ![i]["failed"] = @ + 1]
    /\ reserve' = Add(reserve, i, -1)
    /\ UNCHANGED <<orchestrator, release, compensated, other>>

ReturnedOne(i) == 1
Returned(i) == Demand[i]

ReleaseUnits(i) == left' = left + Returned(i) /\ held' = Add(held, i, -1)

Release(i) ==
    /\ release[i] > 0
    /\ ReleaseUnits(i)
    /\ release' = Add(release, i, -1)
    /\ compensated' = Add(compensated, i, 1)
    /\ UNCHANGED <<orchestrator, reserve, completed, other>>
    /\ GoesWell

\* The release throws, before its commit or after it, and is archived without a
\* retry; or its result is lost after the acknowledgement.
ReleaseUnanswered(i, committed) ==
    /\ release[i] > 0
    /\ IF committed THEN ReleaseUnits(i) ELSE UNCHANGED <<left, held>>
    /\ release' = Add(release, i, -1)
    /\ UNCHANGED <<orchestrator, reserve, completed, compensated, other>>
    /\ Fails("loss")

ReleaseRedelivered(i, answered) ==
    /\ release[i] > 0
    /\ ReleaseUnits(i)
    /\ compensated' = IF answered THEN Add(compensated, i, 1) ELSE compensated
    /\ UNCHANGED <<orchestrator, reserve, release, completed, other>>
    /\ Misleads("redelivery", i)

-----------------------------------------------------------------------------
(* The orchestrator applies the answers.  One that is delivered again finds   *)
(* its row settled by the first delivery, and changes nothing.                *)

ApplyCompletion(i, o) ==
    /\ completed[i][o] > 0
    /\ completed' = [completed EXCEPT ![i][o] = @ - 1]
    /\ row' = IF row[i] = "in_progress" THEN [row EXCEPT ![i] = o] ELSE row
    /\ UNCHANGED <<left, pc, seen, reserve, release, compensated, history>>
    /\ GoesWell

\* The statement throws, and the consumer archives the answer.
CompletionArchived(i, o) ==
    /\ completed[i][o] > 0
    /\ completed' = [completed EXCEPT ![i][o] = @ - 1]
    /\ UNCHANGED <<left, orchestrator, reserve, release, compensated, history>>
    /\ Fails("loss")

\* The booking failed or was rejected: claim the row and command the release.
\* A publish that fails is logged; a process that dies publishes nothing.
CompensateStep(i, published) ==
    /\ row[i] = "success"
    /\ Mark(i, "compensating")
    /\ IF published THEN release' = Add(release, i, 1) /\ GoesWell
       ELSE UNCHANGED release /\ Fails("loss")
    /\ UNCHANGED <<left, pc, seen, reserve, completed, compensated, history>>

ApplyCompensated(i) ==
    /\ compensated[i] > 0
    /\ compensated' = Add(compensated, i, -1)
    /\ row' = IF row[i] = "compensating"
              THEN [row EXCEPT ![i] = "compensated"] ELSE row
    /\ UNCHANGED <<left, pc, seen, reserve, release, completed, history>>
    /\ GoesWell

CompensatedArchived(i) ==
    /\ compensated[i] > 0
    /\ compensated' = Add(compensated, i, -1)
    /\ UNCHANGED <<left, orchestrator, reserve, release, completed, history>>
    /\ Fails("loss")

-----------------------------------------------------------------------------

Start(i) ==
    \/ ClaimStage(i)
    \/ LookAtInventory(i)
    \/ BookAsOtherCustomer(i)
    \/ DispatchStep(i)
    \/ DispatchFails(i)

Settle(i) ==
    \/ \E o \in Outcome : ApplyCompletion(i, o) \/ CompletionArchived(i, o)
    \/ \E published \in BOOLEAN : CompensateStep(i, published)
    \/ ApplyCompensated(i)
    \/ CompensatedArchived(i)

Serve(i) ==
    \/ Reserve(i)
    \/ ReserveUnanswered(i)
    \/ \E answered \in BOOLEAN : ReserveRedelivered(i, answered)
    \/ \E committed \in BOOLEAN : ReserveGivenUp(i, committed)

Undo(i) ==
    \/ Release(i)
    \/ \E committed \in BOOLEAN : ReleaseUnanswered(i, committed)
    \/ \E answered \in BOOLEAN : ReleaseRedelivered(i, answered)

Next == \E i \in Item : Start(i) \/ Settle(i) \/ Serve(i) \/ Undo(i)
Spec == Init /\ [][Next]_vars

-----------------------------------------------------------------------------
(* Properties *)

Confirmed == {i \in Item : row[i] = "success"}

\* Somebody's units were given back more often than they were taken.
OverReleased == \E i \in Item : held[i] < 0

\* Never is more inventory promised than there is: the items whose
\* reservation stands and the other customers together fit into Units, however
\* reservations, redelivered reservations, releases and the competitor's late
\* booking interleave.  Only a release that ran more often than its
\* reservation (releaseSeat is not guarded) can break this.
NoOversell ==
    \/ OverReleased
    \/ SumFunctionOnSet(Demand, Confirmed) + SumFunction(other) <= Units

\* What it rests on: every unit is on sale, held by an item or booked by another
\* customer, since each UPDATE moves as many as the history records.
Reserved == [i \in Item |-> Demand[i] * held[i]]
Conserved == left + SumFunction(Reserved) + SumFunction(other) = Units

\* A row is "success" only while its units are really held: the first answer
\* wins, and an answer of success stands for a reservation that took effect.
SuccessIsHeld == \A i \in Confirmed : held[i] >= 1

\* The inductive invariant behind it: until the orchestrator gives a row up no
\* release of it is commanded, so that nothing it holds goes away between the
\* reservation, the answer that reports it and the row that records the answer.
HoldsWhatItAnswered(i) ==
    row[i] \notin {"compensating", "compensated"} =>
      /\ release[i] = 0
      /\ held[i] >= 0
      /\ row[i] = "success" \/ completed[i]["success"] > 0 => held[i] >= 1
IInv == TypeOK /\ \A i \in Item : HoldsWhatItAnswered(i)

Quiet ==
    \A i \in Item :
      /\ reserve[i] = 0 /\ release[i] = 0 /\ compensated[i] = 0
      /\ \A o \in Outcome : completed[i][o] = 0
      /\ pc[i] = "idle"

\* The rows say what became of the inventory: at rest, what is missing is what
\* confirmed items and other customers hold, and what some of the items hold
\* whose row still says that it is being reserved or released: no more items
\* than there were failures.  A compensated or refused item has left nothing
\* behind, whatever was lost, archived, given up or interrupted on the way.
\* Only a delivery that is handled as if its UPDATE had not taken effect, or
\* comes again although it had, can break this.
Unsettled == {i \in Item : row[i] \in {"in_progress", "compensating"}}
InventoryMatchesRows ==
    Quiet /\ misreported = {} =>
      /\ Cardinality(Unsettled) <= failures
      /\ \E stuck \in SUBSET Unsettled :
           left + SumFunctionOnSet(Demand, Confirmed \cup stuck) + SumFunction(other)
             = Units

\* One thing of each item is under way, a handler, a command or an answer, and
\* the item holds its units from the reservation to the release; each failure
\* leaves at most one item of which nothing is under way and whose row is still
\* unsettled.
Stands(i, status, asked, accepted, refused, undo, undone, units) ==
    /\ row[i] = status
    /\ reserve[i] = asked
    /\ completed[i]["success"] = accepted /\ completed[i]["failed"] = refused
    /\ release[i] = undo /\ compensated[i] = undone
    /\ held[i] = units
OneThingUnderWay(i) ==
    \/ /\ pc[i] # "idle"
       /\ Stands(i, "in_progress", 0, 0, 0, 0, 0, 0)
    \/ /\ pc[i] = "idle"
       /\ \/ Stands(i, "pending", 0, 0, 0, 0, 0, 0)
          \/ Stands(i, "in_progress", 1, 0, 0, 0, 0, 0)
          \/ Stands(i, "in_progress", 0, 1, 0, 0, 0, 1)
          \/ Stands(i, "in_progress", 0, 0, 1, 0, 0, 0)
          \/ Stands(i, "success", 0, 0, 0, 0, 0, 1)
          \/ Stands(i, "failed", 0, 0, 0, 0, 0, 0)
          \/ Stands(i, "compensating", 0, 0, 0, 1, 0, 1)
          \/ Stands(i, "compensating", 0, 0, 0, 0, 1, 0)
          \/ Stands(i, "compensated", 0, 0, 0, 0, 0, 0)
Stuck(i) ==
    /\ pc[i] = "idle"
    /\ \E status \in {"in_progress", "compensating"}, units \in {0, 1} :
         Stands(i, status, 0, 0, 0, 0, 0, units)
Undisturbed ==
    /\ \A i \in Item \ misreported : OneThingUnderWay(i) \/ Stuck(i)
    /\ Cardinality({i \in Item \ misreported : Stuck(i)}) <= failures

\* "tracked in PostgreSQL via Prisma ORM for idempotency" (README.md:22): a
\* step delivered twice takes effect once.
Idempotent == \A i \in Item : held[i] \in 0..1

\* "It books just enough that the user's request no longer fits, so the user's
\* reservation fails for real" (simulated-competitor.service.ts:35-36): the
\* competitor looks first and books later, so a marked item is confirmed only
\* where the reservation or the release of another item came in between.
Moved(j) == held[j] # 0 \/ row[j] \in {"compensating", "compensated"} \/ other[j] > 0
MarkedItemsFail ==
    \A i \in Marked \cap Confirmed : \E j \in Item \ {i} : Moved(j)

\* What it rests on: as long as no other item moved, what the competitor saw is
\* still there when it books, and what it leaves is too little for the item.
TooLittle(i) ==
    /\ pc[i] = "book" => /\ left - seen[i] < Demand[i]
                         /\ Fits(seen[i])
    /\ pc[i] = "dispatch" \/ reserve[i] > 0 => left < Demand[i]
    /\ completed[i]["success"] = 0
    /\ row[i] \notin {"success", "compensating", "compensated"}
Outbid == \A i \in Marked : TooLittle(i) \/ \E j \in Item \ {i} : Moved(j)
=============================================================================
