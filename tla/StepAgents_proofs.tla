-------------------------- MODULE StepAgents_proofs --------------------------
(***************************************************************************)
(* Proofs about the agents that only look, for any dispatches, agents,     *)
(* inventories and numbers of failures.                                    *)
(***************************************************************************)
EXTENDS StepAgents, TLAPS

Counts == [Dispatch -> Nat]
Answers == [Dispatch -> [Outcome -> Nat]]

\* Counting copies and answers.
LEMMA AddOne ==
    ASSUME NEW f \in Counts, NEW d \in Dispatch
    PROVE  /\ Add(f, d, 1) \in Counts
           /\ Add(f, d, 1)[d] = f[d] + 1
           /\ \A x \in Dispatch : x # d => Add(f, d, 1)[x] = f[x]
BY DEF Add, Counts

LEMMA AddLess ==
    ASSUME NEW f \in Counts, NEW d \in Dispatch, f[d] > 0
    PROVE  /\ Add(f, d, -1) \in Counts
           /\ Add(f, d, -1)[d] = f[d] - 1
           /\ \A x \in Dispatch : x # d => Add(f, d, -1)[x] = f[x]
BY DEF Add, Counts

LEMMA TotalIsCount ==
    ASSUME NEW f \in Answers, NEW d \in Dispatch
    PROVE  Total(f[d]) \in Nat /\ f[d]["success"] \in Nat /\ f[d]["success"] <= Total(f[d])
BY DEF Total, Answers, Outcome

LEMMA TallyOne ==
    ASSUME NEW f \in Answers, NEW d \in Dispatch, NEW o \in Outcome
    PROVE  /\ Tally(f, d, o, 1) \in Answers
           /\ Total(Tally(f, d, o, 1)[d]) = Total(f[d]) + 1
           /\ o # "success" => Tally(f, d, o, 1)[d]["success"] = f[d]["success"]
           /\ o = "success" => Tally(f, d, o, 1)[d]["success"] = f[d]["success"] + 1
           /\ \A x \in Dispatch : x # d => Tally(f, d, o, 1)[x] = f[x]
<1> DEFINE new == [f[d] EXCEPT ![o] = @ + 1]
<1>1. Tally(f, d, o, 1) = [f EXCEPT ![d] = new]
  BY DEF Tally
<1>2. /\ f[d] \in [Outcome -> Nat] /\ new \in [Outcome -> Nat]
      /\ o = "success" => /\ new["success"] = f[d]["success"] + 1
                          /\ new["failed"] = f[d]["failed"]
      /\ o = "failed" => /\ new["failed"] = f[d]["failed"] + 1
                         /\ new["success"] = f[d]["success"]
  BY DEF Answers, Outcome
<1>3. f[d]["success"] \in Nat /\ f[d]["failed"] \in Nat
  BY <1>2 DEF Outcome
<1>4. Total(new) = Total(f[d]) + 1
  BY <1>2, <1>3 DEF Total, Outcome
<1>5. [f EXCEPT ![d] = new] \in Answers
  BY <1>2 DEF Answers
<1>6. [f EXCEPT ![d] = new][d] = new /\ \A x \in Dispatch : x # d => [f EXCEPT ![d] = new][x] = f[x]
  BY DEF Answers
<1> HIDE DEF new
<1> QED BY <1>1, <1>2, <1>4, <1>5, <1>6 DEF Outcome

LEMMA TallyLess ==
    ASSUME NEW f \in Answers, NEW d \in Dispatch, NEW o \in Outcome, f[d][o] > 0
    PROVE  /\ Tally(f, d, o, -1) \in Answers
           /\ Total(Tally(f, d, o, -1)[d]) = Total(f[d]) - 1
           /\ o # "success" => Tally(f, d, o, -1)[d]["success"] = f[d]["success"]
           /\ o = "success" => Tally(f, d, o, -1)[d]["success"] = f[d]["success"] - 1
           /\ \A x \in Dispatch : x # d => Tally(f, d, o, -1)[x] = f[x]
<1> DEFINE new == [f[d] EXCEPT ![o] = @ + (-1)]
<1>1. Tally(f, d, o, -1) = [f EXCEPT ![d] = new]
  BY DEF Tally
<1>2. /\ f[d] \in [Outcome -> Nat] /\ new \in [Outcome -> Nat]
      /\ o = "success" => /\ new["success"] = f[d]["success"] - 1
                          /\ new["failed"] = f[d]["failed"]
      /\ o = "failed" => /\ new["failed"] = f[d]["failed"] - 1
                         /\ new["success"] = f[d]["success"]
  BY DEF Answers, Outcome
<1>3. f[d]["success"] \in Nat /\ f[d]["failed"] \in Nat
  BY <1>2 DEF Outcome
<1>4. Total(new) = Total(f[d]) - 1
  BY <1>2, <1>3 DEF Total, Outcome
<1>5. [f EXCEPT ![d] = new] \in Answers
  BY <1>2 DEF Answers
<1>6. [f EXCEPT ![d] = new][d] = new /\ \A x \in Dispatch : x # d => [f EXCEPT ![d] = new][x] = f[x]
  BY DEF Answers
<1> HIDE DEF new
<1> QED BY <1>1, <1>2, <1>4, <1>5, <1>6 DEF Outcome

\* What an agent accepts could be had.
LEMMA AcceptedIsPossible ==
    ASSUME CountsOK, OffersRemembered, NEW d \in Dispatch, Accepts(d)
    PROVE  ~Impossible(d)
<1>1. Agent[d] \in Agents
  BY AgentAssumption
<1>2. CASE Agent[d] = "flight.availability"
  <2>1. d \in Looking /\ left[d] \in Nat /\ left[d] > 0
    BY <1>2 DEF Looking, CountsOK, Accepts, HasSeat
  <2>2. d \in offered
    BY <1>2, <2>1 DEF OffersRemembered, Enough
  <2> QED BY <1>2, <2>2 DEF Impossible
<1>3. CASE Agent[d] = "hotel.availability"
  <2>1. d \in Looking /\ left[d] >= Asked[d]
    BY <1>3 DEF Looking, Accepts, HasRooms
  <2>2. d \in offered
    BY <1>3, <2>1 DEF OffersRemembered, Enough
  <2> QED BY <1>3, <2>2 DEF Impossible
<1>4. CASE Agent[d] \in {"fraud", "payment", "notify"}
  BY <1>4 DEF Accepts, CheckFraud, ProcessPayment, Impossible, Looking
<1> QED BY <1>1, <1>2, <1>3, <1>4 DEF Agents

-----------------------------------------------------------------------------
(* A step that leaves the inventory alone keeps the invariant when it adds  *)
(* no copy or answer that repeats does not account for, and no success that *)
(* was not there before, unless it is possible.                             *)

Load(d) == Outstanding(d) + Total(completed[d])
Successes(d) == decided[d]["success"] + emitting[d]["success"] + completed[d]["success"]

LEMMA CountsAre ==
    CountsOK <=> /\ left \in [Looking -> Nat]
                 /\ queue \in Counts /\ reading \in Counts
                 /\ rejected \in Counts /\ repeats \in Counts
                 /\ decided \in Answers /\ emitting \in Answers /\ completed \in Answers
BY DEF CountsOK, Counts, Answers

LEMMA Numbers ==
    ASSUME CountsOK, NEW d \in Dispatch
    PROVE  /\ queue[d] \in Nat /\ reading[d] \in Nat /\ rejected[d] \in Nat /\ repeats[d] \in Nat
           /\ Total(decided[d]) \in Nat /\ Total(emitting[d]) \in Nat /\ Total(completed[d]) \in Nat
           /\ decided[d]["success"] \in Nat /\ emitting[d]["success"] \in Nat
           /\ completed[d]["success"] \in Nat
<1>1. queue[d] \in Nat /\ reading[d] \in Nat /\ rejected[d] \in Nat /\ repeats[d] \in Nat
  BY DEF CountsOK
<1>2. decided \in Answers /\ emitting \in Answers /\ completed \in Answers
  BY CountsAre
<1> QED BY <1>1, <1>2, TotalIsCount

LEMMA Preserved ==
    ASSUME IInv, CountsOK', UNCHANGED inventory,
           \A x \in Dispatch : Successes(x)' > 0 => Successes(x) > 0 \/ ~Impossible(x),
           \A x \in Dispatch : Load(x)' - repeats'[x] <= Load(x) - repeats[x]
    PROVE  IInv'
<1>1. OffersRemembered'
  BY DEF IInv, OffersRemembered, inventory, Enough
<1>2. SuccessIsBacked'
  BY DEF IInv, SuccessIsBacked, Successes, Impossible, inventory
<1>3. AnswersExplained'
  <2> SUFFICES ASSUME NEW x \in Dispatch PROVE Load(x)' <= 1 + repeats'[x]
    BY DEF AnswersExplained, Load
  <2>1. CountsOK /\ Load(x) <= 1 + repeats[x]
    BY DEF IInv, AnswersExplained, Load
  <2>2. Load(x) \in Nat /\ repeats[x] \in Nat
    BY <2>1, Numbers DEF Load, Outstanding, Unacked
  <2>3. Load(x)' \in Nat /\ repeats'[x] \in Nat
    <3>1. /\ queue'[x] \in Nat /\ reading'[x] \in Nat /\ rejected'[x] \in Nat /\ repeats'[x] \in Nat
          /\ decided' \in Answers /\ emitting' \in Answers /\ completed' \in Answers
      BY DEF CountsOK, Answers
    <3>2. /\ Total(decided'[x]) \in Nat /\ Total(emitting'[x]) \in Nat
          /\ Total(completed'[x]) \in Nat
      BY <3>1, TotalIsCount
    <3> QED BY <3>1, <3>2 DEF Load, Outstanding, Unacked
  <2>4. Load(x)' - repeats'[x] <= Load(x) - repeats[x]
    OBVIOUS
  <2> QED BY <2>1, <2>2, <2>3, <2>4
<1> QED BY <1>1, <1>2, <1>3 DEF IInv

LEMMA DeliverInv == ASSUME IInv, NEW d \in Dispatch, Deliver(d) PROVE IInv'
<1>1. CountsOK
  BY DEF IInv
<1>2. /\ queue[d] > 0
      /\ queue' = Add(queue, d, -1) /\ reading' = Add(reading, d, 1)
      /\ UNCHANGED <<decided, emitting, rejected, completed, repeats>>
      /\ UNCHANGED inventory
  BY DEF Deliver, history
<1>3. /\ queue' \in Counts /\ queue'[d] = queue[d] - 1
      /\ reading' \in Counts /\ reading'[d] = reading[d] + 1
      /\ \A x \in Dispatch : x # d => queue'[x] = queue[x] /\ reading'[x] = reading[x]
  BY <1>1, <1>2, CountsAre, AddOne, AddLess
<1>4. CountsOK'
  BY <1>1, <1>2, <1>3 DEF CountsOK, Counts, inventory
<1>5. \A x \in Dispatch : Successes(x)' = Successes(x)
  BY <1>2 DEF Successes
<1>6. ASSUME NEW x \in Dispatch PROVE Load(x)' - repeats'[x] <= Load(x) - repeats[x]
  BY <1>1, <1>2, <1>3, Numbers DEF Load, Outstanding, Unacked
<1> QED BY <1>2, <1>4, <1>5, <1>6, Preserved

LEMMA ReadInv == ASSUME IInv, NEW d \in Dispatch, Read(d) PROVE IInv'
<1> DEFINE o == IF Accepts(d) THEN "success" ELSE "failed"
<1>1. CountsOK /\ OffersRemembered
  BY DEF IInv
<1>2. /\ reading[d] > 0
      /\ reading' = Add(reading, d, -1) /\ decided' = Tally(decided, d, o, 1)
      /\ UNCHANGED <<queue, emitting, rejected, completed, repeats>>
      /\ UNCHANGED inventory
  BY DEF Read, history
<1>3. o \in Outcome /\ (o = "success" => ~Impossible(d))
  BY <1>1, AcceptedIsPossible DEF Outcome
<1> HIDE DEF o
<1>4. /\ reading' \in Counts /\ reading'[d] = reading[d] - 1
      /\ \A x \in Dispatch : x # d => reading'[x] = reading[x]
  BY <1>1, <1>2, CountsAre, AddLess
<1>5. /\ decided' \in Answers /\ Total(decided'[d]) = Total(decided[d]) + 1
      /\ o # "success" => decided'[d]["success"] = decided[d]["success"]
      /\ \A x \in Dispatch : x # d => decided'[x] = decided[x]
  BY <1>1, <1>2, <1>3, CountsAre, TallyOne
<1>6. CountsOK'
  BY <1>1, <1>2, <1>4, <1>5 DEF CountsOK, Counts, Answers, inventory
<1>7. \A x \in Dispatch : Successes(x)' > 0 => Successes(x) > 0 \/ ~Impossible(x)
  BY <1>2, <1>3, <1>5 DEF Successes
<1>8. ASSUME NEW x \in Dispatch PROVE Load(x)' - repeats'[x] <= Load(x) - repeats[x]
  BY <1>1, <1>2, <1>4, <1>5, Numbers DEF Load, Outstanding, Unacked
<1> QED BY <1>2, <1>6, <1>7, <1>8, Preserved

LEMMA ReadThrowsInv == ASSUME IInv, NEW d \in Dispatch, ReadThrows(d) PROVE IInv'
<1>1. CountsOK
  BY DEF IInv
<1>2. /\ reading[d] > 0
      /\ reading' = Add(reading, d, -1) /\ rejected' = Add(rejected, d, 1)
      /\ UNCHANGED <<queue, decided, emitting, completed, repeats>>
      /\ UNCHANGED inventory
  BY DEF ReadThrows, history
<1>3. /\ reading' \in Counts /\ reading'[d] = reading[d] - 1
      /\ rejected' \in Counts /\ rejected'[d] = rejected[d] + 1
      /\ \A x \in Dispatch : x # d => reading'[x] = reading[x] /\ rejected'[x] = rejected[x]
  BY <1>1, <1>2, CountsAre, AddOne, AddLess
<1>4. CountsOK'
  BY <1>1, <1>2, <1>3 DEF CountsOK, Counts, inventory
<1>5. \A x \in Dispatch : Successes(x)' = Successes(x)
  BY <1>2 DEF Successes
<1>6. ASSUME NEW x \in Dispatch PROVE Load(x)' - repeats'[x] <= Load(x) - repeats[x]
  BY <1>1, <1>2, <1>3, Numbers DEF Load, Outstanding, Unacked
<1> QED BY <1>2, <1>4, <1>5, <1>6, Preserved

LEMMA AckInv ==
    ASSUME IInv, NEW d \in Dispatch, NEW o \in Outcome, Ack(d, o) PROVE IInv'
<1>1. CountsOK
  BY DEF IInv
<1>2. /\ decided[d][o] > 0
      /\ decided' = Tally(decided, d, o, -1) /\ emitting' = Tally(emitting, d, o, 1)
      /\ UNCHANGED <<queue, reading, rejected, completed, repeats>>
      /\ UNCHANGED inventory
  BY DEF Ack, history
<1>3. /\ decided' \in Answers /\ Total(decided'[d]) = Total(decided[d]) - 1
      /\ o # "success" => decided'[d]["success"] = decided[d]["success"]
      /\ o = "success" => decided'[d]["success"] = decided[d]["success"] - 1
      /\ \A x \in Dispatch : x # d => decided'[x] = decided[x]
  BY <1>1, <1>2, CountsAre, TallyLess
<1>4. /\ emitting' \in Answers /\ Total(emitting'[d]) = Total(emitting[d]) + 1
      /\ o # "success" => emitting'[d]["success"] = emitting[d]["success"]
      /\ o = "success" => emitting'[d]["success"] = emitting[d]["success"] + 1
      /\ \A x \in Dispatch : x # d => emitting'[x] = emitting[x]
  BY <1>1, <1>2, CountsAre, TallyOne
<1>5. CountsOK'
  BY <1>1, <1>2, <1>3, <1>4 DEF CountsOK, Answers, inventory
<1>6. \A x \in Dispatch : Successes(x)' = Successes(x)
  BY <1>1, <1>2, <1>3, <1>4, Numbers DEF Successes
<1>7. ASSUME NEW x \in Dispatch PROVE Load(x)' - repeats'[x] <= Load(x) - repeats[x]
  BY <1>1, <1>2, <1>3, <1>4, Numbers DEF Load, Outstanding, Unacked
<1> QED BY <1>2, <1>5, <1>6, <1>7, Preserved

LEMMA EmitInv ==
    ASSUME IInv, NEW d \in Dispatch, NEW o \in Outcome, Emit(d, o) \/ EmitFails(d, o)
    PROVE  IInv'
<1>1. CountsOK
  BY DEF IInv
<1>2. /\ emitting[d][o] > 0
      /\ emitting' = Tally(emitting, d, o, -1)
      /\ completed' = Tally(completed, d, o, 1) \/ UNCHANGED completed
      /\ UNCHANGED <<queue, reading, decided, rejected, repeats>>
      /\ UNCHANGED inventory
  BY DEF Emit, EmitFails, history
<1>3. /\ emitting' \in Answers /\ Total(emitting'[d]) = Total(emitting[d]) - 1
      /\ o # "success" => emitting'[d]["success"] = emitting[d]["success"]
      /\ o = "success" => emitting'[d]["success"] = emitting[d]["success"] - 1
      /\ \A x \in Dispatch : x # d => emitting'[x] = emitting[x]
  BY <1>1, <1>2, CountsAre, TallyLess
<1>4. CASE UNCHANGED completed
  <2>1. CountsOK'
    BY <1>1, <1>2, <1>3, <1>4 DEF CountsOK, Answers, inventory
  <2>2. \A x \in Dispatch : Successes(x)' > 0 => Successes(x) > 0
    BY <1>1, <1>2, <1>3, <1>4, Numbers DEF Successes
  <2>3. ASSUME NEW x \in Dispatch PROVE Load(x)' - repeats'[x] <= Load(x) - repeats[x]
    BY <1>1, <1>2, <1>3, <1>4, Numbers DEF Load, Outstanding, Unacked
  <2> QED BY <1>2, <2>1, <2>2, <2>3, Preserved
<1>5. CASE completed' = Tally(completed, d, o, 1)
  <2>1. /\ completed' \in Answers /\ Total(completed'[d]) = Total(completed[d]) + 1
        /\ o # "success" => completed'[d]["success"] = completed[d]["success"]
        /\ o = "success" => completed'[d]["success"] = completed[d]["success"] + 1
        /\ \A x \in Dispatch : x # d => completed'[x] = completed[x]
    BY <1>1, <1>5, CountsAre, TallyOne
  <2>2. CountsOK'
    BY <1>1, <1>2, <1>3, <2>1 DEF CountsOK, Answers, inventory
  <2>3. \A x \in Dispatch : Successes(x)' = Successes(x)
    BY <1>1, <1>2, <1>3, <2>1, Numbers DEF Successes
  <2>4. ASSUME NEW x \in Dispatch PROVE Load(x)' - repeats'[x] <= Load(x) - repeats[x]
    BY <1>1, <1>2, <1>3, <2>1, Numbers DEF Load, Outstanding, Unacked
  <2> QED BY <1>2, <2>2, <2>3, <2>4, Preserved
<1> QED BY <1>2, <1>4, <1>5

\* What the broker delivers again was in a handler's hands.
LEMMA Requeued ==
    ASSUME CountsOK, NEW D, Requeue(D)
    PROVE  /\ queue' \in Counts /\ reading' \in Counts /\ decided' \in Answers
           /\ \A x \in Dispatch :
                /\ queue'[x] + reading'[x] + Total(decided'[x])
                     = queue[x] + reading[x] + Total(decided[x])
                /\ decided'[x]["success"] <= decided[x]["success"]
<1>1. NoAnswer \in Answers /\ \A x \in Dispatch : /\ NoAnswer[x]["success"] = 0
                                                  /\ Total(NoAnswer[x]) = 0
  BY DEF NoAnswer, Answers, Outcome, Total
<1>2. /\ queue' = [d \in Dispatch |-> queue[d] + (IF d \in D THEN Unacked(d) ELSE 0)]
      /\ reading' = [d \in Dispatch |-> IF d \in D THEN 0 ELSE reading[d]]
      /\ decided' = [d \in Dispatch |-> IF d \in D THEN NoAnswer[d] ELSE decided[d]]
  BY DEF Requeue
<1>3. \A x \in Dispatch : Unacked(x) \in Nat /\ Unacked(x) = reading[x] + Total(decided[x])
  BY Numbers DEF Unacked
<1>4. queue' \in Counts /\ reading' \in Counts
  BY <1>2, <1>3, CountsAre DEF Counts
<1>5. decided' \in Answers
  <2>1. \A x \in Dispatch : NoAnswer[x] \in [Outcome -> Nat] /\ decided[x] \in [Outcome -> Nat]
    BY <1>1, CountsAre DEF Answers
  <2> QED BY <1>2, <2>1 DEF Answers
<1>6. ASSUME NEW x \in Dispatch
      PROVE  /\ queue'[x] + reading'[x] + Total(decided'[x])
                  = queue[x] + reading[x] + Total(decided[x])
             /\ decided'[x]["success"] <= decided[x]["success"]
  <2>1. CASE x \in D
    <3>1. /\ queue'[x] = queue[x] + Unacked(x) /\ reading'[x] = 0
          /\ decided'[x] = NoAnswer[x]
      BY <1>2, <2>1
    <3> QED BY <1>1, <1>3, <3>1, Numbers
  <2>2. CASE x \notin D
    <3>1. queue'[x] = queue[x] /\ reading'[x] = reading[x] /\ decided'[x] = decided[x]
      BY <1>2, <2>2, Numbers
    <3> QED BY <3>1, Numbers
  <2> QED BY <2>1, <2>2
<1> QED BY <1>4, <1>5, <1>6

LEMMA ChannelClosedInv ==
    ASSUME IInv, NEW agent \in Agents, ChannelClosed(agent) PROVE IInv'
<1>1. CountsOK
  BY DEF IInv
<1>2. /\ Requeue(Listening(agent))
      /\ UNCHANGED <<emitting, rejected, completed, repeats>>
      /\ UNCHANGED inventory
  BY DEF ChannelClosed, history
<1>3. /\ queue' \in Counts /\ reading' \in Counts /\ decided' \in Answers
      /\ \A x \in Dispatch :
           /\ queue'[x] + reading'[x] + Total(decided'[x])
                = queue[x] + reading[x] + Total(decided[x])
           /\ decided'[x]["success"] <= decided[x]["success"]
  BY <1>1, <1>2, Requeued
<1>4. CountsOK'
  BY <1>1, <1>2, <1>3 DEF CountsOK, Counts, Answers, inventory
<1>5. ASSUME NEW x \in Dispatch PROVE Successes(x)' > 0 => Successes(x) > 0
  <2>1. decided'[x]["success"] \in Nat
    BY <1>3, TotalIsCount
  <2> QED BY <1>1, <1>2, <1>3, <2>1, Numbers DEF Successes
<1>6. ASSUME NEW x \in Dispatch PROVE Load(x)' - repeats'[x] <= Load(x) - repeats[x]
  <2>1. queue'[x] \in Nat /\ reading'[x] \in Nat /\ Total(decided'[x]) \in Nat
    BY <1>3, TotalIsCount DEF Counts
  <2> QED BY <1>1, <1>2, <1>3, <2>1, Numbers DEF Load, Outstanding, Unacked
<1> QED BY <1>2, <1>4, <1>5, <1>6, Preserved

LEMMA AckUnheardInv ==
    ASSUME IInv, NEW d \in Dispatch, NEW o \in Outcome, AckUnheard(d, o) PROVE IInv'
<1>1. CountsOK
  BY DEF IInv
<1>2. /\ decided[d][o] > 0
      /\ Requeue(Listening(Agent[d]))
      /\ emitting' = Tally(emitting, d, o, 1) /\ repeats' = Add(repeats, d, 1)
      /\ UNCHANGED <<rejected, completed>>
      /\ UNCHANGED inventory
  BY DEF AckUnheard
<1>3. /\ queue' \in Counts /\ reading' \in Counts /\ decided' \in Answers
      /\ \A x \in Dispatch :
           /\ queue'[x] + reading'[x] + Total(decided'[x])
                = queue[x] + reading[x] + Total(decided[x])
           /\ decided'[x]["success"] <= decided[x]["success"]
  BY <1>1, <1>2, Requeued
<1>4. /\ emitting' \in Answers /\ Total(emitting'[d]) = Total(emitting[d]) + 1
      /\ o # "success" => emitting'[d]["success"] = emitting[d]["success"]
      /\ \A x \in Dispatch : x # d => emitting'[x] = emitting[x]
  BY <1>1, <1>2, CountsAre, TallyOne
<1>5. /\ repeats' \in Counts /\ repeats'[d] = repeats[d] + 1
      /\ \A x \in Dispatch : x # d => repeats'[x] = repeats[x]
  BY <1>1, <1>2, CountsAre, AddOne
<1>6. CountsOK'
  BY <1>1, <1>2, <1>3, <1>4, <1>5 DEF CountsOK, Counts, Answers, inventory
<1>7. ASSUME NEW x \in Dispatch PROVE Successes(x)' > 0 => Successes(x) > 0
  <2>1. decided'[x]["success"] \in Nat /\ emitting'[x]["success"] \in Nat
    BY <1>3, <1>4, TotalIsCount
  <2>2. o = "success" => decided[d]["success"] > 0
    BY <1>2
  <2> QED BY <1>1, <1>2, <1>3, <1>4, <2>1, <2>2, Numbers DEF Successes
<1>8. ASSUME NEW x \in Dispatch PROVE Load(x)' - repeats'[x] <= Load(x) - repeats[x]
  <2>1. queue'[x] \in Nat /\ reading'[x] \in Nat /\ Total(decided'[x]) \in Nat
    BY <1>3, TotalIsCount DEF Counts
  <2> QED BY <1>1, <1>2, <1>3, <1>4, <1>5, <2>1, Numbers DEF Load, Outstanding, Unacked
<1> QED BY <1>2, <1>6, <1>7, <1>8, Preserved

LEMMA CrashInv == ASSUME IInv, Crash PROVE IInv'
<1>1. CountsOK
  BY DEF IInv
<1>2. /\ Requeue(Dispatch) /\ emitting' = NoAnswer
      /\ UNCHANGED <<rejected, completed, repeats>>
      /\ UNCHANGED inventory
  BY DEF Crash
<1>3. /\ queue' \in Counts /\ reading' \in Counts /\ decided' \in Answers
      /\ \A x \in Dispatch :
           /\ queue'[x] + reading'[x] + Total(decided'[x])
                = queue[x] + reading[x] + Total(decided[x])
           /\ decided'[x]["success"] <= decided[x]["success"]
  BY <1>1, <1>2, Requeued
<1>4. /\ emitting' \in Answers
      /\ \A x \in Dispatch : emitting'[x]["success"] = 0 /\ Total(emitting'[x]) = 0
  BY <1>2 DEF NoAnswer, Answers, Outcome, Total
<1>5. CountsOK'
  BY <1>1, <1>2, <1>3, <1>4 DEF CountsOK, Counts, Answers, inventory
<1>6. ASSUME NEW x \in Dispatch PROVE Successes(x)' > 0 => Successes(x) > 0
  <2>1. decided'[x]["success"] \in Nat
    BY <1>3, TotalIsCount
  <2> QED BY <1>1, <1>2, <1>3, <1>4, <2>1, Numbers DEF Successes
<1>7. ASSUME NEW x \in Dispatch PROVE Load(x)' - repeats'[x] <= Load(x) - repeats[x]
  <2>1. queue'[x] \in Nat /\ reading'[x] \in Nat /\ Total(decided'[x]) \in Nat
    BY <1>3, TotalIsCount DEF Counts
  <2> QED BY <1>1, <1>2, <1>3, <1>4, <2>1, Numbers DEF Load, Outstanding, Unacked
<1> QED BY <1>2, <1>5, <1>6, <1>7, Preserved

LEMMA RouteInv == ASSUME IInv, NEW d \in Dispatch, Route(d) PROVE IInv'
<1>1. CountsOK
  BY DEF IInv
<1>2. /\ rejected[d] > 0
      /\ \/ rejected' = Add(rejected, d, -1) /\ UNCHANGED repeats
         \/ UNCHANGED rejected /\ repeats' = Add(repeats, d, 1)
      /\ \/ queue' = Add(queue, d, 1) /\ UNCHANGED completed
         \/ UNCHANGED queue /\ completed' = Tally(completed, d, "failed", 1)
      /\ UNCHANGED <<reading, decided, emitting>>
      /\ UNCHANGED inventory
  BY DEF Route, Retry, GiveUp, RouterDone
<1>3. /\ rejected' \in Counts /\ repeats' \in Counts
      /\ rejected'[d] - repeats'[d] = rejected[d] - repeats[d] - 1
      /\ \A x \in Dispatch : x # d => rejected'[x] = rejected[x] /\ repeats'[x] = repeats[x]
  <2>1. CASE rejected' = Add(rejected, d, -1) /\ UNCHANGED repeats
    <3>1. /\ rejected' \in Counts /\ rejected'[d] = rejected[d] - 1
          /\ \A x \in Dispatch : x # d => rejected'[x] = rejected[x]
      BY <1>1, <1>2, <2>1, CountsAre, AddLess
    <3> QED BY <1>1, <2>1, <3>1, CountsAre, Numbers
  <2>2. CASE UNCHANGED rejected /\ repeats' = Add(repeats, d, 1)
    <3>1. /\ repeats' \in Counts /\ repeats'[d] = repeats[d] + 1
          /\ \A x \in Dispatch : x # d => repeats'[x] = repeats[x]
      BY <1>1, <2>2, CountsAre, AddOne
    <3> QED BY <1>1, <2>2, <3>1, CountsAre, Numbers
  <2> QED BY <1>2, <2>1, <2>2
<1>4. /\ queue' \in Counts /\ completed' \in Answers
      /\ queue'[d] + Total(completed'[d]) = queue[d] + Total(completed[d]) + 1
      /\ completed'[d]["success"] = completed[d]["success"]
      /\ \A x \in Dispatch : x # d => queue'[x] = queue[x] /\ completed'[x] = completed[x]
  <2>1. CASE queue' = Add(queue, d, 1) /\ UNCHANGED completed
    <3>1. /\ queue' \in Counts /\ queue'[d] = queue[d] + 1
          /\ \A x \in Dispatch : x # d => queue'[x] = queue[x]
      BY <1>1, <2>1, CountsAre, AddOne
    <3> QED BY <1>1, <2>1, <3>1, CountsAre, Numbers
  <2>2. CASE UNCHANGED queue /\ completed' = Tally(completed, d, "failed", 1)
    <3>1. /\ completed' \in Answers /\ Total(completed'[d]) = Total(completed[d]) + 1
          /\ completed'[d]["success"] = completed[d]["success"]
          /\ \A x \in Dispatch : x # d => completed'[x] = completed[x]
      BY <1>1, <2>2, CountsAre, TallyOne DEF Outcome
    <3> QED BY <1>1, <2>2, <3>1, CountsAre, Numbers
  <2> QED BY <1>2, <2>1, <2>2
<1>5. CountsOK'
  BY <1>1, <1>2, <1>3, <1>4 DEF CountsOK, Counts, Answers, inventory
<1>6. \A x \in Dispatch : Successes(x)' = Successes(x)
  BY <1>2, <1>4 DEF Successes
<1>7. ASSUME NEW x \in Dispatch PROVE Load(x)' - repeats'[x] <= Load(x) - repeats[x]
  <2>1. /\ queue'[x] \in Nat /\ rejected'[x] \in Nat /\ repeats'[x] \in Nat
        /\ Total(completed'[x]) \in Nat
    BY <1>3, <1>4, TotalIsCount DEF Counts
  <2> QED BY <1>1, <1>2, <1>3, <1>4, <2>1, Numbers DEF Load, Outstanding, Unacked
<1> QED BY <1>2, <1>5, <1>6, <1>7, Preserved

LEMMA InventoryInv ==
    ASSUME IInv, NEW d \in Looking, NEW n \in 0..Capacity[d], InventoryChanges(d, n)
    PROVE  IInv'
<1>1. n \in Nat
  BY AgentAssumption
<1>2. /\ left' = [left EXCEPT ![d] = n]
      /\ offered' = IF Enough(d, n) THEN offered \cup {d} ELSE offered
      /\ UNCHANGED <<queue, reading, decided, emitting, rejected, completed, repeats>>
  BY DEF InventoryChanges, history
<1>3. CountsOK'
  BY <1>1, <1>2 DEF IInv, CountsOK
<1>4. OffersRemembered'
  BY <1>2 DEF IInv, CountsOK, OffersRemembered, Enough
<1>5. SuccessIsBacked'
  BY <1>2 DEF IInv, SuccessIsBacked, Impossible
<1>6. AnswersExplained'
  BY <1>2 DEF IInv, AnswersExplained, Outstanding, Unacked
<1> QED BY <1>3, <1>4, <1>5, <1>6 DEF IInv

-----------------------------------------------------------------------------

\* One copy of each dispatch waits, and nothing was decided.
LEMMA OneOfEach ==
    ASSUME Init, NEW d \in Dispatch
    PROVE  Outstanding(d) = 1 /\ Total(completed[d]) = 0
<1>1. Total(NoAnswer[d]) = 0
  BY DEF NoAnswer, Total, Outcome
<1>2. /\ queue[d] = 1 /\ reading[d] = 0 /\ rejected[d] = 0
      /\ Total(decided[d]) = 0 /\ Total(emitting[d]) = 0
      /\ Total(completed[d]) = 0
  BY <1>1 DEF Init, None
<1> QED BY <1>2 DEF Outstanding, Unacked

LEMMA InitInv == Init => IInv
<1> SUFFICES ASSUME Init PROVE IInv
  OBVIOUS
<1>1. left \in [Looking -> Nat]
  <2>1. UNION {0..Capacity[d] : d \in Looking} \subseteq Nat
    BY AgentAssumption
  <2>2. left \in [Looking -> UNION {0..Capacity[d] : d \in Looking}]
    BY DEF Init, Inventory
  <2> QED BY <2>1, <2>2
<1>2. CountsOK
  BY <1>1 DEF Init, CountsOK, None, NoAnswer
<1>3. OffersRemembered
  BY DEF Init, OffersRemembered
<1>4. \A d \in Dispatch : /\ NoAnswer[d]["success"] = 0 /\ Total(NoAnswer[d]) = 0
  BY DEF NoAnswer, Total, Outcome
<1>5. SuccessIsBacked
  BY <1>4 DEF Init, SuccessIsBacked
<1>6. AnswersExplained
  <2> SUFFICES ASSUME NEW d \in Dispatch
               PROVE  Outstanding(d) + Total(completed[d]) =< 1 + repeats[d]
    BY DEF AnswersExplained
  <2>1. repeats[d] = 0
    BY DEF Init, None
  <2>2. Outstanding(d) = 1 /\ Total(completed[d]) = 0
    BY OneOfEach
  <2> QED BY <2>1, <2>2
<1> QED BY <1>2, <1>3, <1>5, <1>6 DEF IInv

\* Copies are counted and successes are backed in every state the handlers,
\* the broker, restarts and the router can reach together.
THEOREM AgentsInvariant == Spec => []IInv
<1>1. IInv /\ [Next]_vars => IInv'
  <2> SUFFICES ASSUME IInv, [Next]_vars PROVE IInv'
    OBVIOUS
  <2>1. CASE UNCHANGED vars
    BY <2>1 DEF IInv, CountsOK, OffersRemembered, SuccessIsBacked, AnswersExplained,
                Outstanding, Unacked, Impossible, Enough, vars, inventory, history
  <2>2. CASE \E d \in Looking : \E n \in 0..Capacity[d] : InventoryChanges(d, n)
    BY <2>2, InventoryInv
  <2>3. CASE \E d \in Dispatch : Handle(d)
    BY <2>3, DeliverInv, ReadInv, AckInv, EmitInv DEF Handle
  <2>4. CASE \E d \in Dispatch : Route(d)
    BY <2>4, RouteInv
  <2>5. CASE Failure
    BY <2>5, ReadThrowsInv, EmitInv, AckUnheardInv, ChannelClosedInv, CrashInv DEF Failure
  <2> QED BY <2>1, <2>2, <2>3, <2>4, <2>5 DEF Next
<1> QED BY <1>1, InitInv, PTL DEF Spec

\* However often a step is rejected, retried or interrupted, it is answered more
\* than once only as often as a copy came back that had been dealt with.
THEOREM RepeatsExplainAnswers == Spec => []AnswersExplained
<1>1. IInv => AnswersExplained
  BY DEF IInv
<1> QED BY <1>1, AgentsInvariant, PTL

\* No number of retries and redeliveries turns a refusal into a success.
THEOREM RefusalsStand == Spec => []SuccessWasPossible
<1>1. IInv => SuccessWasPossible
  <2> SUFFICES ASSUME IInv, NEW d \in Dispatch, completed[d]["success"] > 0
               PROVE  ~Impossible(d)
    BY DEF SuccessWasPossible
  <2>1. CountsOK
    BY DEF IInv
  <2> QED BY <2>1, Numbers DEF IInv, SuccessIsBacked
<1> QED BY <1>1, AgentsInvariant, PTL

-----------------------------------------------------------------------------
(* The agents implement what the saga assumes of them.  To StepContract a   *)
(* dispatch counts as long as a copy, a handler or a rejected copy is left. *)

LEMMA Stutters ==
    ASSUME UNCHANGED <<completed, lost>>,
           \A x \in Dispatch : Outstanding(x)' > 0 <=> Outstanding(x) > 0
    PROVE  UNCHANGED Contract!vars
BY DEF Contract!vars

LEMMA IsAnswered ==
    ASSUME NEW d \in Dispatch, NEW o \in Outcome, Outstanding(d) > 0,
           completed' = Tally(completed, d, o, 1), UNCHANGED lost,
           \A x \in Dispatch : x # d => (Outstanding(x)' > 0 <=> Outstanding(x) > 0)
    PROVE  Contract!Next
<1>1. Contract!Answer(d, o)
  BY DEF Contract!Answer, Tally
<1>2. CASE Outstanding(d)' > 0
  <2>1. Contract!WorkRedelivered(d, o)
    BY <1>1, <1>2 DEF Contract!WorkRedelivered
  <2> QED BY <2>1 DEF Contract!Next
<1>3. CASE ~(Outstanding(d)' > 0)
  <2>1. Contract!Take({d})
    BY <1>3 DEF Contract!Take
  <2>2. Contract!Work(d, o)
    BY <1>1, <2>1 DEF Contract!Work
  <2> QED BY <2>2 DEF Contract!Next
<1> QED BY <1>2, <1>3

LEMMA IsLost ==
    ASSUME NEW D \in SUBSET Dispatch, \A x \in D : Outstanding(x) > 0,
           UNCHANGED completed, lost' = lost \cup D,
           \A x \in Dispatch \ D : Outstanding(x)' > 0 <=> Outstanding(x) > 0
    PROVE  Contract!Next
<1> DEFINE gone == {x \in D : ~(Outstanding(x)' > 0)}
<1>1. gone \in SUBSET D
  OBVIOUS
<1>2. Contract!Take(gone)
  BY DEF Contract!Take
<1>3. Contract!WorkLost(D, gone)
  BY <1>2 DEF Contract!WorkLost
<1> QED BY <1>1, <1>3 DEF Contract!Next

\* Copies that change hands.
LEMMA MovesInside ==
    ASSUME CountsOK, NEW d \in Dispatch,
           Deliver(d) \/ Read(d) \/ ReadThrows(d) \/ \E o \in Outcome : Ack(d, o)
    PROVE  /\ UNCHANGED <<completed, lost>>
           /\ \A x \in Dispatch : Outstanding(x)' = Outstanding(x)
<1>1. CASE Deliver(d)
  <2>1. /\ queue[d] > 0
        /\ queue' = Add(queue, d, -1) /\ reading' = Add(reading, d, 1)
        /\ UNCHANGED <<decided, emitting, rejected, completed, lost>>
    BY <1>1 DEF Deliver, history
  <2>2. /\ queue'[d] = queue[d] - 1 /\ reading'[d] = reading[d] + 1
        /\ \A x \in Dispatch : x # d => queue'[x] = queue[x] /\ reading'[x] = reading[x]
    BY <2>1, CountsAre, AddOne, AddLess
  <2> QED BY <2>1, <2>2, Numbers DEF Outstanding, Unacked
<1>2. CASE Read(d)
  <2>1. PICK o \in Outcome :
          /\ reading[d] > 0
          /\ reading' = Add(reading, d, -1) /\ decided' = Tally(decided, d, o, 1)
          /\ UNCHANGED <<queue, emitting, rejected, completed, lost>>
    BY <1>2 DEF Read, history, Outcome
  <2>2. /\ reading'[d] = reading[d] - 1 /\ Total(decided'[d]) = Total(decided[d]) + 1
        /\ \A x \in Dispatch : x # d => reading'[x] = reading[x] /\ decided'[x] = decided[x]
    BY <2>1, CountsAre, TallyOne, AddLess
  <2> QED BY <2>1, <2>2, Numbers DEF Outstanding, Unacked
<1>3. CASE ReadThrows(d)
  <2>1. /\ reading[d] > 0
        /\ reading' = Add(reading, d, -1) /\ rejected' = Add(rejected, d, 1)
        /\ UNCHANGED <<queue, decided, emitting, completed, lost>>
    BY <1>3 DEF ReadThrows, history
  <2>2. /\ reading'[d] = reading[d] - 1 /\ rejected'[d] = rejected[d] + 1
        /\ \A x \in Dispatch : x # d => reading'[x] = reading[x] /\ rejected'[x] = rejected[x]
    BY <2>1, CountsAre, AddOne, AddLess
  <2> QED BY <2>1, <2>2, Numbers DEF Outstanding, Unacked
<1>4. CASE \E o \in Outcome : Ack(d, o)
  <2>1. PICK o \in Outcome :
          /\ decided[d][o] > 0
          /\ decided' = Tally(decided, d, o, -1) /\ emitting' = Tally(emitting, d, o, 1)
          /\ UNCHANGED <<queue, reading, rejected, completed, lost>>
    BY <1>4 DEF Ack, history
  <2>2. /\ Total(decided'[d]) = Total(decided[d]) - 1
        /\ \A x \in Dispatch : x # d => decided'[x] = decided[x]
    BY <2>1, CountsAre, TallyLess
  <2>3. /\ Total(emitting'[d]) = Total(emitting[d]) + 1
        /\ \A x \in Dispatch : x # d => emitting'[x] = emitting[x]
    BY <2>1, CountsAre, TallyOne
  <2> QED BY <2>1, <2>2, <2>3, Numbers DEF Outstanding, Unacked
<1> QED BY <1>1, <1>2, <1>3, <1>4

\* Answers, and answers that get lost.
LEMMA EmitStep ==
    ASSUME CountsOK, NEW d \in Dispatch, NEW o \in Outcome, Emit(d, o) \/ EmitFails(d, o)
    PROVE  Contract!Next
<1>1. /\ emitting[d][o] > 0 /\ emitting' = Tally(emitting, d, o, -1)
      /\ UNCHANGED <<queue, reading, decided, rejected>>
  BY DEF Emit, EmitFails
<1>2. /\ Total(emitting'[d]) = Total(emitting[d]) - 1
      /\ \A x \in Dispatch : x # d => emitting'[x] = emitting[x]
  BY <1>1, CountsAre, TallyLess
<1>3. Total(emitting[d]) > 0
  BY <1>1 DEF Total, CountsOK, Outcome
<1>4. Outstanding(d) > 0
  BY <1>3, Numbers DEF Outstanding, Unacked
<1>5. \A x \in Dispatch : x # d => Outstanding(x)' = Outstanding(x)
  BY <1>1, <1>2 DEF Outstanding, Unacked
<1>6. CASE Emit(d, o)
  BY <1>4, <1>5, <1>6, IsAnswered DEF Emit, history
<1>7. CASE EmitFails(d, o)
  <2>1. lost' = lost \cup {d} /\ UNCHANGED completed
    BY <1>7 DEF EmitFails
  <2>2. UNCHANGED completed /\ lost' = lost \cup {d}
    BY <2>1
  <2>3. \A x \in {d} : Outstanding(x) > 0
    BY <1>4
  <2>4. \A x \in Dispatch \ {d} : Outstanding(x)' > 0 <=> Outstanding(x) > 0
    BY <1>5
  <2>5. {d} \in SUBSET Dispatch
    OBVIOUS
  <2> QED BY <2>2, <2>3, <2>4, <2>5, IsLost
<1> QED BY <1>6, <1>7

LEMMA RouteStep ==
    ASSUME CountsOK, NEW d \in Dispatch, Route(d)
    PROVE  Contract!Next \/ UNCHANGED Contract!vars
<1>1. /\ rejected[d] > 0
      /\ rejected' = Add(rejected, d, -1) \/ UNCHANGED rejected
      /\ UNCHANGED <<reading, decided, emitting, lost>>
  BY DEF Route, Retry, GiveUp, RouterDone
<1>2. /\ \/ rejected'[d] = rejected[d] - 1
         \/ rejected'[d] = rejected[d]
      /\ \A x \in Dispatch : x # d => rejected'[x] = rejected[x]
  BY <1>1, CountsAre, AddLess
<1>3. Outstanding(d) > 0
  BY <1>1, Numbers DEF Outstanding, Unacked
<1>4. CASE queue' = Add(queue, d, 1) /\ UNCHANGED completed
  <2>1. /\ queue'[d] = queue[d] + 1
        /\ \A x \in Dispatch : x # d => queue'[x] = queue[x]
    BY <1>4, CountsAre, AddOne
  <2>2. Outstanding(d)' > 0
    BY <1>1, <1>2, <2>1, Numbers DEF Outstanding, Unacked
  <2>3. \A x \in Dispatch : x # d => Outstanding(x)' = Outstanding(x)
    BY <1>1, <1>2, <2>1 DEF Outstanding, Unacked
  <2>4. \A x \in Dispatch : Outstanding(x)' > 0 <=> Outstanding(x) > 0
    BY <1>3, <2>2, <2>3
  <2> QED BY <1>1, <1>4, <2>4, Stutters
<1>5. CASE UNCHANGED queue /\ completed' = Tally(completed, d, "failed", 1)
  <2>1. \A x \in Dispatch : x # d => Outstanding(x)' = Outstanding(x)
    BY <1>1, <1>2, <1>5 DEF Outstanding, Unacked
  <2> QED BY <1>1, <1>3, <1>5, <2>1, IsAnswered DEF Outcome
<1> QED BY <1>4, <1>5 DEF Route, Retry, GiveUp

\* The broker, and the process.
LEMMA ChannelStep ==
    ASSUME CountsOK,
           \/ \E agent \in Agents : ChannelClosed(agent)
           \/ \E d \in Dispatch, o \in Outcome : AckUnheard(d, o)
    PROVE  UNCHANGED Contract!vars
<1>1. CASE \E agent \in Agents : ChannelClosed(agent)
  <2>1. PICK agent \in Agents : /\ Requeue(Listening(agent))
                               /\ UNCHANGED <<emitting, rejected, completed, lost>>
    BY <1>1 DEF ChannelClosed, history
  <2>2. \A x \in Dispatch : /\ queue'[x] + reading'[x] + Total(decided'[x])
                                = queue[x] + reading[x] + Total(decided[x])
                           /\ queue'[x] \in Nat /\ reading'[x] \in Nat
                           /\ Total(decided'[x]) \in Nat
    BY <2>1, Requeued, TotalIsCount DEF Counts
  <2>3. \A x \in Dispatch : Outstanding(x)' = Outstanding(x)
    BY <2>1, <2>2, Numbers DEF Outstanding, Unacked
  <2> QED BY <2>1, <2>3, Stutters
<1>2. CASE \E d \in Dispatch, o \in Outcome : AckUnheard(d, o)
  <2>1. PICK d \in Dispatch, o \in Outcome :
          /\ decided[d][o] > 0 /\ Requeue(Listening(Agent[d]))
          /\ emitting' = Tally(emitting, d, o, 1)
          /\ UNCHANGED <<rejected, completed, lost>>
    BY <1>2 DEF AckUnheard
  <2>2. \A x \in Dispatch : /\ queue'[x] + reading'[x] + Total(decided'[x])
                                = queue[x] + reading[x] + Total(decided[x])
                           /\ queue'[x] \in Nat /\ reading'[x] \in Nat
                           /\ Total(decided'[x]) \in Nat
    BY <2>1, Requeued, TotalIsCount DEF Counts
  <2>3. /\ Total(emitting'[d]) = Total(emitting[d]) + 1
        /\ \A x \in Dispatch : x # d => emitting'[x] = emitting[x]
    BY <2>1, CountsAre, TallyOne
  <2>4. Total(decided[d]) > 0
    BY <2>1 DEF Total, CountsOK, Outcome
  <2>5. \A x \in Dispatch : Outstanding(x)' > 0 <=> Outstanding(x) > 0
    <3> TAKE x \in Dispatch
    <3>1. CASE x = d
      BY <2>1, <2>2, <2>3, <2>4, <3>1, Numbers DEF Outstanding, Unacked
    <3>2. CASE x # d
      BY <2>1, <2>2, <2>3, <3>2, Numbers DEF Outstanding, Unacked
    <3> QED BY <3>1, <3>2
  <2> QED BY <2>1, <2>5, Stutters
<1> QED BY <1>1, <1>2

LEMMA CrashStep == ASSUME CountsOK, Crash PROVE Contract!Next
<1> DEFINE answering == {d \in Dispatch : Total(emitting[d]) > 0}
<1>1. /\ Requeue(Dispatch) /\ emitting' = NoAnswer
      /\ lost' = lost \cup answering
      /\ UNCHANGED <<rejected, completed>>
  BY DEF Crash
<1>2. \A x \in Dispatch : /\ queue'[x] + reading'[x] + Total(decided'[x])
                              = queue[x] + reading[x] + Total(decided[x])
                         /\ queue'[x] \in Nat /\ reading'[x] \in Nat
                         /\ Total(decided'[x]) \in Nat
  BY <1>1, Requeued, TotalIsCount DEF Counts
<1>3. \A x \in Dispatch : Total(emitting'[x]) = 0
  BY <1>1 DEF NoAnswer, Outcome, Total
<1>4. \A x \in answering : Outstanding(x) > 0
  BY Numbers DEF Outstanding, Unacked
<1>5. \A x \in Dispatch \ answering : Outstanding(x)' = Outstanding(x)
  BY <1>1, <1>2, <1>3, Numbers DEF Outstanding, Unacked
<1> QED BY <1>1, <1>4, <1>5, IsLost

LEMMA InventoryStep ==
    ASSUME NEW d \in Looking, NEW n \in 0..Capacity[d], InventoryChanges(d, n)
    PROVE  UNCHANGED Contract!vars
<1>1. UNCHANGED <<queue, reading, decided, emitting, rejected, completed, lost>>
  BY DEF InventoryChanges, history
<1> QED BY <1>1, Stutters DEF Outstanding, Unacked

\* Handlers, queues, retries and restarts together are the environment that
\* BookingSaga is checked in, for any number of dispatches and failures.
THEOREM AgentsImplementContract == Spec => ContractSpec
<1>1. Init => Contract!Init
  <2> SUFFICES ASSUME Init PROVE Contract!Init
    OBVIOUS
  <2>1. \A d \in Dispatch : Outstanding(d) = 1
    BY OneOfEach
  <2>2. [d \in Dispatch |-> IF Outstanding(d) > 0 THEN 1 ELSE 0] = [d \in Dispatch |-> 1]
    <3>1. \A n : n = 1 => n > 0
      OBVIOUS
    <3> QED BY <2>1, <3>1, Zenon
  <2> QED BY <2>2 DEF Init, Contract!Init, NoAnswer
<1>2. IInv /\ [Next]_vars => [Contract!Next]_(Contract!vars)
  <2> SUFFICES ASSUME IInv, [Next]_vars
               PROVE  Contract!Next \/ UNCHANGED Contract!vars
    OBVIOUS
  <2>1. CountsOK
    BY DEF IInv
  <2>2. CASE UNCHANGED vars
    <3>1. UNCHANGED <<queue, reading, decided, emitting, rejected, completed, lost>>
      BY <2>2 DEF vars, history
    <3> QED BY <3>1, Stutters DEF Outstanding, Unacked
  <2>3. CASE \E d \in Looking : \E n \in 0..Capacity[d] : InventoryChanges(d, n)
    BY <2>3, InventoryStep
  <2>4. CASE \E d \in Dispatch : Deliver(d) \/ Read(d) \/ ReadThrows(d)
                                 \/ \E o \in Outcome : Ack(d, o)
    BY <2>1, <2>4, MovesInside, Stutters
  <2>5. CASE \E d \in Dispatch, o \in Outcome : Emit(d, o) \/ EmitFails(d, o)
    BY <2>1, <2>5, EmitStep
  <2>6. CASE \E d \in Dispatch : Route(d)
    BY <2>1, <2>6, RouteStep
  <2>7. CASE \/ \E agent \in Agents : ChannelClosed(agent)
             \/ \E d \in Dispatch, o \in Outcome : AckUnheard(d, o)
    BY <2>1, <2>7, ChannelStep
  <2>8. CASE Crash
    BY <2>1, <2>8, CrashStep
  <2> QED BY <2>2, <2>3, <2>4, <2>5, <2>6, <2>7, <2>8 DEF Next, Handle, Failure
<1> QED BY <1>1, <1>2, AgentsInvariant, PTL DEF Spec, ContractSpec, Contract!Spec

-----------------------------------------------------------------------------
(* The types beyond the counters. *)

Bounded ==
    /\ left \in Inventory
    /\ offered \subseteq Looking
    /\ lost \subseteq Dispatch
    /\ failures \in 0..MaxFailures

LEMMA InventoryStays ==
    ASSUME left \in Inventory, NEW d \in Looking, NEW n \in 0..Capacity[d]
    PROVE  [left EXCEPT ![d] = n] \in Inventory
<1> DEFINE units == UNION {0..Capacity[e] : e \in Looking}
<1>1. n \in units /\ n <= Capacity[d]
  BY AgentAssumption
<1>2. left \in [Looking -> units] /\ \A e \in Looking : left[e] <= Capacity[e]
  BY DEF Inventory
<1> HIDE DEF units
<1>3. [left EXCEPT ![d] = n] \in [Looking -> units]
  BY <1>1, <1>2
<1>4. \A e \in Looking : [left EXCEPT ![d] = n][e] <= Capacity[e]
  BY <1>1, <1>2
<1> QED BY <1>3, <1>4 DEF Inventory, units

LEMMA BoundedStep == ASSUME Bounded, [Next]_vars PROVE Bounded'
<1>1. CASE UNCHANGED vars
  BY <1>1 DEF Bounded, vars, inventory, history
<1>2. ASSUME NEW d \in Looking, NEW n \in 0..Capacity[d], InventoryChanges(d, n)
      PROVE  Bounded'
  BY <1>2, InventoryStays DEF InventoryChanges, Bounded, GoesWell, history
<1>3. ASSUME GoesWell \/ Fails PROVE failures' \in 0..MaxFailures
  BY <1>3, AgentAssumption DEF GoesWell, Fails, Bounded
<1>4. ASSUME NEW d \in Dispatch, Handle(d) PROVE Bounded'
  BY <1>3, <1>4 DEF Handle, Deliver, Read, Ack, Emit, Bounded, inventory, history
<1>5. ASSUME NEW d \in Dispatch, Route(d) PROVE Bounded'
  <2>1. RouterDone(d, TRUE) \/ RouterDone(d, FALSE)
    BY <1>5 DEF Route, Retry, GiveUp
  <2>2. failures' \in 0..MaxFailures
    BY <1>3, <2>1 DEF RouterDone
  <2>3. UNCHANGED <<left, offered, lost>>
    BY <1>5 DEF Route, Retry, GiveUp, inventory
  <2> QED BY <2>2, <2>3 DEF Bounded
<1>6. CASE Failure
  <2>1. Fails
    BY <1>6 DEF Failure, ReadThrows, EmitFails, AckUnheard, ChannelClosed, Crash
  <2>2. UNCHANGED <<left, offered>>
    BY <1>6 DEF Failure, ReadThrows, EmitFails, AckUnheard, ChannelClosed, Crash, inventory
  <2>3. lost' \subseteq Dispatch
    BY <1>6 DEF Failure, ReadThrows, EmitFails, AckUnheard, ChannelClosed, Crash,
                Bounded, history
  <2> QED BY <1>3, <2>1, <2>2, <2>3 DEF Bounded
<1> QED BY <1>1, <1>2, <1>4, <1>5, <1>6 DEF Next

\* Every variable of the agents keeps its type: no counter of copies, handlers
\* or answers ever becomes negative.
THEOREM AgentsTypeCorrect == Spec => []TypeOK
<1>1. Init => Bounded
  BY AgentAssumption DEF Init, Bounded
<1>2. Bounded /\ [Next]_vars => Bounded'
  BY BoundedStep
<1>3. IInv /\ Bounded => TypeOK
  BY DEF IInv, CountsOK, Bounded, TypeOK
<1> QED BY <1>1, <1>2, <1>3, AgentsInvariant, PTL DEF Spec
=============================================================================
