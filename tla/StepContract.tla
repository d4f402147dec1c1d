---------------------------- MODULE StepContract ----------------------------
(***************************************************************************)
(* What the orchestrator may rely on when it dispatches steps: the agents, *)
(* their queues and the retry router seen as one.  These are the actions   *)
(* Work, WorkLost and WorkRedelivered by which BookingSaga represents      *)
(* them, except that one crash may lose several answers at once.           *)
(***************************************************************************)
EXTENDS Integers

CONSTANTS Dispatch, Outcome

VARIABLES
    dispatched,   \* dispatches that may still be answered
    completed,    \* answers to each dispatch
    lost          \* dispatches an answer to which was lost

vars == <<dispatched, completed, lost>>

Init ==
    /\ dispatched = [d \in Dispatch |-> 1]
    /\ completed = [d \in Dispatch |-> [o \in Outcome |-> 0]]
    /\ lost = {}

Take(D) ==
    /\ \A d \in D : dispatched[d] > 0
    /\ dispatched' = [d \in Dispatch |-> IF d \in D THEN dispatched[d] - 1 ELSE dispatched[d]]

Answer(d, o) == completed' = [completed EXCEPT ![d][o] = @ + 1] /\ UNCHANGED lost

Work(d, o) == Take({d}) /\ Answer(d, o)

WorkRedelivered(d, o) == dispatched[d] > 0 /\ Answer(d, o) /\ UNCHANGED dispatched

\* A dispatch of which another copy is left is not gone yet.
WorkLost(D, gone) ==
    /\ \A d \in D : dispatched[d] > 0
    /\ lost' = lost \cup D
    /\ Take(gone)
    /\ UNCHANGED completed

Next ==
    \/ \E d \in Dispatch, o \in Outcome : Work(d, o) \/ WorkRedelivered(d, o)
    \/ \E D \in SUBSET Dispatch : \E gone \in SUBSET D : WorkLost(D, gone)

Spec == Init /\ [][Next]_vars
=============================================================================
