----------------------------- MODULE GraphReload -----------------------------
(***************************************************************************)
(* One booking that lives through restarts with an edited booking-graph.yml. *)
(* The rows carry the stages of the graph they were created from, and every *)
(* handler generates the graph anew from the configuration loaded at the   *)
(* last start.                                                             *)
(*                                                                         *)
(* The handlers run one after the other here (BookingSaga interleaves      *)
(* them); what an exception leaves undone stays undone.                    *)
(***************************************************************************)
EXTENDS BookingGraph, FiniteSetsExt

CONSTANTS
    Initial,      \* the configurations a booking may be created under
    Editions,     \* the configurations a restart may load
    MaxItems,     \* items of one product in a request
    MaxFollowed,  \* bookings of more rows, or under a configuration
                  \* that is not one of Editions, are not followed
    MaxRestarts

\* A yml: its stages, the products it knows, the steps with a compensate action.
Config(stageDefs, products, compensated) ==
    [stages |-> stageDefs, products |-> products, compensated |-> compensated]

\* What the schema of the yml makes sure of; the stages name steps that exist, as
\* generate throws for any other.
Ymls == [stages : Seq([stage : Nat, ask : BOOLEAN, steps : Seq(DOMAIN Steps)]),
         products : SUBSET Product, compensated : SUBSET DOMAIN Steps]

\* What it leaves to the author: every stage has a number of its own, no step is
\* listed twice, and one stage asks at most (an acceptance resumes after the
\* first that does).
Authored(c) ==
    \A i, j \in DOMAIN c.stages :
      /\ c.stages[i].stage = c.stages[j].stage => i = j
      /\ c.stages[i].ask /\ c.stages[j].ask => i = j
      /\ \A k \in DOMAIN c.stages[i].steps, l \in DOMAIN c.stages[j].steps :
           c.stages[i].steps[k] = c.stages[j].steps[l] => i = j /\ k = l

ASSUME ReloadAssumption ==
    /\ \A c \in Initial \cup Editions : c \in Ymls /\ Authored(c)
    /\ MaxItems \in Nat /\ MaxFollowed \in Nat /\ MaxRestarts \in Nat

VARIABLES
    config,    \* the configuration in force
    count,     \* the items of the request
    rows,      \* the BookingStep rows: stage, step reference, item
    saga,      \* status of the booking and of its rows; rows an agent works on
    born,      \* history: the configuration the booking was created under
    strayed,   \* history: a configuration since then gave it another graph
    restarts

vars == <<config, count, rows, saga, born, strayed, restarts>>

Booked == ProductsOf(count)

\* The stages of the booking; the handlers look steps up by name.
Graph(c) ==
    LET generated == Generate(c.stages, Booked)
    IN [k \in DOMAIN generated |-> [generated[k] EXCEPT !.steps = ToSet(@)]]

SupportsAll(c) == Product \subseteq c.products
\* generate() throws for a product the yml no longer knows.
Supports(c) == Booked \subseteq c.products

InStage(stage) == {i \in DOMAIN rows : rows[i].stage = stage}

AskStages(c) == {k \in DOMAIN Graph(c) : Graph(c)[k].ask}

-----------------------------------------------------------------------------
(* What a handler makes of the booking s under configuration c. *)

Mark(s, marked, status) ==
    [s EXCEPT !.status = [i \in DOMAIN @ |-> IF i \in marked THEN status ELSE @[i]]]

With(s, status) == {i \in DOMAIN s.status : s.status[i] = status}

Finalized(c, s) ==
    LET asked == UNION {InStage(Graph(c)[k].stage) : k \in AskStages(c)}
        mixed == asked \cap With(s, "success") # {} /\ asked \cap With(s, "failed") # {}
    IN IF s.booking # "in_progress" THEN s
       ELSE [s EXCEPT !.booking = IF mixed THEN "partially_confirmed" ELSE "confirmed"]

NextStageNumbered(c, stage) ==
    IF \E k \in DOMAIN Graph(c) : Graph(c)[k].stage = stage + 1
    THEN CHOOSE k \in DOMAIN Graph(c) : Graph(c)[k].stage = stage + 1
    ELSE 1 + Len(Graph(c))
\* findIndex is -1 for a stage the graph does not have, so that the first stage
\* is taken for the next one.
NextStage(c, stage) ==
    IF \E k \in DOMAIN Graph(c) : Graph(c)[k].stage = stage
    THEN 1 + CHOOSE k \in DOMAIN Graph(c) : Graph(c)[k].stage = stage
    ELSE 1

\* The claimed rows are dispatched only if the graph has all of them in this
\* stage; otherwise an error is thrown after the claim.
Advanced(c, s, stage) ==
    LET next == NextStage(c, stage)
        claimed == InStage(Graph(c)[next].stage) \cap With(s, "pending")
        known == \A i \in claimed : rows[i].ref \in Graph(c)[next].steps
    IN IF next \notin DOMAIN Graph(c) THEN Finalized(c, s)
       ELSE [Mark(s, claimed, "in_progress") EXCEPT
               !.sent = IF known THEN @ \cup claimed ELSE @]

Undoable(c) ==
    (UNION {Graph(c)[k].steps : k \in DOMAIN Graph(c)}) \cap c.compensated

Undone(c, s) ==
    IF ~Supports(c) THEN s
    ELSE Mark(s, {i \in With(s, "success") : rows[i].ref \in Undoable(c)},
              "compensating")

GivenUp(c, s) ==
    Undone(c, Mark([s EXCEPT !.booking = "failed"], With(s, "pending"), "failed"))

Completed(c, s, i, outcome) ==
    LET now == Mark(s, {i}, outcome)
        stage == InStage(rows[i].stage)
        some(status) == stage \cap With(now, status) # {}
        ask == \E k \in AskStages(c) : Graph(c)[k].stage = rows[i].stage
        settled == stage \subseteq With(now, "success") \cup With(now, "failed")
        cancelled == IF now.booking = "in_progress" THEN GivenUp(c, now) ELSE now
        paused == IF now.booking = "in_progress"
                  THEN [now EXCEPT !.booking = "awaiting_user_decision"] ELSE now
    IN CASE ~Supports(c) -> now
         [] Supports(c) /\ some("failed") /\ ask /\ ~settled -> now
         [] Supports(c) /\ some("failed") /\ ask /\ settled ->
              IF some("success") THEN paused ELSE cancelled
         [] Supports(c) /\ some("failed") /\ ~ask -> cancelled
         [] Supports(c) /\ ~some("failed") ->
              IF stage \subseteq With(now, "success")
              THEN Advanced(c, now, rows[i].stage) ELSE now

AcceptedOnly(c, s) == [s EXCEPT !.booking = "in_progress"]
\* The decision is stored before the graph is generated.
Accepted(c, s) ==
    LET now == [s EXCEPT !.booking = "in_progress"] IN
    IF ~Supports(c) \/ AskStages(c) = {} THEN now
    ELSE Advanced(c, now, Graph(c)[Min(AskStages(c))].stage)

-----------------------------------------------------------------------------

NoBooking == [booking |-> "none", status |-> <<>>, sent |-> {}]

Init ==
    /\ config \in Initial
    /\ count \in [Product -> 0..MaxItems]
    /\ rows = <<>>
    /\ saga = NoBooking
    /\ born = config
    /\ strayed = FALSE
    /\ restarts = 0

\* Stage 0 is claimed and dispatched, whatever stages the graph has.
Publish ==
    LET placed == Placements(config.stages, count)
        first == {i \in DOMAIN placed : placed[i].stage = 0}
    IN /\ saga = NoBooking
       /\ Booked # {} /\ Supports(config)
       /\ rows' = placed
       /\ saga' = [booking |-> "in_progress",
                   status |-> [i \in DOMAIN placed |->
                                 IF i \in first THEN "in_progress" ELSE "pending"],
                   sent |-> first]
       /\ born' = config
       /\ UNCHANGED <<config, count, strayed, restarts>>

\* The handlers, under configuration c.
Complete(c, i, outcome) ==
    /\ i \in saga.sent /\ saga.status[i] = "in_progress"
    /\ saga' = Completed(c, saga, i, outcome)
Accept(c) ==
    /\ saga.booking = "awaiting_user_decision"
    /\ saga' = Accepted(c, saga)
Reject(c) ==
    /\ saga.booking = "awaiting_user_decision"
    /\ saga' = GivenUp(c, saga)
Compensate(i) ==
    /\ saga.status[i] = "compensating"
    /\ saga' = Mark(saga, {i}, "compensated")

Handled(c) ==
    \/ \E i \in DOMAIN rows, o \in {"success", "failed"} : Complete(c, i, o)
    \/ Accept(c)
    \/ Reject(c)
    \/ \E i \in DOMAIN rows : Compensate(i)

Followed == born \in Editions /\ Len(rows) <= MaxFollowed

Handle ==
    /\ Followed
    /\ Handled(config)
    /\ UNCHANGED <<config, count, rows, born, strayed, restarts>>

\* To a booking of these products two configurations are the same when they
\* have the same steps for them at the same stages, in whatever order they
\* list them, and whatever they have for other products.
StepsFor(c) ==
    {[stage |-> c.stages[k].stage, ask |-> c.stages[k].ask,
      steps |-> {ref \in ToSet(c.stages[k].steps) :
                   Steps[ref].product \in Booked \cup {"itinerary"}}] :
       k \in DOMAIN c.stages}
SameFor(c, d) ==
    LET relevant(e) == {def \in StepsFor(e) : def.steps # {}}
        refs == UNION {def.steps : def \in StepsFor(c)}
    IN /\ relevant(c) = relevant(d)
       /\ Booked \cap c.products = Booked \cap d.products
       /\ refs \cap c.compensated = refs \cap d.compensated

\* The process is stopped and started with an edited yml.
Restart ==
    /\ saga # NoBooking /\ Followed
    /\ restarts < MaxRestarts
    /\ config' \in Editions \ {config}
    /\ restarts' = restarts + 1
    /\ strayed' = (strayed \/ ~SameFor(config', born))
    /\ UNCHANGED <<count, rows, saga, born>>

Next == Publish \/ Handle \/ Restart
Spec == Init /\ [][Next]_vars

-----------------------------------------------------------------------------
(* Properties *)

\* "no duplicate (bookingId, stepName, item) rows", which the schema leaves to
\* GraphService and the fan-out (contract.prisma:119-123).
OneRowPerStepAndItem ==
    \A i, j \in DOMAIN rows :
      rows[i].ref = rows[j].ref /\ rows[i].item = rows[j].item => i = j

\* The rows are exactly those a reader of the yml expects: every shared step
\* once, every step of a product once per item booked, at its own stage, and
\* nothing for a product that was not booked.
Expected ==
    {row \in [stage : {born.stages[k].stage : k \in DOMAIN born.stages},
              ref : DOMAIN Steps,
              item : [product : Product, number : 1..MaxItems] \cup {NoItem}] :
       /\ \E k \in DOMAIN born.stages : /\ born.stages[k].stage = row.stage
                                        /\ row.ref \in ToSet(born.stages[k].steps)
       /\ row.item.product = Steps[row.ref].product
       /\ row.item # NoItem => row.item.number <= count[row.item.product]}
RowsAsExpected ==
    saga # NoBooking => ToSet(rows) = Expected

\* stepIndex follows the order of execution, whatever the order of the yml.
IndexFollowsStages ==
    \A i, j \in DOMAIN rows : i < j => rows[i].stage <= rows[j].stage

\* "edits only affect new bookings" (booking-graph.yml:4), for the edits that
\* leave the stages of the booked products alone: relisted stages and changes
\* to other products never make a handler do anything else to the booking.
HarmlessEditsChangeNothing ==
    [][strayed \/ strayed' \/ saga = NoBooking \/ Handled(born)]_saga

\* A booking that nobody works on and nobody has to decide is final, unless
\* its graph was edited under it or never had a stage 0: publish starts the
\* literal stage 0 (booking.service.ts:111-121), the generator sorts whatever
\* numbers the yml has.
AtWork == \E i \in saga.sent : saga.status[i] = "in_progress"
StrandedOnlyByEdits ==
    saga.booking = "in_progress" =>
      \/ AtWork
      \/ strayed
      \/ InStage(0) = {}

\* What a final status says about the rows, edits apart: confirmed means all
\* of them done, partly confirmed all but items the user gave up, failed
\* nothing done and not undone that has a compensate action.  Only a stage
\* that does not ask and fails while siblings still work leaves their later
\* successes behind (stage-advancement.service.ts:65-68).
LeftBehind(i) ==
    /\ rows[i].ref \in born.compensated
    /\ ~ /\ ~\E k \in AskStages(born) : Graph(born)[k].stage = rows[i].stage
         /\ InStage(rows[i].stage) \cap With(saga, "failed") # {}
EndsAsGenerated ==
    strayed \/
      /\ saga.booking = "confirmed" => DOMAIN rows \subseteq With(saga, "success")
      /\ saga.booking = "partially_confirmed" =>
           \A i \in DOMAIN rows \ With(saga, "success") :
             \E k \in AskStages(born) : rows[i].stage = Graph(born)[k].stage
      /\ saga.booking = "failed" => \A i \in With(saga, "success") : ~LeftBehind(i)

\* "In-flight bookings keep a snapshot of `version`, so edits only affect new
\* bookings." (booking-graph.yml:4): whatever is edited, a handler does what it
\* would do under the configuration the booking was created with.
EditsAffectNewBookingsOnly ==
    [][saga = NoBooking \/ Handled(born)]_saga
=============================================================================
