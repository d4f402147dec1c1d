# Verification of the multi-product booking engine

TLA+ models of `apps/api`, the NestJS service that books flights and hotels
together as a saga, and of the page of `apps/web` on which a trip is put together,
booked and watched: what is modelled, what TLC checks about it, and what TLAPS
proves. Paths below are relative to `apps/api/src` unless they start with `/`.

## 1. The system

A `POST /bookings` request names flights and hotels. The service creates one
`Booking`, one row per item, and one `BookingStep` row per step of the booking
graph (`graph/config/booking-graph.yml`) and item. The steps are done by agents
that listen on RabbitMQ queues; the orchestrator claims a stage of rows,
dispatches them, applies the completions, and starts the next stage when every
row of the stage has succeeded. The stages in use are: availability (0), fraud
(1), allotment (2, joined `all_or_ask`), payment (3), notify (4). When some
allotments succeed and some fail the booking is paused and the client decides,
within a TTL, whether to take what could be had. When a booking fails, what its
compensatable steps did (allotment, payment) is undone by compensation commands.

### Inventory

| Component | State it keeps | Operations that change state | Talks to |
|---|---|---|---|
| Booking creation, `booking/` | `Booking`, `FlightBooking`, `HotelBooking`, `BookingStep` rows | `publish` | step dispatch |
| Saga orchestrator, `orchestrator/` | `Booking.status`, `decisionExpiresAt`, `BookingStep.status` | `applyCompletion`, `maybeAdvance`, `pauseForDecision`, `advanceFromStage`, `finalizeBooking`, `cancelBooking`, `rejectAwaitingBooking`, `compensateSuccessfulSteps`, `applyCompensated`, `decide`, `expireDueDecisions` | database, step dispatch, completion queues, timer |
| Step dispatch, `dispatch/` | none (messages in flight) | `dispatchSteps`, `dispatchCompensations` | worker queues |
| Booking graph, `graph/` | the parsed yml | `generate` (pure) | creation, orchestrator |
| Retry router, `messaging/` | copies in the retry inbox, the delay queues and the DLQ | `handle`, `route`, `archive` | every worker queue, completion queues |
| Allotment agents, `agents/*-allotment` | `Flight.seatsLeft`, `RoomType.roomsLeft` | `reserve*`, `release*` | worker and completion queues |
| Simulated competitor, `orchestrator/simulation` | the same inventory | `takeMarkedItems` | runs inside the orchestrator |
| Availability, fraud, payment, notify agents | none of their own | `handle`, `handleCompensate` (payment) | worker and completion queues |
| RabbitMQ wiring, `main.ts`, `messaging/messaging.module.ts` | the queues | acknowledge, reject, dead-letter, redeliver | everybody |
| Web client, `/apps/web/src` | the trip form, the catalog lists, the snapshot on display, one timer, requests under way | the form's edits, `loadCatalog`, polling effect, `handleBook`, `handleBookingDecision`, `handleReset` | HTTP |
| Catalog, `catalog/` | none (reads the inventory) | none | web client |
| HTTP plumbing, schema and migrations | none | formatting, request validation | HTTP |

### What is hard about it

* **Interleaving.** The completion listener has no prefetch limit and every
  handler awaits the database several times, so handlers of one booking run
  between each other's statements; decision requests and sweeps join in. There
  are no transactions: only the `WHERE status = ..` of single updates keeps two
  handlers from doing the same work.
* **Stale reads.** `maybeAdvance` reads the rows of its stage and acts later;
  `decide` compares the deadline before the update that accepts; the competitor
  reads the inventory and reserves later.
* **Delivery.** Dispatches are at least once; a worker acknowledges *before* it
  publishes its answer, so an answer can be lost or doubled. Completions and
  compensation results that fail are archived, never retried.
* **Configuration.** Every handler generates the graph anew from the yml loaded at
  startup; the rows keep the stages of the graph they were created from.
* **Answers out of order.** The page has up to four kinds of requests under way;
  some are cancelled or ignored when they come late, some are not.
* **Failures.** A process can die, a statement can throw and a publish can fail
  between any two steps; there is no watchdog and no outbox (`/TASKS.md`).
* **Time.** Decision TTL against late answers, overlapping sweeps, retry delays.

What makes each component correct: *the saga* starts every row once, starts a
stage only when the earlier ones are cleared, never leaves a booking without a
next step, and undoes everything a failed booking did. *The router* loses
nothing, retries exactly as often as configured and reports before it archives.
*The agents* never hand out more inventory than there is, and what a row says
agrees with the inventory. *The graph* gives every item each of its steps once,
in stage order, and an edited yml does not change what happens to bookings in
flight. *The page* lets through what the service accepts, posts one trip at a
time, shows the latest booking and its statuses as they end up, and an
inventory that is not stale for ever.

## 2. The modules

| Module | What it is | Extended by |
|---|---|---|
| `BookingSaga` | One booking: every orchestrator handler, statement by statement, the agents as its environment, the failures | `MCBookingSaga`, `BookingSaga_proofs` |
| `BookingLifecycle` | The abstract promise: how the statuses of a booking and its rows may change, without handlers, queues or failures | `INSTANCE` in `BookingSaga` |
| `BookingGraph` | The yml in use, `GraphService.generate` and the fan-out into rows, as operators | `GraphReload`, `MCBookingSaga` |
| `GraphReload` | One booking across a restart with an edited yml, every handler evaluated under the graph of the day | `MCBookingGraph`, `GraphReload_proofs` |
| `RetryRouter` | Copies of messages between worker queues, retry inbox, delay queues and DLQ | `MCRetryRouter`, `RetryRouter_proofs` |
| `Allotment` | One inventory, several bookings' items and the competitor, with every failure of a command or an answer | `MCAllotment`, `Allotment_proofs` |
| `StepAgents` | The agents that only look (availability, fraud, payment, notify): one handler shape, its queue, the failures around it | `MCStepAgents`, `StepAgents_proofs` |
| `StepContract` | The abstract environment `BookingSaga` assumes of its agents | `INSTANCE` in `StepAgents` |
| `BookingPage` | The confirmation page over an `INSTANCE` of `BookingLifecycle` | `MCBookingPage`, `BookingPage_proofs` |
| `BookingApp` | The application around that page: trip form, POST, catalog and its reloads, several bookings one after the other | `MCBookingApp`, `BookingApp_proofs` |
| `FiniteSums` | Lemmas about the sum of a function over a finite set | `Allotment_proofs`, `RetryRouter_proofs`, `GraphReload_proofs` |

### BookingSaga

The variables `booking`, `deadline` and `step` are columns; `dispatched`,
`completed`, `compensate` and `compensated` count the copies in the queues;
`sent`, `undone`, `pauses`, `accepted` and `failures` are history variables that
no guard of a handler reads.

An *actor* is one invocation of a handler. `pc[a]` names the statement it awaits
next and `work[a]` the rows it read or claimed. Actors are the `POST` request
(`Publisher`), the completion handler of each row, decision requests (`Client`)
and sweeps (`Sweep`). A completion handler can be named by its row because the
compare-and-set of `applyCompletion` lets one completion per row through; those
that lose it return at once.

| Action | Code |
|---|---|
| `CreateBooking`, `CreateRows`, `ClaimFirstStage` | `BookingService.publish` |
| `ApplyCompletion` | `StepCompletionService.applyCompletion` |
| `MaybeAdvance` / `StageVerdict` | the read and the decision of `maybeAdvance` |
| `PauseForDecision`, `CancelBooking`, `FailPendingSteps` | `pauseForDecision`, the two updates of `cancelBooking` |
| `AdvanceFromStage`, `TakeMarkedItems`, `DispatchSteps`, `FinalizeBooking` | `advanceFromStage` and what it calls |
| `RejectAwaitingBooking`, `CompensateSuccessfulSteps`, `ClaimCompensations`, `DispatchCompensations` | rejection and saga compensation |
| `Decide`, `AcceptPartial`, `ExpireDueDecisions`, `DeadlinePasses` | decision endpoint, sweep, clock |
| `Work`, `Undo` | an agent answers a dispatch, or a compensation command |
| `WorkLost`, `WorkRedelivered`, `UndoLost`, `CompletionDeadLettered`, `CompensatedDeadLettered`, `HandlerFails`, `Crash` | the failures, each allowed by its kind in `Faults` |

`Promise.all` over several statements is modelled as one step when all of them
succeed and as any subset when one throws; the publishes of `dispatchSteps`
go out one at a time in any order. The agents are open: any dispatch may be
answered with success or failure. `Work` also stands for the retry router: that
a dispatch gets its answer through any number of retries is the subject of
`RetryRouter`, and its duplicates reach the saga as `WorkRedelivered`. A sweep
that rejects several bookings is seen from one of them.

### BookingLifecycle

What a client that polls `GET /bookings/:id` may rely on: a stage begins only
when every row of earlier stages is cleared (succeeded, or failed in the
`all_or_ask` stage after an acceptance), the client is asked at most once and
only when the outcome is mixed, a booking fails only for a reason, rows are
undone only after it failed, and a final status is final. `BookingSaga` implements it
with the identity mapping on `booking`, `step` and `accepted`
(`LifecycleSpec`); everything else about handlers and queues maps to stuttering.

### BookingGraph

`Steps` and `Stages` transcribe the yml, `Generate` sorts the stages, keeps the
steps of the booked products and the shared ones and drops empty stages,
`Placements` expands each step into one row per item in `stepIndex` order.
The code's stable sort, `filter` and `flatMap` are written by rank, so that the
provers can reason about them: `Listed` gives a set in an order, its k-th element
being the one that k - 1 others precede. `EarlierStages` is the comparator of
the sort with its ties broken by the order of the file, `Chosen` the filter,
and the rows are those of the `Places` (stage, step, item) of the graph, taken
lexicographically.
`MCBookingSaga` *assumes* that the rows it checks are those `Placements` gives,
so that TLC evaluates the connection on each of its runs.

### GraphReload

`config` is the yml in force, `rows` the rows `Placements` made of it, `saga` the
statuses of the booking and its rows and the set of rows an agent works on.
The handlers run one after the other here; what they make of a booking
under a configuration is an operator (`Completed`, `Accepted`, `GivenUp`, with
`Advanced`, `Undone` and `Finalized` beneath them), so that the same step can be
evaluated under two configurations. The operators keep the places where the
code looks a stage or a step up in the new graph: `findIndex` gives -1 for a
stage that is gone, so that the *first* stage is taken for the next one
(`NextStage`); rows are claimed before their steps are looked up, and a missing
step throws and leaves them `in_progress` (`Advanced`); `generate` throws for a
product the yml no longer knows, after the status of the row or of the booking was
written (`Supports`); the rows to undo are chosen by the compensate actions of the new graph
(`Undoable`). `born` and `strayed` are history: the configuration of creation, and
whether a later one gave *this* booking another graph. `Publish` starts the literal
stage 0.

`Ymls` is what the schema of the yml checks, together with the existence of the
steps that a stage names. `Authored` is what neither schema nor code
checks and the yml in use keeps: no two stages with one number, no step listed twice,
one asking stage at most. The handlers find a stage by its number, so with two
of one number they would take the rows of both for each.

### RetryRouter

A copy is a message together with the number of rejections in its `x-death`
header. Router invocations (`Slot`, bounded by `prefetchCount`) take a copy from
the inbox, publish with confirmation and acknowledge last; `RouterFails` may
interrupt them anywhere and puts the copy back. Messages from queues without a
primary route (`Foreign`: compensation commands, completions) are archived. The
length of a delay is left out: a delay only ends.

### Allotment

`left` is `seatsLeft` or `roomsLeft`, the two agents being the same code up to
names. The rows follow the orchestrator's compare-and-set rules, and any
successful row may be given up. `held` and `other` are history variables: how
often a row's units were taken less how often they were given back, and what the
competitor took. The competitor computes what to take from a read and
books later with an all-or-nothing update; `MarkedItemsFail` says that it
misses its purpose only if another item moved the inventory.

| Action | Code |
|---|---|
| `ClaimStage`, `LookAtInventory`, `BookAsOtherCustomer`, `DispatchStep` | `advanceFromStage` with `takeMarkedItems` and `publishStep`, for one row |
| `Reserve`, `Release` | `handle` and `handleCompensate` of the agents, with `reserveSeat` and `releaseSeat` |
| `ApplyCompletion`, `CompensateStep`, `ApplyCompensated` | the consumers of the answers, and the claim and command of a release |
| `DispatchFails` (`crash`) | the process dies, the competitor throws, or the publish fails (it is only logged): the row is claimed and never dispatched |
| `ReserveUnanswered` (`loss`) | the agent acknowledges before it publishes, and the answer is lost |
| `ReserveGivenUp` (`giveup`) | the query throws on every delivery, and the retry router answers `failed`, whether or not the last update was committed |
| `ReleaseUnanswered` (`loss`) | a release that throws, before or after its commit, is archived without a retry; or its result is lost after the acknowledgement |
| `CompletionArchived`, `CompensatedArchived`, `CompensateStep(i, FALSE)` (`loss`) | an answer whose statement throws is archived; a command whose publish fails is logged |
| `ReserveRedelivered`, `ReleaseRedelivered` (`redelivery`) | the update took effect, with or without an answer, and the command comes again |

Two of these make a delivery *misreport* its update: one that is redelivered, and one that
is given up although its last update was committed. What is then missing from the
inventory, or in it twice, no row shows. `misreported` records those items;
`InventoryMatchesRows` says that without any of them the inventory is explained
at rest: what is missing is what confirmed items and other customers hold, and what some
of the items hold whose row still says `in_progress` or `compensating`. Of these there
are no more than failures, since each failure leaves one item behind.

### StepAgents and StepContract

`queue`, `reading`, `decided`, `emitting` and `rejected` count the copies of each
dispatch by where they are; `Read` evaluates the queries, `Ack` is the
continuation up to `channel.ack`, `Emit` the publish that is awaited after it.
What each agent decides on is kept: any seat for a flight (`seatsLeft <= 0`
fails, the party size is not compared), all rooms for a hotel
(`roomsLeft < rooms` fails), the blacklist, the declined user. When a channel
closes the broker delivers its unacknowledged copies again and the running
handlers fail on the closed channel, unless an acknowledgement was already
written (`AckUnheard`): then the handler goes on to publish. The retry router
either retries or gives up; how often is `RetryRouter`'s subject.

`StepContract` has the three actions by which `BookingSaga` represents its agents
(`Work`, `WorkLost`, `WorkRedelivered`). `ContractSpec` shows that `StepAgents`
implements them, a dispatch being `dispatched` as long as any copy, handler or
rejected copy of it is left. So the environment the saga is checked in is the
one the handlers make. One crash may lose several answers at once, which the saga
sees as several `WorkLost`.

### BookingPage

The page composed with what the service promises: the variables `booking`, `step`
and `accepted` follow `BookingLifecycle!Next`, which stands for every handler,
every other client and every agent. `shown` is `confirmedBooking`, `timer` the
timeout of the polling effect, and `get[g]` how far the poll's GET and the
decision's GET are. `Show` is `setConfirmedBooking` with the effect it triggers:
clean up, then start a new timeout unless every row is terminal. `findById` reads
the booking and then its rows, in two steps between which the service goes on.
A request of the effect that was cleaned up is dropped, since its answer is ignored.

### BookingApp

`form`, `loading`, `confirmed`, `catalog` are the React states of `App.tsx`; `key`
stands for the statuses on display (`stepStatusKey`); `awaited` and
`deciding` are the POSTs and the decisions under way, `loads` the catalog
requests that were sent and the inventories that were read and are on their way
back. On the side of the service `order` is what was posted, `left` the inventory,
`progress` and `taken` what became of a booking, in four moves: validated and
stored (`Publish` with `Valid`, the decorators of the DTO), reserved, settled,
given back. The inventory moves before the statuses do, as it does in the agents.

| Action | Code |
|---|---|
| `SelectFlight`, `ToggleRoom`, `ChangePassengers`, `ChangeRooms`, `EnterDates`, `EnterContact`, `Deselect` | the cards, steppers and fields of the form |
| `Book`, `PostAnswered`, `PostFails` | `handleBook` |
| `Show` | `setConfirmedBooking` and the effect that reloads the catalog |
| `Poll`, `Decide`, `DecisionAnswered`, `DecisionFails`, `Reset` | what `BookingPage` has in detail, reduced to the statuses that move the catalog |
| `ServeLoad`, `LoadAnswered`, `LoadFails` | `loadCatalog`, whose overlapping calls are not cancelled |

`mishap` is at once a bound (one per behaviour) and what the properties are
conditional on: a request failed, a catalog answer was overtaken by a later one, or
a late answer to a decision brought back a booking that was closed.

## 3. What is checked

| Run | Instance | Shows |
|---|---|---|
| `saga_failures` | 1 flight + 1 hotel (7 rows), 1 client, 1 sweep, one failure of any kind, fairness | `CommandedOnce`, `FailedIsFrozen`, types; the saga implements `BookingLifecycle` (`LifecycleSpec`); without a failure `Ends` and `Undoes` |
| `saga_races` | 2 clients, 2 sweeps, one redelivery | `RejectedIsUndone`, `NeverStranded` |
| `stale_pause` | 1 client, 1 sweep, no failure | violates `RejectedIsUndone` (finding 1) |
| `page` | 2 allotments and a payment, one failing request | `ConfirmedIsComplete`, `OfferIsSettled`, `PollsToTheEnd` |
| `page_stops` | the same, no failure, fairness | violates `ReleaseIsWatched` (finding 3) |
| `app` | 1 flight with one seat, 1 room type with two rooms, 2 bookings, 2 catalog loads, one mishap, fairness of loading | `NeverRefused`, `OnePostAtATime`, `LatestIsShown`, `CatalogCatchesUp` |
| `graph` | the yml with its stages in all 120 orders and 8 edited ones, up to 3 flights and 3 hotels; the bookings of at most 7 rows made under an edited yml are handled, with one restart | `OneRowPerStepAndItem`, `RowsAsExpected`, `IndexFollowsStages`, `StrandedOnlyByEdits`, `EndsAsGenerated`, `HarmlessEditsChangeNothing` |
| `graph_reload` | the 8 ymls, one item of each product, one restart | violates `EditsAffectNewBookingsOnly` (finding 4) |
| `router` | one dispatch, one command, 2 slots, 2 retries, 2 failures | nothing lost, retries exact, archive reported, duplicates bounded; everything drains |
| `agents` | a hotel check for 2 rooms, a flight check, a refused payment, 2 failures | the saga's assumptions about its agents (`ContractSpec`); `AnswersExplained`, `SuccessWasPossible`, `Settles` |
| `allotment` | demands 1, 1, 2 of 3 units, a competitor, 2 failures of any kind | `NoOversell`, `SuccessIsHeld`, `InventoryMatchesRows`, `MarkedItemsFail` |
| `double_delivery` | the same, one redelivery | violates `Idempotent` (finding 2) |

**Why the bounds suffice.** Seven rows are the smallest booking with both a
stage of one row and stages of two rows whose completions race; the mixed
outcome that leads to a decision needs exactly two allotments. Two clients and
two sweeps give every pair of racing decisions. One failure per behaviour
(`MaxFailures`) reaches every place a failure can strike; the router and the
inventory, being smaller, get two. Demands of 1, 1 and 2 of 3 units fit in pairs
and not together, so the last unit is contested and a failing item does not
exclude a later success. In `agents` two failures let a copy be rejected and
repeated, a flight check differ from a hotel check, and a crash strike several
dispatches. The page needs no more than two allotments and a row that
can fail after them. The eight ymls of `MCBookingGraph` have one edit of each
kind an operator can make (stages relisted, a product withdrawn, a stage removed
in the middle or at the end, all renumbered, the join changed, compensate
actions changed), and since any of them may be the yml at creation and any the one
after the restart, each edit is also seen in reverse. One restart is enough to
tell the graph of creation from that of the handlers. In `app` a single seat against a
quantity of two makes requests that cannot be had, two rooms let a stay be
changed, the second booking meets the leftovers of the first, and one mishap is
enough to disturb each property. With two retries the router passes through first
failure, retry and exhaustion. Deadlock is not checked: a booking that is
finished, a queue that is empty and a generated graph have nothing to do.

**Symmetry.** Only `saga_races` uses it, over its clients and over its sweeps,
which are interchangeable in `BookingSaga`; it checks invariants only.

**Fairness** (`BookingSaga!Fairness`, `RetryRouter!Fairness`,
`BookingPage!Fairness`, `StepAgents!Fairness`, `BookingApp!FairSpec`). What may be
relied on: a handler that is running goes on (Node schedules it again), each non-empty queue
is served (it has a consumer), the sweep comes (an interval timer), the deadline
passes and a delay ends. In the saga these steps are `Unaided`; one weak fairness
condition on all of them together is enough, because no behaviour takes infinitely many
of them. Nothing obliges a client to send a request, to decide,
or an agent to succeed, and no failure action is fair. A worker may
process or reject a copy; `EveryDispatchAnswered` holds even if it always
rejects, because the router gives up. In `StepAgents` the same holds of every queue, running handler
and rejected copy. The page's timers fire and its requests are
answered; nothing is assumed there of the service's progress, so
`PollsToTheEnd` only speaks of bookings whose rows come to an end. `BookingApp`
assumes only that requests for the catalog are served and answered.

**What `SpecAskedOnce` is.** Because of finding 1 a booking can be paused twice,
after which `RejectedIsUndone`, `FailedIsFrozen`, `LifecycleSpec` and the
liveness properties fail. They are checked on
`SpecAskedOnce`, the behaviours in which no handler pauses the booking a second
time, to show that this is the only thing that breaks them. `saga_failures`
uses it for all its properties; `TypeOK` and `CommandedOnce` are proved
for the full `Spec`.

**Failures and the saga's end.** `NeverStranded` and `RejectedIsUndone` are checked
without crashes, database errors and lost publishes, and `Ends` and `Undoes` speak of
behaviours without failures: the code has no recovery from those (`/TASKS.md` defers watchdog,
outbox and retries of compensation), a booking then simply stops. What does
hold across them, `CommandedOnce`, `FailedIsFrozen` and `LifecycleSpec`, is
checked with them.

### Findings

1. **A late handler pauses an accepted booking again** (`stale_pause`).
   `pauseForDecision` updates the booking `WHERE status = 'in_progress'`, which
   is true again after `accept_partial`. If the handler of the sibling allotment
   read its stage before the pause and updates after the acceptance, the booking
   waits for a decision while its payment is under way. A refusal then fails the
   booking and undoes what is `success` at that moment; the payment succeeds
   later and is never refunded.
2. **A redelivered reservation reserves again** (`double_delivery`).
   `reserveSeat` and `reserveRoom` record nothing per step; a dispatch delivered
   twice takes the units twice, although the row is given them once. `/README.md`
   line 22 speaks of idempotency. (For *releases*, `/TASKS.md` says that
   idempotency is missing; `NoOversell` shows what follows from it and excludes
   it by `OverReleased`.)
3. **The page stops watching too early** (`page_stops`). A poll that falls between
   failing the pending rows and claiming the compensations sees only terminal
   rows; the page stops polling and shows reserved seats as `success` for ever,
   while the intro dialog says that the user can watch them get released.
4. **An edited yml changes bookings in flight** (`graph_reload`). The yml's header
   promises that in-flight bookings keep a snapshot; no snapshot is stored
   and nothing compares versions. After a restart with another yml the handlers skip
   a stage that was added, start over for one that is gone, throw for a removed product, or
   ask, or do not ask, where the booking was created to do otherwise; `graph` shows that edits which leave the
   stages of its products alone are harmless.

## 4. What is proved

For all rows, stages, actors, retries and numbers of failures, with the
assumptions named in the modules, TLAPS proves the theorems below. Each
component has an inductive invariant (`IInv`, and for further results one built on
it), which is not among the properties of its run because the proofs establish it.

**Assumptions.** `GraphAssumption`; `ActorAssumption`: the kinds of actors are
disjoint; `FaultAssumption`; `UndoAssumption`: a stage that has something to undo
has one row or asks its client, which is how `booking-graph.yml` is written (the allotments
ask, payment is alone in its stage) and without which a sibling can succeed
after the booking failed and is never undone (the `ordering` hazard at
`stage-advancement.service.ts:65`);
`RouterAssumption`: dispatches and foreign messages are disjoint, `MaxRetries` is a
natural number, finitely many slots (`prefetchCount`); `InventoryAssumption`: finitely
many items, every demand at least one; `AgentAssumption`; `AppAssumption`: the bounds on quantities and on
catalog requests are at least one, since the form starts with one passenger and the page
with one request; `ReloadAssumption`: every yml is one of `Ymls` and `Authored`, with
any stages in any order and any edits between them. TLC evaluates all of them on the runs.

* `BookingSaga_proofs`: `TypeCorrect` (which includes that a deadline is stored exactly
  while a decision is awaited), `InductiveInvariant`,
  **`EveryCommandOnce`**: no row is dispatched or compensated more than once,
  under every failure the model knows.
  `CommandedOnce` alone is not inductive, since `DispatchSteps` publishes whatever its
  actor holds. `SentOnce` adds that a row some actor has claimed is no longer
  pending, has not been published, and is held by no other actor; `UndoneOnce`
  says the same of compensations. Each claim is one guarded update, so a row
  that was still `pending` (or `success`) cannot have been claimed before.
  `Opening` is needed for the first stage, which is claimed from `pending` by
  the request: nobody else runs before that. The proof has a
  lemma for each group of actions; most actions are covered by `HarmlessKeeps`,
  which says that an action that claims and publishes nothing and moves rows
  only forward preserves the invariant.
* `BookingSaga_proofs`, for `SpecAskedOnce`, again under every failure: `SagaInOrder`,
  **`ImplementsLifecycle`** (the refinement of `BookingLifecycle`) and
  **`FailedFrozen`**. A handler acts on rows it read some
  awaits ago, so the refinement needs to know that what it read still holds or no
  longer matters. `Informed` says that for each statement a handler may be about to
  execute: about to pause means the booking has failed or the outcome is mixed,
  about to advance means every row so far is cleared, and so on. It is
  preserved because nothing that was begun, succeeded, failed or was accepted is taken back
  while the booking has not failed (`Keeps`). `InOrder` says that stages are begun as a whole and
  in order; once the booking failed, `Blocks` keeps the row that stopped it, which tells what
  can have begun. Every action then is a step of the lifecycle or a stutter.
* `BookingSaga_proofs`, for messages that are redelivered but not lost and handlers
  that do not die (`Gentle`: `RedeliveryOnly`, and a first stage that has rows):
  `WorkHasADoer`, **`FailureUndone`** and
  **`NobodyStranded`**. Both properties speak of states at rest, which are not
  inductive at all. `WorkInv` says instead where the work is: a row in progress is claimed, in a queue or
  answered (`InFlight`); a booking in progress has a foremost stage with a row in progress or
  with a handler that is about to judge it (`Driven`); what a failed booking
  holds is about to be read, claimed or answered (`Undoing`). The delicate case is the
  last completions of a stage: of the handlers that settle rows at the same time one reads
  after all of them, and `Moving` counts every handler that has not read yet.
  Both conditions are needed: with losses or crashes the code has no recovery, and a graph without
  a stage 0 creates rows nobody starts.
* `RetryRouter_proofs`: `RouterTypeCorrect` (an invocation holds a copy exactly as long as
  it runs), `RouterInvariant`,
  **`NoDispatchLost`**, **`RetryPolicyKept`**, **`ArchiveReported`**,
  **`AnswersAreFew`**.
  `AnsweredOrUnderWay` is not inductive: a copy held by a slot that is about to
  acknowledge is under way and then gone. `LiveOrAnswered` counts only
  copies in a queue or in a slot that has not yet published. That a dispatch is
  only given up after enough rejections needs `HistoryIsTrue` (the count on a
  copy never exceeds what happened), and the archive property needs `SlotsHold`
  (a slot that is about to archive has published). `OneAnswerPerFailure` is a matter of
  counting: `AnswersAhead` adds the copies in the queues and the slots that have not yet
  published to the answers given; only a failure makes the sum grow, by one.
* `Allotment_proofs`: `AllotmentInvariant`, `AllotmentTypeCorrect`, **`SuccessHeld`**,
  `UnitsConserved`, **`NothingOversold`**, `OneThingAtATime`, **`NothingLeaks`**,
  **`MarkedFail`**.
  `SuccessIsHeld` is not inductive: the row learns of a reservation from a
  completion, and a release in between would take it back.
  `HoldsWhatItAnswered` says that until the orchestrator gives a row up no
  release of it is commanded, and that whatever answered `success` is held.
  `Conserved` balances what is on sale, held and booked by competitors; with
  `SuccessIsHeld` it gives `NoOversell`. `InventoryMatchesRows` also needs `Undisturbed`:
  an item none of whose deliveries misreported is in one of ten situations
  (`OneThingUnderWay`), or nothing of it is under way and its row is unsettled for
  good (`Stuck`), and there are no more items of the second sort than failures. Each failure
  leaves the items but one as they are, so it adds one stuck item at most
  (`FailureOfItem`). `MarkedItemsFail` needs that what the competitor saw is still there
  when it books unless another item moved (`Outbid`).
* `StepAgents_proofs`: `AgentsInvariant`, `AgentsTypeCorrect`, **`RepeatsExplainAnswers`**,
  **`RefusalsStand`**, **`AgentsImplementContract`**. Copies that change hands
  keep `Outstanding`, so `AnswersExplained` is inductive once the counts are
  natural numbers (`CountsOK`); that a success was possible is carried from the
  read through the acknowledgement to the publish (`SuccessIsBacked`), with
  `OffersRemembered` for what was on sale. For the refinement
  a dispatch is `dispatched` as long as `Outstanding` is positive; each
  action is shown to keep that (a stutter), to answer (`Work` if the last copy
  goes, `WorkRedelivered` if another is left) or to lose answers (`WorkLost`).
* `BookingPage_proofs`: `PageInvariant`, `PageTypeCorrect`, **`ConfirmedComplete`**,
  **`OfferSettled`**. The service reads the booking first and the rows later, so what the
  page shows is not a state the service was in. `Known` says that a status that was read
  is as true of the rows read after it (`Fulfilled`: all rows successful if it says confirmed,
  all but some of the asked stage if it says partially confirmed), which rests on two facts of
  `BookingLifecycle`: a booking is confirmed only for rows of which that is so, and an
  outcome is only taken back by a failure, which does not follow a confirmation.
* `BookingApp_proofs`: `AppInvariant`, `AppTypeCorrect`, **`FormMatchesService`**,
  **`PostsOneAtATime`**, **`ShowsTheLatest`**. `OnePostAtATime` needs that the
  button stays disabled and nothing is on display while a POST is awaited, and
  that trips are numbered in order (`OneAtWork`, `InOrder`); `NeverRefused` needs that
  no edit of the form makes a quantity less than one (`FormOK`). The type invariant needs that the
  catalog requests are a sequence and that those sent and those read are bounded together.
* `GraphReload_proofs`: **`NoDuplicateRow`**, **`RowsComplete`**, **`IndexOrdered`**,
  **`HarmlessEdits`**, **`Stranding`**, **`Endings`**, for any ymls, requests and
  number of restarts.
  A list made by rank goes through its set in order and once
  (`ListedInOrder`, `ListedOnce`); applied to stages, steps and places this gives
  what `generate` and `publish` make (`GenerateIs`, `PlacementsAre`), and `RowsOfBorn`
  keeps it while the booking lives: its rows are those of the yml it was created under.
  Duplicates would be one place twice, since no step is listed twice. For
  `HarmlessEdits` two ymls with the same relevant stages must give the same graph:
  the stages of each, taken in ascending order, are one set of
  definitions, and a set has one ascending order (`OneAscendingOrder`, an induction over
  the positions made first-order as in `FiniteSums`); handlers that see the
  same graph do the same (`SameHandled`). `Stranding` and `Endings` speak of single
  statuses and are not inductive. `InPhase` says instead that, edits of its graph apart, a booking is in one of the
  phases its graph knows: before its first stage (if there is no stage 0), at stage `k` or
  waiting there with every earlier stage passed and every later one
  pending, done, or failed. `Passed` allows failed rows in an asking stage only, after
  an acceptance; a failed booking has nothing left to undo but what a
  stage that does not ask left running.
* The lemmas of `FiniteSums`: the sum of a function over a finite set is what one expects (`SumSplit`,
  `SumChange`, `SumMonotone`, ..). The sum is a fold that takes the elements in an arbitrary order, so
  even adding one element needs that the order does not matter (`AnyOrder`).
  The induction is made first-order by counterexample: the set of sizes of finite
  sets for which a fact fails would have a least element.

**Only model-checked.** Every liveness property (`Ends`, `Undoes`, `Drains`,
`EveryDispatchAnswered`, `Settles`, `PollsToTheEnd`, `CatalogCatchesUp`), since
neither fairness nor `ENABLED` is within the prover's reach; what they would need of
safety is proved for the saga (`WorkHasADoer`) and the router (`NoDispatchLost`). Theorems state every other
property of the passing runs.

## 5. What is not modelled

* A missing item, room or booking in the agents' lookups: the rows are written
  before the dispatch and never deleted.
* The shape checks of the zod schema when the yml is parsed; a yml that fails them
  stops the start.
* `FlightBooking` and `HotelBooking` rows (written once, only read), prices, response
  formatting, seed data, migrations, generated types: no state the saga or the
  page acts upon.
* On the page: search, tabs, the intro dialog, the demo checkboxes and rendering.
  A check-out before the check-in passes the form and the service alike and is priced
  as one night (`/apps/web/src/lib/format.ts`); no text of the repository says
  what should happen.
* Recovery from a crash, a lost publish or a failed statement: the code has none.
  The faults are injected and what holds across them is checked; that a
  booking comes to its end after one is not claimed. In the same way a user who
  repeats a POST whose answer was lost books twice, and a poll that fails is the last.
* RabbitMQ and PostgreSQL themselves: external, seen as counts of copies and as
  atomic statements.
* The numeric delay of a retry (capped at 2^31 - 1 ms) and malformed envelopes,
  which are archived like foreign messages.

## 6. Plan

Done, in this order: the saga and its lifecycle, the graph, the retry router,
the inventory, the page, the agents, the edited yml, the application around the
page; the proofs of single dispatch, of the router, of the agents and
their contract, of the inventory's answers and of the application; then the
refinement of `BookingLifecycle`, what the saga leaves when it comes to rest, the sums
behind the inventory and the router's answers, the page, the remaining types, and
the graph with what its edits do to a booking.

To do, the most important first:

1. Composition of `BookingSaga` with `Allotment`: two bookings, one inventory,
   the row rules of `Allotment` shown to follow from the saga; and of
   `BookingSaga` with `RetryRouter` through an abstract queue that answers
   each dispatch at least once.
2. The stale availability check before the reservation, across `StepAgents` and
   `Allotment`.
3. A saga of three items with the failures restricted, if it fits.
4. Proofs: what comes with 1 and 2; and for the liveness properties that have none
   yet, the safety they rest on (for the page and the catalog, that whenever something is
   still to be shown a timer or a request is under way).
