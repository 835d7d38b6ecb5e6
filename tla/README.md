# Verification of OptiFlow AI

OptiFlow AI turns a manager's goal ("clear the critical network incidents")
into a plan that assigns incidents to specialists, waits for the manager's
approval, and executes the plan against a set of tool services.  This directory
holds TLA+ models of the parts of the repository in which order, concurrency
and failure decide whether the result is right, the TLC configurations that
check them on small instances, and theorems proved with TLAPS for every
instance.

- [Inventory](#inventory)
- [Plan](#plan)
- [The modules](#the-modules)
- [The runs](#the-runs)
- [Bounds](#bounds)
- [Fairness](#fairness)
- [Proofs](#proofs)
- [What the code does not keep](#what-the-code-does-not-keep)
- [Not modelled](#not-modelled)

To check a run: `tlc -config SagaFaults.cfg MCSagaExecution.tla` (the other
configurations and their modules are paired in `PROJECT.json`).  To check the
proofs: `tlapm SagaExecutionProofs.tla`, and so on.

## Inventory

### Components, their state and operations

| Component | State | Operations | Correct when |
|---|---|---|---|
| Decision workflow, `core-api/app/agent` and the run endpoints of `main.py` | rows `agent_runs`, `graph_checkpoints`; the `AgentState` each background task carries | create, approve / reject / modify, clarify, cancel; one step per graph node | nothing executes without approval; what executes is what was approved; replanning ends; a run at rest can be resumed or is final |
| Saga, `agent/nodes/execute_saga.py` | locals of the coroutine; the records it leaves in three services | reserve, request, poll, confirm, assign, patch; compensate; roll back | bookings have the specialist's consent; assignments are booked; success is complete; failure is undone |
| Audit log and event stream, `agent/persistence.py`, `agent/events.py`, `/events` | rows `run_events`, a lock per run, a queue per connection | save and publish, commit or roll back, connect, deliver | no gaps, the events of a session numbered apart; every client sees each event once, in order |
| Workforce service, `tools/workforce-service` | specialists (capacity, workload, availability), reservations | create, confirm, cancel, read, release, overrides, lazy expiry | no overbooking; one active reservation per specialist and incident; final statuses final |
| Communication service, assignment requests | requests, configured responses | create, list, get, respond, queue a response, lazy expiry | final statuses final; one-time responses used once |
| Communication service, notifications and failure modes | notification rows, one failure mode per operation | create, list; set, apply once | one notification per key; an acknowledged one is there as it was sent; a one-time failure ends |
| Incident service | incidents (status, assignee, run) | create, assign, change status or fields, resolve, load | legal transitions; updates of different columns do not lose each other; an incident has one row |
| CRM service | customers | create, update, load, read | - |
| Execution verification, `app/execution` | none | three parallel reads and a decision table | the recommendation is true although the three answers are of three moments |
| Optimizer | excluded pairs, over the rounds of a run | CP-SAT or greedy search, next round | skills, capacity and refusals are respected; no work is left undone that somebody could do |
| Goal interpretation, validation, LLM providers | none | text to objectives | ambiguity asks, nonsense fails safe |
| LLM settings | a row and an in-memory snapshot | save, disconnect, load at startup | snapshot and row agree; a disconnected provider stays off |
| Evidence planning | none | objectives to tools | - |
| Preference memory and recommendation | decision statistics, a lock of the process | record, recommend | counters agree with the audit log; a preference outweighs little |
| Simulation timeline and event engine | runs, event history, notification outbox | start, pause, resume, stop, reset, advance, inject, acknowledge | each event dispatched once, none skipped; changes are announced; requests end |
| Explanation, presentation, demo, shared packages, frontend | none that matters here | - | - |

### Interaction

The core spawns a background task per accepted call.  Tasks of one run share
the database rows and nothing else ties them to each other.  A node commits
once; events are published to connected streams inside that transaction.  The
saga calls the services over HTTP, each with a session and a transaction of its
own, and knows a call's effect only by its answer.  The services never call
each other: a reservation, the request for it and the incident's assignment
agree only because the saga makes them agree.  Specialists (or configured
responses), operators and the simulation act on the services at any time.

### What is hard

- several tasks of one run, each with its own copy of the state, and a
  checkpoint table whose order is that of insertion;
- a saga without a log of its own: an exception, a lost answer or a crash
  leaves records behind that the next attempt meets under the same ids, and
  ids keep only eight characters of their parts;
- services whose handlers read outside the write lock and write later;
- expiry that is evaluated lazily, when somebody looks;
- events published before they are committed, and a subscription that starts
  after the history was read;
- transactions of the simulation that hold row locks while they call services
  whose effects a rollback does not undo;
- answers of several services that are of different moments.

Every place where this bites is a hazard in `PROJECT.json`, with its line and
the properties that watch it.

## Plan

Done, most important first:

1. `WorkforceReservations`, `AgentRun`, `RunEvents`, `AssignmentRequests`,
   `SagaExecution`, each with an MC module, runs and a proof module.
2. `BookingPromise`, what an execution promises, and `SagaBooking`, the
   refinement mapping by which the saga implements it; checked and proved.
3. `ExecutionVerification`, composed with `BookingPromise` instead of the saga;
   checked and proved.
4. `Simulation`: the timeline, the event engine and its transactions, with
   liveness; checked and proved.
5. `Optimizer`, `PreferenceMemory`, `LlmSettings`: the rest of the core that keeps
   state or decides; checked and proved.
6. `IncidentRecords`, `FailureModes`, `Notifications`: the rest of the services
   that a run depends on; checked and proved.
7. That the best plan of CP-SAT leaves out no more than it must, for weights in
   which the penalty outweighs what the profile charges for the work; checked
   and proved.
8. `SagaVerdict`, the execution as the graph sees it, one step with three
   outcomes, and that the saga implements it; checked and proved.

Worth doing next: the route of the graph that simulation mode takes, and a saga
for each task of a run (below) instead of one per run.

## The modules

| Module | Models | MC module | Proofs |
|---|---|---|---|
| `AgentRun` | graph nodes, routes, checkpoints, manager calls | `MCAgentRun` | `AgentRunProofs` |
| `SagaExecution` | `execute_saga` with the three services it writes to | `MCSagaExecution` | `SagaExecutionProofs` |
| `BookingPromise`, `SagaVerdict`, `SagaBooking` | what an execution promises the services and the graph; how the saga is read as each of them | `MCSagaExecution` | `SagaBookingProofs` |
| `RunEvents` | `save_run_event`, publisher, stream endpoint | `MCCoreApi` | `RunEventsProofs` |
| `WorkforceReservations` | reservation and specialist handlers | `MCWorkforceReservations` | `WorkforceReservationsProofs` |
| `AssignmentRequests` | assignment request handlers | `MCAssignmentRequests` | `ServiceProofs` |
| `FailureModes` | the failure mode of the communication service | `MCAssignmentRequests` | `ServiceProofs` |
| `Notifications` | creation of notifications | `MCAssignmentRequests` | `ServiceProofs` |
| `IncidentRecords` | handlers of the incident service | `MCAssignmentRequests` | `ServiceProofs` |
| `ExecutionVerification` | `POST /runs/{id}/execution/verify` | `MCCoreApi` | `CoreApiProofs` |
| `Optimizer` | CP-SAT and greedy planning over the rounds of a run | `MCCoreApi` | `CoreApiProofs` |
| `PreferenceMemory` | learning from decisions, ranking plans | `MCCoreApi` | `CoreApiProofs` |
| `LlmSettings` | settings row and snapshot | `MCCoreApi` | `CoreApiProofs` |
| `Simulation` | timeline, event engine, outbox | `MCSimulation` | `SimulationProofs` |

`PROJECT.json` maps every definition to the lines it stands for.

**AgentRun.**  A task is a coroutine with its `AgentState` (`ctx`) and the node
it runs next.  A node commits once, so it is one step; nodes that neither write
a shared row nor choose a route are folded into the next one that does.
`row` is `agent_runs.status`; `saved` holds one checkpoint per node name, as
the table does, and `newest` is the row `load_last_checkpoint` picks: the one
inserted last, since an update keeps `created_at`.  A plan is represented by
what it was computed from: the version of the enterprise data and the number of
replannings.  A manager's call reads the status in one step and acts in a
second one.  A reply to a question is words or nothing (`Replies`): either takes
the approval in the checkpoint back, but only words settle the question
(`clarified`), so `ClarifiedTaskGoesOn` speaks of words.  `Environment` says what may happen around the workflow:
cancellation, dying tasks, decisions while a task is walking, modifications.
The saga is one step with three outcomes; `SagaExecution` is its detail, and
`SagaVerdict` says what the two agree on.

**SagaExecution.**  `saga[r]` holds the locals of the coroutine of run `r`;
`step` is the call it makes next.  One service call is one step: the guards of
the service (`Accepts`) and its effect (`ReservationAfter`, `RequestAfter`,
`IncidentAfter`).  `Call` takes effect and returns, or takes effect and loses
its answer, or is followed by a failing event write; `Refused` has no effect
and raises; `Raised` is the `except` branch.  `Compensate` is the rejected or
timed-out branch, `CancelCreated`, `ResetUpdated` and `EndRollback` the
rollback, `Settle` the returned state, `Complete` the checkpoint of
`complete_run`.  `StartSaga` makes a plan of the evidence: the greedy optimizer
takes incidents somebody is assigned to as well (`Plannable`).  `Crash`, `Reapprove`
and the answer to a question between two rounds (`AskManager`) start another task,
which has the replan count and the exclusions of the newest checkpoint (`Resumed`)
and meets the records of the services as they are; what the rounds since that
checkpoint counted and excluded is lost, as the loop passes the gate without
saving.  `undone` remembers the runs that have begun to roll back or have cancelled
a reservation that was confirmed: a task that handles an assigned incident again
and gets no answer cancels the booking and leaves the incident assigned.  `Respond`, `ExpireRequest` and `ExpireReservation` are what the
services do meanwhile, `ResolveIncident` and `ReleaseWorkload` the two calls of
the simulation's `_resolve_ticket`.  `RunPart` and `IncidentPart` say what is
left of an id after `[:8]`, so that colliding ids are a choice of constants.
`Faults` names what may go wrong.  The services' inner concurrency is left to
their own modules.

**RunEvents.**  `save_run_event` takes the run's lock, reads the largest number
visible to its transaction, flushes the row, publishes it and releases the
lock; the commit or the rollback of the caller comes later.  A stream reads the
history and then subscribes.  A writer sees committed rows and its own.

**WorkforceReservations.**  SQLite starts a transaction at the first write.
Handlers whose first statement is the expiry update (create, confirm) are one
atomic step against a clock they read earlier (`late`); the others read rows
(`seen`, `held`, `target`) and write what they computed in a second step.

**AssignmentRequests.**  The same distinction: create, list and respond are
atomic, `get_assignment_request` reads, chooses an answer and writes it by
primary key, so its write may come after anything.

**BookingPromise and SagaBooking.**  The promise knows offers, works and
assignments and nothing of calls, ids or retries: work is held, asked for,
answered, booked on a yes to the same work, and an incident is assigned only for
work that is booked at that moment.  `SagaBooking` reads it off the services'
records (`Holds`, `Offered`, `Assignments`, `Withdrawn`) and instantiates the
promise with them; `KeepsBookingPromise` is its specification.  What the
simulation withdraws is the only exception the promise makes.

**SagaVerdict.**  The other side of the same execution: a plan without excluded
pairs is begun, and the graph gets one verdict on it.  Only a plan with work can
be refused or fail, which is what `AgentRun` writes as `SagaOutcomes`; a refusal
excludes one pair of the plan and starts a round (`NextReplanCount`), and nothing
else excludes or counts.  `Close` and `Pause` are the checkpoints of a run that ends
or asks, `Anew` the next task, which goes back to one of them as a whole.  `SagaBooking` reads it off the locals of `execute_saga`
(`Phase`, `PlanOf`) and what it returns; `KeepsVerdict` is its specification, and
`KeepsPromises` both.  In `AgentRun` two tasks of one run can execute sagas from
the same state, each with a verdict of its own; `SagaExecution` has one saga of a
run at a time.

**ExecutionVerification** EXTENDS the promise, so its services move in every way
the saga lets them, and in more.  `verify_execution` asks three services in
parallel: `Read` is one answer at any time, `Conclude` the decision table.
`undone` remembers that something the verified booking rests on was taken back
in between, `sound` that nothing contradicted it at the start; no guard reads
them.

**Simulation.**  One step is one statement group between two points where another
request can come in.  What a request has flushed but not committed is in `req`:
the rows are written at the commit, and `Holds`, `Claims` and `deleted` stand
for the row locks and unique keys that others wait for.  An UPDATE writes the
columns that differ from the row its request read (`Written`), so a request may
overwrite what was committed after its read.  A `SimulationError` is answered
and commits, any other exception rolls back (`Abort`); calls to the services
have their effect either way.

**Optimizer.**  CP-SAT is what its model says: `Feasible` are the constraints,
`Objective` the sum it maximises, and `Solve` allows every optimal plan, any
feasible one when the time limit cuts the search, and none.  The greedy
optimizer places one incident per step.  `Replan` excludes the refused pair and
puts what was confirmed meanwhile into the evidence of the next round.

**PreferenceMemory.**  A decision takes the lock, loads, counts, saves and commits
in five steps.  A load that fails answers with an empty memory (`Reads`): if the
query broke the transaction, the save fails; if not (a stored memory that does not
validate), the row is overwritten.  `lost` remembers the decisions of which that
leaves only the events, and the counters are compared with the others.  `Rank` is the
combined score, multiplied out so that it is an integer.

**LlmSettings.**  A save selects the row, writes and commits it, and replaces the
snapshot, each after an await; a disconnect starts from the snapshot and fails if
what is left does not validate.  A restart loads the row, or the environment if the
row is not `Readable`: another secret, another schema version (both are `Secrets`),
or settings that do not validate a second time.  `Unreadable` are lists of
credentials of the last kind (a label of blanks is accepted and stored stripped),
`Unsupported` those with a model that is checked only for the active provider.

**IncidentRecords, FailureModes, Notifications.**  Every handler reads in one step
and writes in another; an UPDATE changes the columns that differ from what was
read (`MergeColumns`) in the row with the primary key that was read.  `Reload`,
`LoadNotes` and `Load` replace the tables in between, and SQLite gives primary keys
again.  A notification may be loaded with any status, also with its delivery still
open (`loaded`).

## The runs

Runs that pass:

| Run | Question | Properties |
|---|---|---|
| `AgentRunAny` | Do overlapping decisions, cancellations and dying tasks ever lead to a saga nobody approved, to one beyond the replanning limit, to a second question, or to a wrong lesson? | `SagaNeedsApproval`, `ReplanLimitHolds`, `ClarifiedTaskGoesOn`, `RecordsOwnDecision` |
| `AgentRunOrderly` | If the manager decides only when asked and nothing fails, is a run at rest always settled, is a final status final, and does every task end? | `QuietRunIsSettled`, `ClosedStaysClosed`, `TasksEnd` |
| `SagaFaults` | Under every failure and in every order: consent, booking, complete success, and rounds and exclusions that agree? | `ConfirmedWithConsent`, `AssignedIsBooked`, `ExecutedIsBooked`, `EveryRoundExcludes` |
| `SagaOutages` | Over two planning rounds with refused calls and failing event writes: is a failed round released, do the sagas end, and do they implement the booking promise and the verdict? | `FailureReleasesRound`, `KeepsPromises` (`KeepsBookingPromise`, `KeepsVerdict`), `SagasEnd` |
| `RunEventsOverlap` | With two writing sessions and two streams: no gaps, no repeats, each session's events numbered apart and in order? | `NumbersSound` (`NoGaps`, `SessionNumbersUnique`), `DeliveredInOrder` (`NoDoubleDelivery`, `SessionEventsAscend`) |
| | Does a plan of either optimizer fit, and does it leave work undone that somebody could do? | `PlanSound` (`PlannerTypeOK`, `PlanFits`, `ConfirmedNotPlannedAgain`), `NothingLeftUndone` (`GreedyHadNoChoice`, `OptimalHadNoChoice`, `OptimalLeavesFewest`, `InfeasibleOnlyIfOverloaded`) |
| | Is what a verification recommends true, although its answers are of three moments? | `RecommendationTrue` (`ReplanMeansRefused`, `CompletedHadConsent`, `CompletedTogether`), `NoFalseAlarm` |
| | Do the counters agree with the audit log, and how much can a preference outweigh? | `CountersAgree` (`EveryDecisionCounts`, `ConfidenceInRange`), `PreferenceOutweighsAtMost` |
| | Which settings can be in use when administrators overlap, commits fail and the process restarts? | `SettingsSound` (`SettingsTypeOK`, `OnlySavedInUse`, `SnapshotFollowsRow`), `DisconnectedStaysOff` |
| `WorkforceConcurrent` | Which constraints survive every interleaving of two requests? | `OneActivePerPair`, `ClosedStaysClosed` |
| `WorkforceOneAtATime` | Is the accounting exact when requests do not overlap? | `AccountingExact` (`WorkloadCountsConfirmed`, `PendingFitsCapacity`), `OnlyTentativeExpires` |
| `RequestsConcurrent` | What do two concurrent GETs of assignment requests keep? | `OneTimeRuleAnswersOnce`, `ExpiredIsLate`, `FinalUnlessBeingRead` |
| | How many calls can a one-time failure hit? | `ModesSound` (`ModesTypeOK`, `OneTimeModeIsBounded`) |
| | What is a creator of a notification promised when another uses the same key or id? | `NotesSound` (`NotesTypeOK`, `OneNotificationPerKey`, `PromisesKept`, `PendingIsLoaded`) |
| | What survives of two updates of one incident, and of a load in between? | `RecordsSound` (`RecordsTypeOK`, `OneRowPerIncident`, `AssignmentFromOneRequest`), `UpdatesKeepOthers` (`ClosedIsFinal`, `OthersColumnsSurvive`) |
| `SimulationDay` | With starts, resets, advances and injected events overlapping, refused, lost and aborted: is an event dispatched twice, skipped, unannounced; do two runs become active; does a request wait forever? | `TimelineSound` (`TypeOK`, `NothingSkipped`, `ProcessedIsRecorded`, `OneActiveRun`), `OneDispatchPerKey`, `ChangeIsAnnounced`, `PriorityOnlyRaised`, `RequestsEnd` |

The names in parentheses are the parts of the property before them, each a
definition with a comment of its own.  The type invariants of the modules that
have a proof are theorems and are not checked by a run.

`RunEventsOverlap` and `RequestsConcurrent` check several modules in one run,
whose MC modules EXTEND them all.  The modules share no variable, so a state of
their product satisfies the properties of each exactly if its parts do; `part`
chooses which of them moves, which adds up their state spaces instead of
multiplying them.

Each property has at least one mutant, and one of several parts usually a mutant
for each part: a small change of one mapped definition (a dropped guard, a lost
assignment, an off-by-one) under which the same run finds the property violated.
Mutants are the definitions marked "Mutant:" and are used nowhere else.

Runs that find a violation are listed under
[What the code does not keep](#what-the-code-does-not-keep).

`CHECK_DEADLOCK FALSE` is set where the system really stops: calls, tasks and
events are used up, a saga is done.

## Bounds

- `AgentRun`: `Tasks` bounds the coroutines ever started (each used once),
  `Calls` the manager's calls.  Three tasks and two calls let a resumed task
  overlap with one that is still walking and with a decision that was read
  earlier; the orderly run needs four tasks for a clarification, a modification
  and an approval in a row.  `MaxReplan` is 1 instead of 5: the limit is
  reached and passed.  `MaxWorld` bounds how often the enterprise data changes.
- `SagaExecution`: one run, two incidents, two specialists: two
  allocations, one of which is finished when the other fails, and a second
  choice for the new plan.  `MaxReplan` 0 or 1 and `MaxPolls` 1 or 2 instead of
  5 and 5: a first and a last poll, a first and a last round.  A round adds a
  suffix to all ids and the exclusions, and nothing else.  `ResolveIncident`
  happens at most once per incident.  `SagaFaults` has one round and one poll
  so that all eight faults fit; two rounds, without crashes and repeated approval,
  are covered by `SagaOutages`.  All their properties but `SagasEnd` are also proved,
  for every bound, any number of runs and record ids that collide.
- `RunEvents`: `Events` bounds the log, four events, written in one fixed order
  since they are interchangeable (`NextEvent`); two writers and two clients, since
  every property relates at most two of either.
- `WorkforceReservations`: two overlapping requests, since every race is
  between one read and one write; three reservations, two of which compete for
  one incident (four over two specialists, one of whom is seeded with work,
  where requests do not overlap); capacity 1 or 2 so that it is reached.  Time
  is the step `Elapse`, so a clock needs no bound.
- `AssignmentRequests`: two requests, two GETs, one rule.
- `FailureModes`: two calls that can sleep together, two operators,
  `MaxConfigured` 2: a configuration before and one during a sleep.  Two
  endpoints, one of which a mode may leave alone.
- `Notifications`: two creations, two ids and two keys, whose legacy ids collide.
- `IncidentRecords`: two requests, which is every race between a read and a
  write; one incident id, so that creations compete for it, in a table of at most
  `MaxRows` 2 rows, loaded empty or with an assigned incident.
- `ExecutionVerification`: one verification of one offer; that incidents are
  assigned for other work does not need a second offer, since an incident that
  was withdrawn can be assigned for any work.  Its proofs are for any number.
- `Optimizer`: three incidents, two specialists, capacities 0 to 2 and loads 0
  or 1 (a specialist over capacity is among them), every relation of skills, the
  four profiles of the code with their real weights, and customers worth so much
  that one of them outweighs a whole penalty.  `MaxReplan` 1: two rounds.
- `PreferenceMemory`: two decisions, two profiles, `ColdStartRuns` 1; two sets of
  candidates, one where the preference decides and one where it is too weak.
- `LlmSettings`: two administrators, two providers, two secrets, and what is stored
  for a provider of four kinds: the environment's, another, one whose model is
  refused once it is active, and one that does not validate when it is read back.
- `Simulation`: two requests in flight, three in all (`MaxRequests`), two runs
  (`MaxRuns`): every pair of operations overlaps, before or after a third.  The
  timeline of three events has a disabled one in the middle and two for one
  incident; a fourth event is injected only, and may meet itself.  No event has a
  judge's idempotency key: that two ids share one is covered by the theorem
  `DispatchedOnce` only.

Symmetry is used only in runs without liveness properties, over values that
occur in no definition.

## Fairness

- `AgentRun!FairSpec`: weak fairness of each task's next node.  LangGraph goes
  on to the next node by itself and the event loop schedules every ready
  coroutine.  Nothing is assumed of the manager.
- `SagaExecution!FairSpec`: weak fairness of each run's saga step.  Every await
  in `execute_saga` returns, by an answer or by the HTTP client's timeout, and
  polling is bounded.  Nothing is assumed of specialists, expiry, the
  simulation or the start of a new saga.

- `Simulation`: strong fairness of each request's work.  A request that was
  accepted is run by the event loop, its calls return or time out, and PostgreSQL
  grants a row lock or a unique key in the order in which it was asked for, so a
  request that can go on again and again does go on.  Nothing is assumed of who
  sends requests.

## Proofs

All proofs are of the specifications as they are, for any value of the
constants that satisfies the `ASSUME`s of the module.  Those say:

- bounds are natural numbers; what is counted (events of the log, requests of the
  simulation, callers, the backlog, candidate plans) is a finite set;
- a stand-in for nothing ("nobody", `NoWriter`, `NoKey`, `NoOne`, `NoRow`, `None`) is
  none of the things it stands in for;
- what is put in is what the schemas let through: seeded workloads within
  capacity (`CapacityAssumption`), seeded tables with one row for an incident
  (`RecordsAssumption`), settings with a key for their active provider
  (`SettingsAssumption`), timelines without a repeated event and payloads of the
  event's type (`ScenarioAssumption`, `EventAssumption`).  An incident that is not
  there has the lowest priority, which is how the model writes that it has none.

TLC evaluates each of them in a passing run.

| Theorem | Says |
|---|---|
| `AgentRunProofs`: `TypeCorrect`, `SagaApproved`, `ReplanningBounded`, `ClarificationSettles`, `OwnDecision` | `TypeOK`, `SagaNeedsApproval`, `ReplanLimitHolds`, `ClarifiedTaskGoesOn`, `RecordsOwnDecision` |
| `QuietSettled`, `ClosedForGood` (under `Undisturbed`) | `QuietRunIsSettled`, `ClosedStaysClosed` |
| `SagaExecutionProofs`: `TypeCorrect`, `ConsentHolds`, `BookingHolds`, `ExecutionComplete` | `TypeOK`, `ConfirmedWithConsent`, `AssignedIsBooked`, `ExecutedIsBooked` |
| `FailureReleases` (under `AnswersArrive`) | `FailureReleasesRound` |
| `SagaBookingProofs`: `PromiseKept`, `VerdictKept`, `PromisesKept` | `KeepsBookingPromise`, `KeepsVerdict`, `KeepsPromises` |
| `RoundsExclude`, `RoundsRunOut` | `EveryRoundExcludes`; a task counts no more rounds than there are pairs of finitely many specialists and incidents |
| `RunEventsProofs`: `TypeCorrect`, `LogHasNoGaps`, `DeliveredOnce`, `SessionOrder`, `SessionNumbers`, `NumbersHold`, `DeliveryHolds` | `TypeOK`, `NoGaps`, `NoDoubleDelivery`, `SessionEventsAscend`, `SessionNumbersUnique`; `NumbersSound`; `DeliveredInOrder` |
| `WorkforceReservationsProofs`: `TypeCorrect`, `OneActive`, `ClosedForGood` | `TypeOK`, `OneActivePerPair`, `ClosedStaysClosed` |
| `AccountingStaysExact`, `ConfirmedNeverExpires` (under `Serialised`) | `AccountingExact`, `OnlyTentativeExpires` |
| `ServiceProofs`: `TypeCorrect`, `UsedOnce`, `ExpiresLate`, `FinalOtherwise` | `TypeOK`, `OneTimeRuleAnswersOnce`, `ExpiredIsLate`, `FinalUnlessBeingRead` |
| `NotesStaySound`, `ModesStaySound` | `NotesSound`, `ModesSound` |
| `RecordsStaySound`, `OthersKept` | `RecordsSound`, `UpdatesKeepOthers` |
| `CoreApiProofs`: `VerificationTypes`, `RecommendationRight`, `CompletedAtOnce`, `RecommendationsTrue`, `NoFailureReported` | `VerificationTypeOK`; `ReplanMeansRefused` and `CompletedHadConsent`; `CompletedTogether`; `RecommendationTrue`; `NoFalseAlarm` |
| `DecisionsCount`, `RatesInRange`, `CountersHold`, `PreferenceOutweighs` | `EveryDecisionCounts`, `ConfidenceInRange`, `CountersAgree`, `PreferenceOutweighsAtMost` |
| `SettingsStaySound`, `DisconnectedStay` | `SettingsSound`, `DisconnectedStaysOff` |
| `PlansStaySound`; `LeftOutHadToBe` (under `PenaltyDominates`) | `PlanSound`; `NothingLeftUndone` |
| `SimulationProofs`: `TimelineStaysSound`, `DispatchedOnce`, `ChangesAnnounced`, `PrioritiesRise` | `TimelineSound`, `OneDispatchPerKey`, `ChangeIsAnnounced`, `PriorityOnlyRaised` |

Four conditions are hypotheses of theorems and not of the models, since the
properties do not hold without them and the runs without them say so or leave
the property out:

- `Undisturbed`: the environment does nothing but modify.  The manager decides
  while the run waits, and nobody cancels, no task dies.  `AgentRunOrderly` is
  such an environment.
- `AnswersArrive`: no answer is lost, no cancellation fails, nothing crashes and
  no task asks the manager between its rounds (a task that starts again may meet
  reservations of a round its checkpoint does not count); calls may still be refused, events fail to be written and specialists answer as
  they like.  `SagaOutages` has such faults.
- `Serialised`: no operator overrides workload or capacity, and either clients
  only create and confirm, any number of them at once, or there is one request at
  a time.  `WorkforceOneAtATime` is such a service.
- `PenaltyDominates`: in every profile, what one incident more may cost, a context
  switch and a peak higher by one, is less than the penalty for leaving it out and
  what it earns.  The four profiles of `profiles.py` charge 57 at most and have a
  penalty of 10000, and nothing earns less than 0; the environment may override
  weights with others, for which nothing is claimed.  `MCCoreApi` has these profiles
  and TLC evaluates the condition there (`ProfilesAssumption`).

**AgentRun.**  `SagaNeedsApproval` is not inductive: a task at an earlier node
may carry an approval from its checkpoint.  `GateAt` says what each task's
decision, cause and counter can be at each node; in particular, saved states
may hold an approval but `Injected` overwrites it, and a counter above the
limit comes with an empty plan from `generate` on.  `OneAtATime` is what
`Undisturbed` buys: one task or one pending decision at a time, none in a closed
run, and the checkpoint of the gate at which a run without a task waits.

**SagaExecution.**  Three layers, each used by the next.  `TypeInv` adds to
`TypeOK` that a saga with a step is within its rounds (so its ids are ids), that
its allocation is in the plan, and that the polls left are positive while it
polls.  `ConsentInv` adds that where a saga is tells which records it has met:
after the reservation the record under its id carries its own payload, after
the request so does the request, and only an accepted request leads to
"confirm".  `ReservationSteps` and `RequestSteps` say what one step may do to a
record (a payload, once there, stays; an acceptance is final), which disposes of
all other actors at once.  `BookedInv` adds that the list to compensate holds the run's own
reservations, and that at "assign" the reservation is confirmed.  The proof
does not assume that ids differ: that payloads are compared is what makes
collisions harmless.

`ExecutionInv` says what the loop has behind it: as long as nothing was raised and
nothing is left to replan, every allocation that is not to be handled any more is
confirmed under its id, and the loop is left with none to handle.  `HeldInv`, for
sagas whose answers arrive, says that every active reservation of a run's round is
in the list `created` that the rollback works through, and that a failed saga has
emptied it.

**RunEvents.**  `Chained` says that every number a transaction can see, and the
one that follows the number read under the lock, is 1 or has its predecessor
among the numbers it can see; rows of one transaction are committed together, so
the committed log is chained as well.  `SentSound` says that what a client was
sent has been written and that a client that has not subscribed has an empty
queue.  `OwnBelow` says that the holder of the lock has read a number no smaller
than those of its own rows.  None of them needs unique numbers, which the code
does not keep.

**WorkforceReservations.**  `LateSound` says that a row which was late when a
request read its clock has left ABSENT and TENTATIVE for good, which makes the
stale clock of create and confirm harmless.  That a workload does not exceed the
capacity is a CHECK of the table and so a guard of every commit of the model, not
a property.  The accounting needs
`ReadsHold`: what a cancel or a read has read is still so when it writes, which is
where `Serialised` comes in.

**AssignmentRequests.**  `UsedUp` says that a one-time rule is inactive once it is
used and cannot be queued anew, `LateReads` that a GET about to write EXPIRED
found the request late.

**SagaBooking.**  `RefinementInv` adds to the three layers that a record without a
status belongs to no run, and that a saga about to assign has a confirmed
reservation unless the simulation has released it.  `TableChanges` lists the
ways in which one step changes the two tables, and each is shown to be a step
of the promise or a stutter (`StepRefines`); initial states map to the initial
state (`InitRefines`).

For the verdict, `VerdictOf` says what a saga under way knows of it: it has refused
one pair of its plan or none, it has failed only with a plan, and nothing is decided
while an allocation is handled.  Inner steps keep it and change nothing the verdict
reads (`InnerVerdict`); starting, settling, saving and starting another task are its
steps (`VerdictMove`, `MoveRefines`).  Since the plan avoids what was excluded, the
pair that a refusal adds is new, so exclusions count the rounds (`RoundsExclude`);
the same holds of what a checkpoint holds (`SavedExcludes`), so it holds of a task
that starts from one.  That is the argument behind the end of replanning in
`SagasEnd` under one approval, and it does not need `MaxReplan`; a run that crashes
again and again may go through the same rounds each time.  The proofs cover crashes,
questions, lost answers and repeated approval; the run has the faults under which
sagas end.

**ExecutionVerification.**  `Told` says what follows now from each answer that was
given, `StillSound` that a booking on its way stays on its way; both hold until a
step takes something back, and such a step sets `undone` in every verification
under way.  Consent and refusal are never taken back, so what rests on them
needs no such exception.  The proofs use the promise and not the saga: what the
saga does is covered by `PromiseKept`.

**PreferenceMemory.**  `Progress` says that the lock is held exactly while a
transaction is open and that a memory that was loaded and counted is what its read
answered, the row's memory or an empty one, and this decision.  What a recommendation gives up follows from the
counters being rates (`CountsRight`) and from arithmetic on the two ranks that the
choice compares (`ChosenIsClose`).

**LlmSettings.**  `RowIsNext`: whoever waits alone to replace the snapshot will
replace it with what the row says, also when the row does not validate again.  `KeptOff`: a disconnected provider is in no
settings on the way, and a request that met no other is the only one.

**Optimizer.**  A plan of CP-SAT fits by its constraints.  For the greedy loop,
`PassedByFull` says that an incident it has passed by found nobody with room and
that room is never given back in the loop; `PlaceLoad` counts the load.

That the best plan leaves out fewest (`BestLeavesFewest`) is an exchange argument.
Suppose a plan does more than the best one, p, and take the one among these that
differs from p on a smallest set of incidents (`ClosestExists`).  Where it does not follow
p, the specialist whom p has there is full, or it could follow and be closer
(`ElsewhereFull`).  So nobody has less work in it than in p (`NobodyHasLess`), all
incidents of p are done in it (`AllKept`), and it does exactly one more
(`OneIncidentMore`), since with two it could drop one, be closer and still do more.
One incident more means one context switch more and a peak higher by one at most
(`ChargesGrow`), so that the plan is better than the best (`CloserIsBetter`).  What a
plan earns is a sum over a set, a fold that the prover cannot unfold; `SumExists`
shows by induction over subsets that a function with the two equations of a sum
exists, and that the fold equals it (`EarnedAdds`).  The step of that induction is a
smallest subset without the property (`SmallestSubset`).

**Notifications, FailureModes, IncidentRecords.**  `NotesInv` adds to what is
promised only that creations carry what a client can send; a loaded row is an
exception to nothing but `PendingIsLoaded`.  `ModesInv` counts: hits
and sleeping calls together are never more than the callers, and a reported one-time
failure leaves the mode off until it is configured again.  `RecordsInv` says what an
update wants (`Wish`) and that pairs of specialist and run in the table and on their
way have been given by requests (`GivenTogether`); a column-wise UPDATE over an
unchanged row is the row the request wanted (`MergedRow`).

**Simulation.**  `TypeInv` holds more than types: every row is on its track
(`OnTrack`: what it has processed is what is enabled up to its position), and so is
every row that a request has read, whatever has been committed meanwhile.  That is
enough, because an advance writes position and processed events together and from
one row.  `RoomForRuns` keeps the ids of runs within the table while starts overlap.
`Claimed` is inductive because an insertion that waited for another one looks again.
`Raises` says that an escalation is above the priority it has seen.  `Sequential`
says what the only request in flight may rely on as long as none has overlapped
another.  How the table of runs is filled and timelines are searched rests on
lemmas on sequences; where an argument goes by the first or the best element, the
proof takes a least counterexample (`WFMin`), as the prover has no induction scheme
to instantiate.

Only model-checked:

- liveness (`TasksEnd`, `SagasEnd`, `RequestsEnd`), which is out of the prover's
  reach;
- the properties of the three runs below, which the code violates.

No operator of these modules is recursive.

## What the code does not keep

Each of these runs checks one statement of a document or a comment, and TLC shows
how the program departs from it.

| Run | Statement | What happens |
|---|---|---|
| `AgentRunReplanned` | approval is bound to the exact plan (`README.md:1203`) | a refused assignment leads to a new plan that is executed under the old approval |
| `SagaRollback` | incidents are reset to unassigned (`execute_saga.py:257`) | the service refuses the empty specialist id |
| `WorkforceLostUpdate` | `current_workload` counts confirmed work (`tools/workforce-service/README.md:147`) | a cancel writes a workload that is out of date |

The models have further behaviours that a reader of the code may not expect.
They are why some properties are stated as they are:

- a task that is still walking writes its next status over CANCELLED, so
  `ClosedStaysClosed` is checked where decisions do not overlap with tasks;
- `interpret_goal` resets MODIFY before the node that records decisions, so
  `RecordsOwnDecision` says only that nothing else is recorded;
- an event committed between a stream's history query and its subscription is
  not sent, and one that was published is not taken back by a rollback, so the
  delivery properties speak of order and repetition only;
- with two requests a read may write EXPIRED over a confirmation committed after
  it, so `OnlyTentativeExpires` is checked for one request at a time;
- a GET of an assignment request writes over an answer given after its read,
  which is the exception in `FinalUnlessBeingRead`;
- the request stays open when the saga stops polling, so it may be accepted
  when the reservation is cancelled; `ConfirmedWithConsent` goes the other way;
- the lock of `save_run_event` is released before its caller commits: two
  sessions whose transactions overlap can give the same number, although
  `persistence.py:112` calls the numbering transaction-safe, so numbers are said
  to be unique within a session only;
- a simulation that is started again reloads the services but keeps the event
  history: its events are found recorded, and nothing is applied again;
- overlapping requests of the simulation can leave two active runs, a COMPLETED
  run with pending events or with processed events that a reset removed from the
  history, and a notification without its event, whose id makes the event fail
  when it is sent again; `ProcessedIsRecorded` and `OneActiveRun` are about
  requests one after the other;
- a reset that fails after some services were loaded leaves the run RUNNING over
  them; an event with an invalid payload stops its timeline for good;
- a delivered callback replaces the status `PARTIALLY_APPLIED` of an event whose
  reservations could not be released by `NOTIFIED`, although
  `docs/dynamic-enterprise-simulation.md:219` says that such a failure is recorded;
- a repeated event that looked for the first before it was committed fails on the
  unique column, where `docs/dynamic-enterprise-simulation.md:154` says that the
  recorded result is returned;
- assigning another specialist to an assigned incident replaces the first one,
  where `docs/member-1-backend-integration.md:272` calls it a conflict;
- a crash between the resolution of an incident and the release of its
  reservations keeps the specialist booked;
- an escalation can lower a priority that another one raised after its read;
- two updates of an incident that overlap can mix the specialist of one with the
  run of the other and can reopen a closed one; after a reload a late update
  may change another incident, which was given the same primary key;
- a call that was asleep may switch off a mode that was configured meanwhile,
  and a configuration may lose columns to it;
- of two identical creations of a notification at once the second is answered
  409, and its delivery is simulated before that; keys that differ in case only
  get the same legacy id; the legacy endpoints do not apply the failure mode;
- a verification says WAITING when the reservation is pending, also when another
  component contradicts the booking for good;
- two disconnects at once can bring a provider back; a disconnect may make a
  provider active that was never tested, and fails when its model is not supported;
- stored settings that cannot be read fall back to the environment at a restart, and
  a provider that was disconnected there is back: after a changed encryption secret
  or schema version, or when a label of blanks was saved, which the schema accepts
  once and not again, so `SnapshotFollowsRow` and `DisconnectedStaysOff` except it;
- an empty reply to a question starts a task that asks again; a reply may also
  be resumed from an older checkpoint than that of its question, since a checkpoint
  that is written again keeps its place in the order;
- a preference memory that fails to load without breaking its transaction, because
  it does not validate, is overwritten by the next decision, and what was learned
  is lost while the audit log keeps the decisions;
- a run that is resumed after a crash has the count and the exclusions of its last
  checkpoint, which the rounds of a task do not save: a pair that refused can be
  asked again, and the limit of replanning counts anew;
- a resumed task may plan an incident it has assigned and booked already; if its
  polls then fail, it cancels the confirmed reservation and the incident stays
  assigned, so `AssignedIsBooked` excepts runs that have done so (`undone`);
- a notification that was loaded as PENDING stays so: no delivery is made for it,
  and a repeated creation under its key is acknowledged;
- the greedy optimizer plans incidents that are assigned already and leaves out
  those IN_PROGRESS, CP-SAT does the opposite; one specialist over capacity makes
  CP-SAT infeasible for everybody; the recommended plan is the one with the
  largest objective, although the objectives of profiles have different weights.

## Not modelled

- Goal text, language-model calls, evidence planning (a table), explanations,
  presentation: a choice of outcome.
- Metrics of a plan, and how many of several required skills a specialist has:
  the objective counts one.
- The learned constraint texts and the manager's summary of the preference
  memory, which are formatted from its counters.
- The route of the graph behind the enterprise monitor, which only simulation
  mode takes, with the coordinator's callbacks; the CRM service, to which a run
  never writes; the demo, which scripts calls that the models allow at any time;
  frontend and shared packages.
- Listings, health and status endpoints: reads.
- Reset and load-state of the workforce service and of assignment requests
  replace a whole database; those of incidents, notifications and failure modes
  are steps of their modules, and `Simulation` loads the services at any time.
