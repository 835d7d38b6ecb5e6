------------------------------ MODULE Simulation ------------------------------
(***************************************************************************)
(* The enterprise simulation of core-api (app/simulation): scenarios with  *)
(* a timeline of events, the run that walks along it, the event engine     *)
(* that applies an event to the services, and the event history and the    *)
(* notification outbox it keeps.                                           *)
(*                                                                         *)
(* Every HTTP request has a database session of its own (PostgreSQL, READ  *)
(* COMMITTED) that commits when the handler has returned: also after a     *)
(* SimulationError, which the routes turn into a response.  Any other      *)
(* exception rolls back.  What a request has flushed is invisible to the   *)
(* others, but its row locks and unique keys make them wait.  The calls to *)
(* the services take effect at once and are never rolled back.             *)
(***************************************************************************)
EXTENDS Integers, FiniteSets, Sequences, TLC

CONSTANTS
  Scenarios,      \* scenario ids
  Events,         \* event ids, of timelines and of judges
  Keys,           \* idempotency keys of judges
  Incidents,
  Specialists,
  Timeline,       \* Timeline[s]: the sequence of event ids of scenario s
  Enabled,        \* the enabled events
  NoKey,          \* "no idempotency key"
  Payload,        \* Payload[e]: kind of event, target and new rank
  InitialState,   \* InitialState[s]: the service rows of initial_state.json
  Callback,       \* TRUE iff SIMULATION_EVENT_CALLBACK_URL is set
  Modes,          \* the modes in which runs are started
  Requests,       \* HTTP requests that can be in flight together
  MaxRuns,        \* bound on the runs ever started
  MaxRequests     \* bound on the requests ever accepted

Kinds == {"NEW_TICKET", "RESOLVE_TICKET", "ESCALATE_PRIORITY", "CHANGE_FIELD",
          "CHANGE_WORKER_CAPACITY", "ENGINEER_ON_LEAVE", "ENGINEER_RETURNED",
          "INVALID"}
Ranks == 1..4                        \* PRIORITY_RANK
IncidentStatuses == {"ABSENT", "OPEN", "RESOLVED"}
Worlds == [incident: [Incidents -> IncidentStatuses],
           priority: [Incidents -> Ranks],
           booked: [Incidents -> BOOLEAN],
           available: [Specialists -> BOOLEAN]]

\* What the payload model of an event keeps of its target and its new value.
Payloads == [kind: Kinds, incident: Incidents, specialist: Specialists, rank: Ranks]
\* validate_consistency: the events of a timeline are ordered, and each occurs once.
Consistent(timeline) ==
  /\ timeline \in Seq(Events)
  /\ \A i, j \in 1..Len(timeline) : timeline[i] = timeline[j] => i = j

ASSUME ScenarioAssumption ==
  /\ \A s \in Scenarios : Consistent(Timeline[s])
  /\ InitialState \in [Scenarios -> Worlds]
  \* An incident that is not there has no priority: the lowest stands for it.
  /\ \A s \in Scenarios, i \in Incidents :
       InitialState[s].incident[i] = "ABSENT" => InitialState[s].priority[i] = 1
ASSUME EventAssumption ==
  /\ Enabled \subseteq Events
  /\ NoKey \notin Keys \cup Events
  /\ Payload \in [Events -> Payloads]
ASSUME SettingAssumption ==
  /\ Callback \in BOOLEAN
  /\ Modes \subseteq {"TIMELINE", "INTERACTIVE"}
  /\ MaxRuns \in Nat /\ MaxRequests \in Nat /\ IsFiniteSet(Requests)

\* load_initial_state posts to the services in this order.
LoadOrder == <<"crm", "workforce", "incident", "communication">>

RunStatuses == {"RUNNING", "PAUSED", "STOPPED", "COMPLETED"}
ActiveStatuses == {"RUNNING", "PAUSED"}
RunRows == [scenario: Scenarios, mode: Modes, status: RunStatuses,
            position: Nat, processed: SUBSET Events, pending: SUBSET Events]

\* An event's row: processing_status, changed_entities, idempotency_key.
Changes == {"changed", "released", "release_failed"}
AllKeys == Events \cup Keys \cup {NoKey}
EventRows == [status: {"APPLIED", "PARTIALLY_APPLIED", "NOTIFIED", "FAILED"},
              changes: SUBSET Changes, key: AllKeys]
NoRow == [status |-> "NONE", changes |-> {}, key |-> NoKey]
Notices == {"NONE", "PENDING", "DELIVERED", "FAILED", "ACKNOWLEDGED"}

VARIABLES
  run,       \* simulation_runs, in the order of started_at
  history,   \* simulation_event_history, by event id
  outbox,    \* simulation_notifications, by event id
  world,     \* the rows of the services the events read and write
  req,       \* per request: what it has read and where it is
  entered,   \* number of requests accepted
  overlapped \* history variable: two requests have been in flight together

vars == <<run, history, outbox, world, req, entered, overlapped>>
ledger == <<entered, overlapped>>
tables == <<run, history, outbox>>

Ops == {"none", "start", "reset", "pause", "resume", "halt", "advance",
        "inject", "acknowledge"}
Steps == {"idle", "stop", "load", "create", "read", "clear", "clearHistory",
          "status", "find", "insert", "look", "apply", "release", "record",
          "skip"}
Fresh == [op |-> "none", step |-> "idle", scenario |-> NoKey, mode |-> NoKey,
          run |-> 0, row |-> {}, event |-> NoKey, key |-> NoKey, loads |-> 0,
          seen |-> 0, failed |-> FALSE, changes |-> {}, deleted |-> {}]

Init ==
  /\ run = <<>>
  /\ history = [e \in Events |-> NoRow]
  /\ outbox = [e \in Events |-> "NONE"]
  /\ world \in {InitialState[s] : s \in Scenarios}
  /\ req = [q \in Requests |-> Fresh]
  /\ entered = 0
  /\ overlapped = FALSE

-----------------------------------------------------------------------------
(* Scenarios and runs                                                      *)

\* Mutant: The position after an event counts from the event list without the disabled.
NextPositionByOne(s, p) ==
  IF p < Len(Timeline[s]) THEN p + 1 ELSE 0

\* _next_event: the position of the next enabled event after p, or 0.
NextPosition(s, p) ==
  LET after == {i \in p+1..Len(Timeline[s]) : Timeline[s][i] \in Enabled}
  IN  IF after = {} THEN 0 ELSE CHOOSE i \in after : \A j \in after : i <= j

EnabledBetween(s, lo, hi) == {Timeline[s][i] : i \in lo..hi} \cap Enabled
EnabledUpTo(s, p) == EnabledBetween(s, 1, p)
EnabledAfter(s, p) == EnabledBetween(s, p + 1, Len(Timeline[s]))

NewRun(s, m) == [scenario |-> s, mode |-> m, status |-> "RUNNING",
                 position |-> 0, processed |-> {},
                 pending |-> EnabledAfter(s, 0)]

\* _active_run: the latest run that is running or paused, or 0.
ActiveRuns == {r \in 1..Len(run) : run[r].status \in ActiveStatuses}
ActiveRun == IF ActiveRuns = {} THEN 0
             ELSE CHOOSE r \in ActiveRuns : \A o \in ActiveRuns : o <= r

\* A flushed UPDATE holds the row until the transaction ends.
Holds(q, r) == req[q].run = r /\ req[q].step \in
                 IF req[q].op = "start" THEN {"load", "create"} ELSE {"clearHistory"}
Free(r) == \A q \in Requests : ~Holds(q, r)

\* A request enters: every handler first has the session of its own.
Enter(q, r) ==
  /\ req[q].step = "idle" /\ entered < MaxRequests
  /\ req' = [req EXCEPT ![q] = r]
  /\ entered' = entered + 1
  /\ overlapped' = (overlapped \/ \E o \in Requests \ {q} : req[o].step # "idle")
  /\ UNCHANGED <<tables, world>>

Move(q, r) == req' = [req EXCEPT ![q] = r]
End(q) == req' = [req EXCEPT ![q] = Fresh]

Start(q) == \E s \in Scenarios, m \in Modes, replace \in BOOLEAN :
  /\ Len(run) + Cardinality({o \in Requests : req[o].op = "start"}) < MaxRuns
  /\ ActiveRun # 0 => replace
  /\ Enter(q, [Fresh EXCEPT !.op = "start", !.scenario = s, !.mode = m, !.run = ActiveRun,
               !.step = IF ActiveRun = 0 THEN "load" ELSE "stop"])

\* The flush of STOPPED waits for whoever has written the row.
StopActive(q) ==
  /\ req[q].step = "stop" /\ Free(req[q].run)
  /\ Move(q, [req[q] EXCEPT !.step = "load"])
  /\ UNCHANGED <<tables, world, ledger>>

Reset(q) == \E s \in Scenarios :
  Enter(q, [Fresh EXCEPT !.op = "reset", !.step = "load", !.scenario = s])

\* load-state of one service deletes its rows and inserts those of the scenario.
Loaded(service, s) ==
  CASE service = "workforce" -> [world EXCEPT
         !.booked = InitialState[s].booked, !.available = InitialState[s].available]
    [] service = "incident" -> [world EXCEPT
         !.incident = InitialState[s].incident, !.priority = InitialState[s].priority]
    [] OTHER -> world

\* Mutant: A start that does not look for a run to stop.
StoppedNone(r) == run

Stopped(r) == IF r = 0 THEN run ELSE [run EXCEPT ![r].status = "STOPPED"]

\* A refused load is a SimulationError: the route answers it and what the
\* request had flushed is committed.
Load(q) ==
  /\ req[q].step = "load"
  /\ LET n == req[q].loads + 1
         loaded == Loaded(LoadOrder[n], req[q].scenario)
     IN  \/ /\ Move(q, [req[q] EXCEPT !.loads = n, !.step =
                 IF n < Len(LoadOrder) THEN "load"
                 ELSE IF req[q].op = "start" THEN "create" ELSE "read"])
            /\ world' = loaded
            /\ run' = run
         \/ /\ End(q)
            /\ world' \in {world, loaded}
            /\ run' = IF req[q].op = "start" THEN Stopped(req[q].run) ELSE run
  /\ UNCHANGED <<history, outbox, ledger>>

CreateRun(q) ==
  /\ req[q].step = "create"
  /\ run' = Append(Stopped(req[q].run), NewRun(req[q].scenario, req[q].mode))
  /\ End(q)
  /\ UNCHANGED <<history, outbox, world, ledger>>

ReadRow == IF ActiveRun = 0 THEN {} ELSE {run[ActiveRun]}

ResetRead(q) ==
  /\ req[q].step = "read"
  /\ Move(q, [req[q] EXCEPT !.step = "clear", !.run = ActiveRun, !.row = ReadRow])
  /\ UNCHANGED <<tables, world, ledger>>

\* Only columns that differ from the row the request has read are written.
Written(column, read, value) == IF read = value THEN column ELSE value

\* Mutant: A reset that leaves the run as it is.
ClearedNothing(r, read, s) == run

Cleared(r, read, s) ==
  LET row == run[r]
  IN  [run EXCEPT ![r] = [row EXCEPT
         !.status = "STOPPED",
         !.position = Written(row.position, read.position, 0),
         !.processed = Written(row.processed, read.processed, {}),
         !.pending = Written(row.pending, read.pending, EnabledAfter(s, 0))]]

\* The UPDATE and the DELETE of the notifications; others see them at the commit.
ClearRun(q) ==
  /\ req[q].step = "clear"
  /\ req[q].run # 0 => Free(req[q].run)
  /\ Move(q, [req[q] EXCEPT !.step = "clearHistory",
                              !.deleted = {e \in Events : outbox[e] # "NONE"}])
  /\ UNCHANGED <<tables, world, ledger>>

\* Mutant: The notifications are deleted after the history, not before.
ClearNoticesLast(q) ==
  /\ req[q].step = "clearHistory"
  /\ run' = Stopped(req[q].run)
  /\ outbox' = [e \in Events |-> "NONE"]
  /\ history' = [e \in Events |-> IF e \in req[q].deleted THEN NoRow ELSE history[e]]
  /\ End(q)
  /\ UNCHANGED <<world, ledger>>

\* Mutant: A TRUNCATE of the history, which waits for every open insertion.
ClearByTruncate(q) ==
  /\ req[q].step = "clearHistory"
  /\ \A o \in Requests : req[o].step \notin {"look", "apply", "release", "record"}
  /\ run' = Stopped(req[q].run)
  /\ outbox' = [e \in Events |-> IF e \in req[q].deleted THEN "NONE" ELSE outbox[e]]
  /\ history' = [e \in Events |-> NoRow]
  /\ End(q)
  /\ UNCHANGED <<world, ledger>>

ClearHistory(q) ==
  /\ req[q].step = "clearHistory"
  /\ run' = IF req[q].run = 0 THEN run
            ELSE LET read == CHOOSE x \in req[q].row : TRUE
                 IN  Cleared(req[q].run, read, req[q].scenario)
  /\ outbox' = [e \in Events |-> IF e \in req[q].deleted THEN "NONE" ELSE outbox[e]]
  /\ history' = [e \in Events |-> NoRow]
  /\ End(q)
  /\ UNCHANGED <<world, ledger>>

\* pause, resume, stop, and an advance that finds no event left.
TargetOf == [pause |-> "PAUSED", resume |-> "RUNNING", halt |-> "STOPPED",
             advance |-> "COMPLETED"]
ControlFrom == [pause |-> {"RUNNING"}, resume |-> {"PAUSED"}, halt |-> ActiveStatuses]

Control(q) == \E op \in DOMAIN ControlFrom :
  /\ ActiveRun # 0
  /\ run[ActiveRun].status \in ControlFrom[op]
  /\ Enter(q, [Fresh EXCEPT !.op = op, !.step = "status", !.run = ActiveRun])

WriteStatus(q) ==
  /\ req[q].step = "status" /\ Free(req[q].run)
  /\ run' = [run EXCEPT ![req[q].run].status = TargetOf[req[q].op]]
  /\ End(q)
  /\ UNCHANGED <<history, outbox, world, ledger>>

-----------------------------------------------------------------------------
(* Events                                                                  *)

Advance(q) ==
  /\ ActiveRun # 0
  /\ LET row == run[ActiveRun]
         next == NextPosition(row.scenario, row.position)
     IN  /\ row.mode = "TIMELINE" /\ row.status = "RUNNING"
         /\ Enter(q, [Fresh EXCEPT !.op = "advance", !.run = ActiveRun, !.row = {row},
               !.step = IF next = 0 THEN "status" ELSE "find",
               !.event = IF next = 0 THEN NoKey ELSE Timeline[row.scenario][next],
               !.key = IF next = 0 THEN NoKey ELSE Timeline[row.scenario][next]])

Inject(q) == \E e \in Events, k \in Keys \cup {NoKey} :
  Enter(q, [Fresh EXCEPT !.op = "inject", !.step = "find", !.event = e, !.key = k])

Acknowledge(q) == \E e \in Events :
  /\ outbox[e] # "NONE"
  /\ \A o \in Requests : e \notin req[o].deleted
  /\ outbox' = [outbox EXCEPT ![e] = "ACKNOWLEDGED"]
  /\ req[q].step = "idle"
  /\ UNCHANGED <<run, history, world, req, ledger>>

\* The committed rows that have the id or the key.
Recorded(e, k) == {o \in Events : history[o] # NoRow
                                  /\ (o = e \/ (k # NoKey /\ history[o].key = k))}

Find(q) ==
  /\ req[q].step = "find"
  /\ CASE Recorded(req[q].event, req[q].key) # {} ->
            IF req[q].op = "advance" THEN Move(q, [req[q] EXCEPT !.step = "skip"]) ELSE End(q)
       [] Payload[req[q].event].kind = "INVALID" -> End(q)
       [] OTHER -> Move(q, [req[q] EXCEPT !.step = "insert"])
  /\ UNCHANGED <<tables, world, ledger>>

\* The unique columns of a row that is inserted and not yet committed.
Claims(o, e, k) == /\ req[o].step \in {"look", "apply", "release", "record"}
                   /\ req[o].event = e \/ (k # NoKey /\ req[o].key = k)
\* Mutant: Without the unique columns the flush waits for nobody.
UnclaimedAlways(q) == TRUE

Unclaimed(q) == \A o \in Requests : ~Claims(o, req[q].event, req[q].key)

\* The flush waits for a claim of the same id or key; a row that has been
\* committed meanwhile is an IntegrityError, which rolls the request back.
Insert(q) ==
  /\ req[q].step = "insert" /\ Unclaimed(q)
  /\ IF Recorded(req[q].event, req[q].key) = {}
       THEN Move(q, [req[q] EXCEPT !.step = "look"]) ELSE End(q)
  /\ UNCHANGED <<tables, world, ledger>>

What(q) == Payload[req[q].event]
StatusOf(q) == world.incident[What(q).incident]

\* A call answered with an error or not at all: the event is recorded as failed.
Fail(q) == Move(q, [req[q] EXCEPT !.step = "record", !.failed = TRUE, !.changes = {}])

\* Mutant: An escalation that is not compared with the priority it reads.
LookAtNothing(q) ==
  /\ req[q].step = "look"
  /\ Move(q, [req[q] EXCEPT !.step = "apply", !.seen = world.priority[What(q).incident]])
  /\ UNCHANGED <<tables, world, ledger>>

\* The first call of a handler reads; some events are then already true.
Look(q) ==
  /\ req[q].step = "look"
  /\ LET p == What(q)
         aims == CASE p.kind \in {"ENGINEER_ON_LEAVE", "ENGINEER_RETURNED"} ->
                        world.available[p.specialist] # (p.kind = "ENGINEER_RETURNED")
                   [] p.kind = "RESOLVE_TICKET" -> StatusOf(q) # "RESOLVED"
                   [] OTHER -> TRUE
         exists == p.kind \in {"RESOLVE_TICKET", "ESCALATE_PRIORITY", "CHANGE_FIELD"}
                     => StatusOf(q) # "ABSENT"
         refused == p.kind = "ESCALATE_PRIORITY"
                      /\ p.rank <= world.priority[p.incident]
     IN  \/ Fail(q)
         \/ /\ exists /\ ~refused
            /\ Move(q, [req[q] EXCEPT !.step = IF aims THEN "apply" ELSE "record",
                        !.seen = world.priority[p.incident]])
  /\ UNCHANGED <<tables, world, ledger>>

\* What the services do with the second call.
Accepts(q) ==
  CASE What(q).kind = "NEW_TICKET" -> StatusOf(q) = "ABSENT"
    [] What(q).kind \in {"ESCALATE_PRIORITY", "CHANGE_FIELD"} -> StatusOf(q) = "OPEN"
    [] What(q).kind = "RESOLVE_TICKET" -> StatusOf(q) # "ABSENT"
    [] OTHER -> TRUE

Effect(p) ==
  CASE p.kind = "NEW_TICKET" -> [world EXCEPT
         !.incident[p.incident] = "OPEN", !.priority[p.incident] = p.rank]
    [] p.kind = "RESOLVE_TICKET" -> [world EXCEPT !.incident[p.incident] = "RESOLVED"]
    [] p.kind = "ESCALATE_PRIORITY" -> [world EXCEPT !.priority[p.incident] = p.rank]
    [] p.kind = "ENGINEER_ON_LEAVE" -> [world EXCEPT !.available[p.specialist] = FALSE]
    [] p.kind = "ENGINEER_RETURNED" -> [world EXCEPT !.available[p.specialist] = TRUE]
    [] OTHER -> world

Apply(q) ==
  /\ req[q].step = "apply"
  /\ \/ /\ Fail(q)
        /\ world' \in {world} \cup {w \in {Effect(What(q))} : Accepts(q)}
     \/ /\ Accepts(q)
        /\ world' = Effect(What(q))
        /\ Move(q, [req[q] EXCEPT
             !.step = IF What(q).kind = "RESOLVE_TICKET" THEN "release" ELSE "record",
             !.changes = {"changed"}])
  /\ UNCHANGED <<tables, ledger>>

\* The reservations of a resolved incident; a failure is noted in the row.
Release(q) ==
  /\ req[q].step = "release"
  /\ LET released == [world EXCEPT !.booked[What(q).incident] = FALSE]
     IN  \/ /\ world' = released
            /\ Move(q, [req[q] EXCEPT !.step = "record", !.changes = req[q].changes \cup
                 (IF world.booked[What(q).incident] THEN {"released"} ELSE {})])
         \/ /\ world' \in {world, released}
            /\ Move(q, [req[q] EXCEPT !.step = "record",
                                        !.changes = req[q].changes \cup {"release_failed"}])
  /\ UNCHANGED <<tables, ledger>>

NoticesAfter == IF Callback THEN {"DELIVERED", "FAILED"} ELSE {"PENDING"}

\* Mutant: A failed event keeps the status it was inserted with.
RowReceived(q, notice) == [
  status |-> IF req[q].failed THEN "RECEIVED" ELSE "APPLIED",
  changes |-> req[q].changes, key |-> req[q].key]

\* NOTIFIED replaces PARTIALLY_APPLIED.
RowOf(q, notice) == [
  status |-> CASE req[q].failed -> "FAILED"
               [] notice = "DELIVERED" -> "NOTIFIED"
               [] "release_failed" \in req[q].changes -> "PARTIALLY_APPLIED"
               [] OTHER -> "APPLIED",
  changes |-> req[q].changes, key |-> req[q].key]

\* The run after the event, computed from the row read at the beginning.
AfterEvent(q) ==
  LET read == CHOOSE x \in req[q].row : TRUE
      s == read.scenario
      p == NextPosition(s, read.position)
      done == read.processed \cup {req[q].event}
      row == run[req[q].run]
  IN  [run EXCEPT ![req[q].run] = [row EXCEPT
         !.position = p, !.processed = done,
         !.pending = Written(row.pending, read.pending, EnabledAfter(s, p) \ done),
         !.status = IF NextPosition(s, p) = 0 THEN "COMPLETED" ELSE row.status]]

RunAfter(q) == IF req[q].op = "advance" THEN AfterEvent(q) ELSE run
MayWriteRun(q) == req[q].op = "advance" => Free(req[q].run)

\* Notification, history row and run are flushed and committed.  A
\* notification left from an earlier run has the same id: the request fails.
Record(q) ==
  /\ req[q].step = "record" /\ MayWriteRun(q)
  /\ LET e == req[q].event IN
     \/ /\ req[q].changes = {}
        /\ history' = [history EXCEPT ![e] = RowOf(q, "NONE")]
        /\ run' = RunAfter(q)
        /\ UNCHANGED outbox
     \/ /\ req[q].changes # {} /\ outbox[e] = "NONE"
        /\ \E notice \in NoticesAfter :
             /\ outbox' = [outbox EXCEPT ![e] = notice]
             /\ history' = [history EXCEPT ![e] = RowOf(q, notice)]
        /\ run' = RunAfter(q)
     \/ /\ req[q].changes # {} /\ outbox[e] # "NONE"
        /\ \A o \in Requests : e \notin req[o].deleted
        /\ UNCHANGED tables
  /\ End(q)
  /\ UNCHANGED <<world, ledger>>

\* The event had been recorded before: only the run moves on.
Skip(q) ==
  /\ req[q].step = "skip" /\ MayWriteRun(q)
  /\ run' = RunAfter(q)
  /\ End(q)
  /\ UNCHANGED <<history, outbox, world, ledger>>

\* A crash or an error of the database: what is not committed is lost.
Abort(q) ==
  /\ req[q].step # "idle"
  /\ End(q)
  /\ UNCHANGED <<tables, world, ledger>>

EnterRequest(q) == \/ Start(q) \/ Reset(q) \/ Control(q)
                   \/ Advance(q) \/ Inject(q) \/ Acknowledge(q)
Work(q) == \/ StopActive(q) \/ Load(q) \/ CreateRun(q)
           \/ ResetRead(q) \/ ClearRun(q) \/ ClearHistory(q)
           \/ WriteStatus(q)
           \/ Find(q) \/ Insert(q) \/ Look(q) \/ Apply(q) \/ Release(q)
           \/ Record(q) \/ Skip(q)

Next == \E q \in Requests : EnterRequest(q) \/ Work(q) \/ Abort(q)

\* A request that has been accepted is worked on; PostgreSQL grants row locks
\* and unique keys in the order in which they were asked for.
Fairness == \A q \in Requests : SF_vars(Work(q))
Spec == Init /\ [][Next]_vars /\ Fairness

-----------------------------------------------------------------------------
(* Properties                                                              *)

\* The tables and what the requests have read are well formed.
TypeOK ==
  /\ run \in Seq(RunRows) /\ Len(run) <= MaxRuns
  /\ history \in [Events -> EventRows \cup {NoRow}]
  /\ outbox \in [Events -> Notices]
  /\ world \in Worlds
  /\ entered \in 0..MaxRequests /\ overlapped \in BOOLEAN
  /\ \A q \in Requests :
       /\ req[q].op \in Ops /\ req[q].step \in Steps
       /\ req[q].scenario \in Scenarios \cup {NoKey}
       /\ req[q].mode \in Modes \cup {NoKey}
       /\ req[q].run \in 0..Len(run) /\ req[q].row \subseteq RunRows
       /\ req[q].event \in Events \cup {NoKey} /\ req[q].key \in AllKeys
       /\ req[q].loads \in 0..Len(LoadOrder) /\ req[q].seen \in 0..4
       /\ req[q].failed \in BOOLEAN /\ req[q].changes \subseteq Changes
       /\ req[q].deleted \subseteq Events

\* Between the insertion of its row and the commit an event has its id and its
\* key to itself: no second request carries out the same event meanwhile, and
\* none carries out an event that has been recorded.
OneDispatchPerKey == \A q \in Requests :
  Claims(q, req[q].event, NoKey) =>
    /\ Recorded(req[q].event, req[q].key) = {}
    /\ \A o \in Requests \ {q} : ~Claims(o, req[q].event, req[q].key)

\* A run passes over no enabled event of its timeline and goes through none
\* twice, whatever requests read it and write it at the same time.
NothingSkipped == \A r \in 1..Len(run) :
  run[r].processed = EnabledUpTo(run[r].scenario, run[r].position)

\* An event that changed the enterprise has a notification, also when a reset
\* deletes notifications and events one after the other.
ChangeIsAnnounced == \A e \in Events :
  history[e].changes # {} => outbox[e] # "NONE"

\* What an active run calls processed is recorded: a reset that clears the
\* history leaves no run behind that goes on where it was.
ProcessedIsRecorded == overlapped \/ \A r \in ActiveRuns :
  \A e \in run[r].processed : Recorded(e, e) # {}

\* Requests one after the other never leave two runs active, whatever fails.
OneActiveRun == overlapped \/ Cardinality(ActiveRuns) <= 1

\* A priority falls only when a scenario is loaded, or by an escalation that
\* had read it before another one raised it.
PriorityOnlyRaised == [][\A i \in Incidents :
  world'.priority[i] < world.priority[i] =>
    \E q \in Requests : \/ req[q].step = "load"
                        \/ /\ req[q].step = "apply"
                           /\ req[q].seen < world.priority[i]]_vars

\* Every request ends: the row locks and unique keys that requests wait for
\* never make them wait for each other in a circle.
RequestsEnd == \A q \in Requests : req[q].step # "idle" ~> req[q].step = "idle"
\* A run and the history of its events agree: well-formed rows, no event of the
\* timeline passed over, what is processed recorded, and one run going on, through
\* overlapping advances, starts and resets that fail on the way.
TimelineSound == TypeOK /\ NothingSkipped /\ ProcessedIsRecorded /\ OneActiveRun
=============================================================================
