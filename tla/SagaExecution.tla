---------------------------- MODULE SagaExecution ----------------------------
(***************************************************************************)
(* execute_saga of the core, with the three services it writes to.         *)
(*                                                                         *)
(* For each allocation of the approved plan the saga creates a tentative   *)
(* reservation (workforce), sends an assignment request (communication),   *)
(* polls it a bounded number of times, and then confirms the reservation   *)
(* and assigns the incident, or cancels the reservation and asks for a new *)
(* plan.  An exception stops the loop and starts the compensation.         *)
(*                                                                         *)
(* Each service call is one step.  The services are seen through the saga: *)
(* a call is accepted or refused by the rules of the service, and may also *)
(* be refused for reasons left out here (capacity, failure modes).         *)
(* Faults names what else may go wrong:                                    *)
(*   "refuse"        a call raises and has no effect                       *)
(*   "lost"          a call takes effect and its answer is lost            *)
(*   "compensation"  a cancellation raises, with or without its effect     *)
(*   "database"      the core's own event write raises                     *)
(*   "crash"         the core process stops; the run is resumed later      *)
(*   "question"      the graph asks the manager between two rounds         *)
(*   "resolve"       the simulation resolves incidents                     *)
(*   "reapprove"     a run that ended FAILED_SAGA is approved once more      *)
(***************************************************************************)
EXTENDS Integers, FiniteSets

CONSTANTS
  Runs, Incidents, Specialists,
  RunPart,       \* run_id[:8], the part of a run id that record ids keep
  IncidentPart,  \* inc_id[:8], the part of an incident id that they keep
  MaxReplan,     \* settings.max_replan_count
  MaxPolls,      \* settings.saga_poll_max_attempts
  Faults

Nobody == "nobody"
NoRun == "no run"
NoIncident == "no incident"

ASSUME NamesAssumption ==
  /\ Nobody \notin Specialists /\ NoRun \notin Runs /\ NoIncident \notin Incidents
ASSUME BoundsAssumption == MaxReplan \in Nat /\ MaxPolls \in Nat \ {0}
ASSUME FaultsAssumption ==
  Faults \subseteq {"refuse", "lost", "compensation", "database", "crash", "question",
                "resolve", "reapprove"}

\* What f"RES-{run_id[:8]}-{inc_id[:8]}{suffix}" and REQ-... tell apart.
Keys == {<<RunPart[r], IncidentPart[i], n>> : r \in Runs, i \in Incidents, n \in 0..MaxReplan}

VARIABLES
  reservation,  \* workforce: per id, status and payload
  request,      \* communication: per id, status and payload
  incident,     \* incidents: status, assigned_specialist_id, assignment_run_id
  saga,         \* per run, the locals of execute_saga
  round,        \* replan_count of the run's state
  excluded,     \* excluded_specialist_incidents of the run's state
  outcome,      \* status the last saga resolved to, until the next task of the run
  checkpoint,   \* replan_count and exclusions in the newest checkpoint of the run
  resolution,   \* per incident, how far the simulation's _resolve_ticket has come
  undone        \* history: runs that have begun to roll back, or have cancelled a
                \* reservation that was confirmed

services == <<reservation, request, incident, resolution>>
results == <<round, excluded, outcome, checkpoint>>
vars == <<services, saga, results, undone>>

Absent == [status |-> "absent", run |-> NoRun, incident |-> NoIncident, specialist |-> Nobody]

Idle ==
  [step |-> "idle", plan |-> [i \in Incidents |-> Nobody], todo |-> {},
   inc |-> NoIncident, polls |-> 0, created |-> {}, updated |-> {},
   rejected |-> {}, failed |-> FALSE, replan |-> FALSE]

Init ==
  /\ reservation = [k \in Keys |-> Absent]
  /\ request = [k \in Keys |-> Absent]
  /\ incident = [i \in Incidents |-> [status |-> "OPEN", specialist |-> Nobody, run |-> NoRun]]
  /\ saga = [r \in Runs |-> Idle]
  /\ round = [r \in Runs |-> 0]
  /\ excluded = [r \in Runs |-> {}]
  /\ outcome = [r \in Runs |-> "none"]
  /\ checkpoint = [r \in Runs |-> [round |-> 0, excluded |-> {}]]
  /\ resolution = [i \in Incidents |-> "none"]
  /\ undone = {}

-----------------------------------------------------------------------------
\* What the services accept.
Closed == {"RESOLVED", "CLOSED"}
Active == {"TENTATIVE", "CONFIRMED"}

Chosen(r) == saga[r].plan[saga[r].inc]
KeyOf(r, i) == <<RunPart[r], IncidentPart[i], round[r]>>
Key(r) == KeyOf(r, saga[r].inc)

\* The payload of the saga's create calls, as the stored record compares it.
Wanted(r, status) ==
  [status |-> status, run |-> r, incident |-> saga[r].inc, specialist |-> Chosen(r)]

SamePayload(a, b) ==
  a.run = b.run /\ a.incident = b.incident /\ a.specialist = b.specialist

\* No idempotent replay under this id, and no other active reservation of the pair.
NewReservation(r) ==
  /\ reservation[Key(r)] = Absent
  /\ \A k \in Keys :
       reservation[k].status \in Active =>
         <<reservation[k].incident, reservation[k].specialist>> # <<saga[r].inc, Chosen(r)>>

Replays(stored, r) == SamePayload(stored, Wanted(r, stored.status))

\* IncidentAssignmentRequest wants a specialist id of at least one character.
ValidSpecialist(s) == s \in Specialists

\* Whether the service accepts the call the saga makes next.
Accepts(r) ==
  LET inc == incident[saga[r].inc] IN
  CASE saga[r].step = "reserve" -> NewReservation(r) \/ Replays(reservation[Key(r)], r)
    [] saga[r].step = "request" -> request[Key(r)] = Absent \/ Replays(request[Key(r)], r)
    [] saga[r].step = "confirm" -> reservation[Key(r)].status \in Active
    [] saga[r].step = "assign" -> inc.status \notin Closed /\ ValidSpecialist(Chosen(r))
    [] saga[r].step = "patch" -> inc.status # "CLOSED"

\* Mutant: the confirmation is not stored.
ReservationNotConfirmed(r) ==
  IF saga[r].step = "reserve" /\ NewReservation(r)
  THEN [reservation EXCEPT ![Key(r)] = Wanted(r, "TENTATIVE")]
  ELSE reservation
ReservationAfter(r) ==
  CASE saga[r].step = "reserve" /\ NewReservation(r) ->
         [reservation EXCEPT ![Key(r)] = Wanted(r, "TENTATIVE")]
    [] saga[r].step = "confirm" -> [reservation EXCEPT ![Key(r)].status = "CONFIRMED"]
    [] OTHER -> reservation

RequestAfter(r) ==
  IF saga[r].step = "request" /\ request[Key(r)] = Absent
  THEN [request EXCEPT ![Key(r)] = Wanted(r, "PENDING")]
  ELSE request

IncidentAfter(r) ==
  CASE saga[r].step = "assign" ->
         [incident EXCEPT ![saga[r].inc].specialist = Chosen(r), ![saga[r].inc].run = r]
    [] saga[r].step = "patch" -> [incident EXCEPT ![saga[r].inc].status = "IN_PROGRESS"]
    [] OTHER -> incident

Cancelled(k) ==
  IF reservation[k].status \in Active
  THEN [reservation EXCEPT ![k].status = "CANCELLED"]
  ELSE reservation

-----------------------------------------------------------------------------
\* The greedy optimizer plans the open incidents, those somebody is assigned to
\* as well; CP-SAT what nobody is assigned to and is not closed.
Plannable(i) ==
  \/ incident[i].status = "OPEN"
  \/ incident[i].status = "IN_PROGRESS" /\ incident[i].specialist = Nobody

\* A task that carries an approval reads the evidence, makes a plan of it and
\* passes the gate.  No pair of the plan is excluded.  What happens between the
\* evidence and the execution happens between this step and the loop.
StartSaga(r) ==
  /\ saga[r].step = "idle" /\ round[r] <= MaxReplan
  /\ \E plan \in [Incidents -> Specialists \cup {Nobody}] :
       LET todo == {i \in Incidents : plan[i] # Nobody} IN
       /\ \A i \in todo : Plannable(i) /\ <<plan[i], i>> \notin excluded[r]
       /\ saga' = [saga EXCEPT ![r] = [Idle EXCEPT !.step = "next", !.plan = plan, !.todo = todo]]
  /\ outcome' = [outcome EXCEPT ![r] = "none"]
  /\ UNCHANGED <<services, round, excluded, checkpoint, undone>>

\* The loop over the allocations.
NextAllocation(r) ==
  /\ saga[r].step = "next"
  /\ \/ /\ saga[r].todo = {}
        /\ saga' = [saga EXCEPT ![r].step = "settle"]
     \/ \E i \in saga[r].todo :
          saga' = [saga EXCEPT ![r].step = "reserve", ![r].inc = i,
                               ![r].todo = @ \ {i}, ![r].polls = 0]
  /\ UNCHANGED <<services, results, undone>>

CallSteps == {"reserve", "request", "confirm", "assign", "patch"}

\* Mutant: the saga does not wait for the answer.
AfterCallWithoutAnswer(step) ==
  CASE step = "reserve" -> "request"
    [] step = "request" -> "confirm"
    [] step = "confirm" -> "assign"
    [] step = "assign" -> "patch"
    [] step = "patch" -> "record"
AfterCall(step) ==
  CASE step = "reserve" -> "request"
    [] step = "request" -> "poll"
    [] step = "confirm" -> "assign"
    [] step = "assign" -> "patch"
    [] step = "patch" -> "record"

\* except Exception: the loop ends and the compensation starts.
Raised(local) == [local EXCEPT !.failed = TRUE, !.step = "rollback"]

\* Mutant: the reservation is not put on the list to compensate.
NotedIncidentsOnly(r) ==
  IF saga[r].step = "patch"
  THEN [saga[r] EXCEPT !.updated = @ \cup {saga[r].inc}]
  ELSE saga[r]

\* The local lists once a call has returned.
Noted(r) ==
  CASE saga[r].step = "reserve" -> [saga[r] EXCEPT !.created = @ \cup {Key(r)}]
    [] saga[r].step = "patch" -> [saga[r] EXCEPT !.updated = @ \cup {saga[r].inc}]
    [] OTHER -> saga[r]

\* A call takes effect.  Its answer may be lost, and after the reservation the
\* core writes an event of its own, which may fail.
Call(r) ==
  /\ saga[r].step \in CallSteps /\ Accepts(r)
  /\ reservation' = ReservationAfter(r)
  /\ request' = RequestAfter(r)
  /\ incident' = IncidentAfter(r)
  /\ \/ /\ saga' = [saga EXCEPT ![r] = [Noted(r) EXCEPT !.step = AfterCall(@)]]
        /\ UNCHANGED undone
     \/ /\ "lost" \in Faults
        /\ saga' = [saga EXCEPT ![r] = Raised(@)]
        /\ undone' = undone \cup {r}
     \/ /\ "database" \in Faults /\ saga[r].step = "reserve"
        /\ saga' = [saga EXCEPT ![r] = Raised(Noted(r))]
        /\ undone' = undone \cup {r}
  /\ UNCHANGED <<resolution, results>>

\* A call raises and has had no effect.
Refused(r) ==
  /\ saga[r].step \in CallSteps
  /\ "refuse" \in Faults \/ ~Accepts(r)
  /\ saga' = [saga EXCEPT ![r] = Raised(@)]
  /\ undone' = undone \cup {r}
  /\ UNCHANGED <<services, results>>

\* Mutant: after the last attempt the count starts again.
PollsForever(local) == [local EXCEPT !.polls = IF local.polls + 1 = MaxPolls THEN 0 ELSE @ + 1]

\* A poll without an answer; the last one counts as TIMEOUT.
Unanswered(local) ==
  [local EXCEPT !.polls = @ + 1, !.step = IF local.polls + 1 = MaxPolls THEN "compensate" ELSE "poll"]

\* _poll_assignment_status: a poll that raises, and any status but the two
\* answers, count as no answer yet.
Poll(r) ==
  /\ saga[r].step = "poll"
  /\ LET status == request[Key(r)].status IN
     \/ status = "ACCEPTED" /\ saga' = [saga EXCEPT ![r].step = "confirm"]
     \/ status = "REJECTED" /\ saga' = [saga EXCEPT ![r].step = "compensate"]
     \/ /\ status \notin {"ACCEPTED", "REJECTED"} \/ Faults \cap {"refuse", "lost"} # {}
        /\ saga' = [saga EXCEPT ![r] = Unanswered(@)]
  /\ UNCHANGED <<services, results, undone>>

\* The event of an accepted allocation.
RecordAccepted(r) ==
  /\ saga[r].step = "record"
  /\ saga' = [saga EXCEPT ![r].step = "next"]
  /\ UNCHANGED <<services, results, undone>>

\* The polling event or the event of an accepted allocation cannot be written.
EventWriteFails(r) ==
  /\ "database" \in Faults
  /\ saga[r].step \in {"poll", "record"}
  /\ saga' = [saga EXCEPT ![r] = Raised(@)]
  /\ undone' = undone \cup {r}
  /\ UNCHANGED <<services, results>>

\* Rejected or timed out: cancel (a failure is only logged), exclude the pair,
\* ask for a new plan and leave the loop.  The event comes last.
Compensate(r) ==
  LET left == [saga[r] EXCEPT !.rejected = @ \cup {<<Chosen(r), saga[r].inc>>},
                              !.replan = TRUE, !.step = "settle"]
      removed == [left EXCEPT !.created = @ \ {Key(r)}]
  IN
  /\ saga[r].step = "compensate"
  /\ \E local \in {left, removed} :
       /\ \/ local = removed /\ reservation' = Cancelled(Key(r))
          \/ local = left /\ "compensation" \in Faults
             /\ reservation' \in {reservation, Cancelled(Key(r))}
       /\ \/ /\ saga' = [saga EXCEPT ![r] = local]
             /\ undone' = IF reservation[Key(r)].status = "CONFIRMED"
                           THEN undone \cup {r} ELSE undone
          \/ /\ "database" \in Faults
             /\ saga' = [saga EXCEPT ![r] = Raised(local)]
             /\ undone' = undone \cup {r}
  /\ UNCHANGED <<request, incident, resolution, results>>

\* The compensation, first every reservation, then every incident.  A failure
\* is only logged.
CancelCreated(r) ==
  /\ saga[r].step = "rollback"
  /\ \E k \in saga[r].created :
       /\ saga' = [saga EXCEPT ![r].created = @ \ {k}]
       /\ \/ reservation' = Cancelled(k)
          \/ "compensation" \in Faults /\ UNCHANGED reservation
  /\ UNCHANGED <<request, incident, resolution, results, undone>>

\* assign_incident_specialist(specialist_id="") and then OPEN; the second call
\* is not made when the first one is refused.
ResetUpdated(r) ==
  /\ saga[r].step = "rollback" /\ saga[r].created = {}
  /\ \E i \in saga[r].updated :
       /\ saga' = [saga EXCEPT ![r].updated = @ \ {i}]
       /\ IF ValidSpecialist(Nobody)
          THEN incident' = [incident EXCEPT ![i] = [status |-> "OPEN", specialist |-> Nobody, run |-> NoRun]]
          ELSE UNCHANGED incident
  /\ UNCHANGED <<reservation, request, resolution, results, undone>>

EndRollback(r) ==
  /\ saga[r].step = "rollback" /\ saga[r].created = {} /\ saga[r].updated = {}
  /\ saga' = [saga EXCEPT ![r].step = "settle"]
  /\ UNCHANGED <<services, results, undone>>

\* Mutant: a failure counts for more than a refusal.
OutcomeFailureFirst(local) ==
  CASE local.failed -> "FAILED_SAGA"
    [] ~local.failed /\ local.replan -> "REPLANNING"
    [] OTHER -> "EXECUTED"

\* Mutant: an exception that was caught is forgotten.
OutcomeIgnoringFailure(local) == IF local.replan THEN "REPLANNING" ELSE "EXECUTED"
Outcome(local) ==
  CASE local.replan -> "REPLANNING"
    [] ~local.replan /\ local.failed -> "FAILED_SAGA"
    [] OTHER -> "EXECUTED"

\* The outcome is stored and returned to the graph with the exclusions.
Settle(r) ==
  /\ saga[r].step = "settle"
  /\ outcome' = [outcome EXCEPT ![r] = Outcome(saga[r])]
  /\ excluded' = [excluded EXCEPT ![r] = @ \cup saga[r].rejected]
  /\ round' = [round EXCEPT ![r] = IF saga[r].replan THEN @ + 1 ELSE @]
  /\ saga' = [saga EXCEPT ![r] = IF @.replan THEN Idle ELSE [@ EXCEPT !.step = "complete"]]
  /\ UNCHANGED <<services, checkpoint, undone>>

Counters(r) == [round |-> round[r], excluded |-> excluded[r]]

\* complete_run saves its checkpoint, the newest of the run unless it has asked
\* a question since the first one was saved.
Complete(r) ==
  /\ saga[r].step = "complete"
  /\ saga' = [saga EXCEPT ![r].step = "done"]
  /\ \/ checkpoint' = [checkpoint EXCEPT ![r] = Counters(r)]
     \/ "question" \in Faults /\ UNCHANGED checkpoint
  /\ UNCHANGED <<services, round, excluded, outcome, undone>>

\* Mutant: a resumed task keeps the exclusions and counts from the checkpoint.
ResumedWithExclusions(r) ==
  /\ saga' = [saga EXCEPT ![r] = Idle]
  /\ round' = [round EXCEPT ![r] = checkpoint[r].round]
  /\ UNCHANGED <<services, excluded, outcome, checkpoint, undone>>

\* Another task of the run starts from the newest checkpoint, which the rounds of
\* a task do not write: what they have counted and excluded is lost.
Resumed(r) ==
  /\ saga' = [saga EXCEPT ![r] = Idle]
  /\ round' = [round EXCEPT ![r] = checkpoint[r].round]
  /\ excluded' = [excluded EXCEPT ![r] = checkpoint[r].excluded]
  /\ UNCHANGED <<services, outcome, checkpoint, undone>>

\* The process stops, in the saga, between two rounds or before complete_run.
Crash(r) == "crash" \in Faults /\ saga[r].step # "done" /\ Resumed(r)

\* validate_goal asks the manager in the middle of the rounds.  The checkpoint of
\* the question becomes the newest one if the run has not asked before.
AskManager(r) ==
  /\ "question" \in Faults
  /\ saga[r].step = "idle"
  /\ \/ Resumed(r)
     \/ /\ checkpoint' = [checkpoint EXCEPT ![r] = Counters(r)]
        /\ UNCHANGED <<services, saga, round, excluded, outcome, undone>>

\* FAILED_SAGA is not among the statuses approve_run refuses.
Reapprove(r) ==
  "reapprove" \in Faults /\ saga[r].step = "done" /\ outcome[r] = "FAILED_SAGA" /\ Resumed(r)

SagaStep(r) ==
  \/ NextAllocation(r) \/ Call(r) \/ Refused(r) \/ Poll(r)
  \/ RecordAccepted(r) \/ EventWriteFails(r) \/ Compensate(r)
  \/ CancelCreated(r) \/ ResetUpdated(r) \/ EndRollback(r) \/ Settle(r) \/ Complete(r)

-----------------------------------------------------------------------------
\* The specialist, or a configured response, answers a pending request.
Respond(k, answer) ==
  /\ request[k].status = "PENDING"
  /\ request' = [request EXCEPT ![k].status = answer]
  /\ UNCHANGED <<reservation, incident, resolution, saga, results, undone>>

ExpireRequest(k) ==
  /\ request[k].status = "PENDING"
  /\ request' = [request EXCEPT ![k].status = "EXPIRED"]
  /\ UNCHANGED <<reservation, incident, resolution, saga, results, undone>>

ExpireReservation(k) ==
  /\ reservation[k].status = "TENTATIVE"
  /\ reservation' = [reservation EXCEPT ![k].status = "EXPIRED"]
  /\ UNCHANGED <<request, incident, resolution, saga, results, undone>>

\* _resolve_ticket of the simulation, once per incident: the incident service
\* resolves the incident ...
ResolveIncident(i) ==
  /\ "resolve" \in Faults
  /\ resolution[i] = "none" /\ incident[i].status \notin Closed
  /\ incident' = [incident EXCEPT ![i] = [status |-> "RESOLVED", specialist |-> Nobody, run |-> NoRun]]
  /\ resolution' = [resolution EXCEPT ![i] = "resolved"]
  /\ UNCHANGED <<reservation, request, saga, results, undone>>

\* ... and then the workforce service cancels every active reservation of it.
\* A failure of the second call is only reported.
ReleaseWorkload(i) ==
  /\ resolution[i] = "resolved"
  /\ resolution' = [resolution EXCEPT ![i] = "over"]
  /\ \/ UNCHANGED reservation
     \/ reservation' = [k \in Keys |->
          IF reservation[k].incident = i /\ reservation[k].status \in Active
          THEN [reservation[k] EXCEPT !.status = "CANCELLED"] ELSE reservation[k]]
  /\ UNCHANGED <<request, incident, saga, results, undone>>

ServiceStep ==
  \/ \E k \in Keys :
       \/ \E answer \in {"ACCEPTED", "REJECTED"} : Respond(k, answer)
       \/ ExpireRequest(k)
       \/ ExpireReservation(k)
  \/ \E i \in Incidents : ResolveIncident(i) \/ ReleaseWorkload(i)

Next ==
  \/ ServiceStep
  \/ \E r \in Runs : StartSaga(r) \/ SagaStep(r) \/ Crash(r) \/ AskManager(r) \/ Reapprove(r)

Spec == Init /\ [][Next]_vars

\* A running saga goes on: every await of it returns, by an answer or a timeout.
FairSpec == Spec /\ \A r \in Runs : WF_vars(SagaStep(r))

-----------------------------------------------------------------------------
Statuses == {"absent", "TENTATIVE", "CONFIRMED", "CANCELLED", "EXPIRED"}
Answers == {"absent", "PENDING", "ACCEPTED", "REJECTED", "EXPIRED"}
Records(statuses) ==
  [status : statuses, run : Runs \cup {NoRun}, incident : Incidents \cup {NoIncident},
   specialist : Specialists \cup {Nobody}]

\* The records of the services and the locals of the sagas are well formed.
TypeOK ==
  /\ reservation \in [Keys -> Records(Statuses)]
  /\ request \in [Keys -> Records(Answers)]
  /\ incident \in [Incidents -> [status : {"OPEN", "IN_PROGRESS", "RESOLVED"},
                                 specialist : Specialists \cup {Nobody}, run : Runs \cup {NoRun}]]
  /\ saga \in [Runs -> [step : CallSteps \cup {"idle", "next", "poll", "record", "compensate",
                                               "rollback", "settle", "complete", "done"},
                        plan : [Incidents -> Specialists \cup {Nobody}],
                        todo : SUBSET Incidents, inc : Incidents \cup {NoIncident},
                        polls : 0..MaxPolls, created : SUBSET Keys, updated : SUBSET Incidents,
                        rejected : SUBSET (Specialists \X Incidents),
                        failed : BOOLEAN, replan : BOOLEAN]]
  /\ round \in [Runs -> 0..(MaxReplan + 1)]
  /\ excluded \in [Runs -> SUBSET (Specialists \X Incidents)]
  /\ outcome \in [Runs -> {"none", "REPLANNING", "FAILED_SAGA", "EXECUTED"}]
  /\ checkpoint \in [Runs -> [round : 0..(MaxReplan + 1),
                              excluded : SUBSET (Specialists \X Incidents)]]
  /\ resolution \in [Incidents -> {"none", "resolved", "over"}]
  /\ undone \subseteq Runs

\* No specialist is booked without consent: a confirmed reservation has a
\* request for the same work that was accepted, whatever is lost, repeated
\* after a crash, or shares an id.
ConfirmedWithConsent ==
  \A k \in Keys : reservation[k].status = "CONFIRMED" =>
    request[k].status = "ACCEPTED" /\ SamePayload(request[k], reservation[k])

\* An incident that a run has assigned is backed by a confirmed reservation of
\* that specialist, over all replanning rounds, crashes and plans that hold the
\* incident once more, unless the simulation has released the incident or the run
\* has taken a booking back: its saga has begun to roll back, or has got no
\* answer to the request of a reservation that was confirmed already.
AssignedIsBooked ==
  \A i \in Incidents : incident[i].run \in Runs \ undone /\ resolution[i] # "over" =>
    \E k \in Keys : reservation[k] = [status |-> "CONFIRMED", run |-> incident[i].run,
                                      incident |-> i, specialist |-> incident[i].specialist]

\* EXECUTED is complete success: every allocation of the plan is confirmed,
\* unless the simulation has released the incident.
ExecutedIsBooked ==
  \A r \in Runs : outcome[r] = "EXECUTED" =>
    \A i \in Incidents : saga[r].plan[i] # Nobody /\ resolution[i] # "over" =>
      reservation[KeyOf(r, i)] = [status |-> "CONFIRMED", run |-> r, incident |-> i,
                                  specialist |-> saga[r].plan[i]]

\* A failed saga holds no reservation of its round, as long as cancellations
\* and answers arrive.
FailureReleasesRound ==
  \A r \in Runs : saga[r].step \in {"complete", "done"} /\ outcome[r] = "FAILED_SAGA" =>
    \A k \in Keys : reservation[k].run = r /\ k[3] = round[r] => reservation[k].status \notin Active

\* Sagas come to an end, and so does the replanning of a run under one approval:
\* polls, rollbacks and rounds run out.
SagasEnd == \A r \in Runs : <>[](saga[r].step \in {"idle", "done"})

-----------------------------------------------------------------------------
\* execute_saga, "Resetting incident ... to UNASSIGNED": a failed saga leaves
\* no incident assigned by its run.
FailureUnassigns ==
  \A r \in Runs : outcome[r] = "FAILED_SAGA" => \A i \in Incidents : incident[i].run # r
=============================================================================
