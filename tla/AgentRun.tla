------------------------------ MODULE AgentRun ------------------------------
(***************************************************************************)
(* One decision run of the core API: the LangGraph workflow of             *)
(* core-api/app/agent, run by background tasks, and the manager's calls    *)
(* that approve, clarify and cancel it.                                    *)
(*                                                                         *)
(* A task carries its own AgentState from node to node and commits to the  *)
(* shared rows (agent_runs, graph_checkpoints) once per node, so a node is *)
(* one step.  A pause ends the task; the manager's decision loads a        *)
(* checkpoint and starts another task, which walks the graph again from    *)
(* the start.  Nothing ties a run to one task: every accepted decision     *)
(* starts one, whatever tasks are still walking.                           *)
(*                                                                         *)
(* The saga is one step here, with its three outcomes; SagaExecution is    *)
(* its detail and SagaVerdict what the two agree on.  Nodes that neither   *)
(* write a shared row nor decide a route are part of the next one that     *)
(* does.                                                                   *)
(***************************************************************************)
EXTENDS Integers, FiniteSets

CONSTANTS
  Tasks,        \* background tasks, each used once
  Calls,        \* the manager's HTTP calls, each used once
  MaxReplan,    \* settings.max_replan_count
  MaxWorld,     \* bound: how often the enterprise data changes
  Environment   \* what may happen around the workflow, see EnvironmentNames

\* "cancel": runs are cancelled; "fail": a task dies (an exception is only
\* logged, the process restarts); "overlap": the manager decides while a task
\* of the run is still walking; "modify": the manager asks for modifications.
EnvironmentNames == {"cancel", "fail", "overlap", "modify"}

ASSUME BoundsAssumption == MaxReplan \in Nat /\ MaxWorld \in Nat
ASSUME TasksAssumption == Tasks # {}
ASSUME EnvironmentAssumption == Environment \subseteq EnvironmentNames

Decisions == {"APPROVED", "REJECTED", "MODIFY"}
Closed == {"COMPLETED", "FAILED", "CANCELLED"}     \* the guard of approve_run

\* A plan is told apart by what it was computed from.
NoPlan == [world |-> -1, replan |-> -1]
Plans == [world : 0..MaxWorld, replan : 0..MaxReplan] \cup {NoPlan}

AgentStates ==
  [approval : {"UNSET", "PENDING"} \cup Decisions,
   status : {"RECEIVED", "PLANNING", "FAILED_SAFE", "WAITING_FOR_APPROVAL",
             "EXECUTING", "EXECUTED", "REPLANNING", "FAILED_SAGA"},
   clarified : BOOLEAN,                  \* clarification_resolved
   world : 0..MaxWorld,
   replan : 0..(MaxReplan + 1),
   plan : Plans]
NewState == [approval |-> "UNSET", status |-> "RECEIVED", clarified |-> FALSE,
             world |-> 0, replan |-> 0, plan |-> NoPlan]

Nodes == {"receive", "interpret", "gather", "build", "generate", "pause",
          "record", "saga", "complete", "clarify"}
SavingNodes == {"pause", "clarify", "complete"}    \* nodes that save a checkpoint
NoNode == "none"

VARIABLES
  row,       \* agent_runs.status
  saved,     \* graph_checkpoints: node -> the AgentState it saved last
  newest,    \* the checkpoint whose created_at is the latest
  node,      \* per task: the node it runs next, "free" or "ended"
  ctx,       \* per task: its AgentState
  cause,     \* per task: the manager decision that started it
  approved,  \* per task: the plan its manager was shown and approved
  recorded,  \* history, per task: decisions written to preference memory
  call,      \* per call: what it does next, and its decision
  world      \* version of the data behind the tool services

shared == <<row, saved, newest>>
tasks == <<node, ctx, cause, approved, recorded>>
vars == <<shared, tasks, call, world>>

\* What a reply to a question of the run is: words ("CLARIFY") or nothing
\* ("EMPTY"; ClarifyRunRequest takes any string).
Replies == {"CLARIFY", "EMPTY"}
Causes == {"CREATE"} \cup Replies \cup Decisions
CallSteps == [step : {"idle", "done"}, cause : {"NONE"}]
  \cup [step : {"cancel"}, cause : {"CANCEL"}]
  \cup [step : {"resume"}, cause : Replies \cup Decisions]

Running(t) == node[t] \in Nodes
NoCheckpoint == newest = NoNode

-----------------------------------------------------------------------------
\* Tasks are interchangeable: which unused one is started is immaterial.
FirstTask == CHOOSE t \in Tasks : TRUE

\* create_run: start_new_run has spawned the first task.
Init ==
  /\ row = "ABSENT"
  /\ saved = [n \in SavingNodes |-> NewState]
  /\ newest = NoNode
  /\ node = [t \in Tasks |-> IF t = FirstTask THEN "receive" ELSE "free"]
  /\ ctx = [t \in Tasks |-> NewState]
  /\ cause = [t \in Tasks |-> "CREATE"]
  /\ approved = [t \in Tasks |-> NoPlan]
  /\ recorded = [t \in Tasks |-> {}]
  /\ call = [c \in Calls |-> [step |-> "idle", cause |-> "NONE"]]
  /\ world = 0

Goto(t, n) == node' = [node EXCEPT ![t] = n]

\* The nodes whose checkpoint row exists: those a task has saved.  A saved
\* state is never NewState, which no node has touched.
SavedNodes == {n \in SavingNodes : saved[n] # NewState}

\* save_graph_checkpoint: a row per node, updated in place; created_at is set
\* when the row is inserted and never again.
Save(n, s) ==
  /\ saved' = [saved EXCEPT ![n] = s]
  /\ newest' = IF n \in SavedNodes THEN newest ELSE n

-----------------------------------------------------------------------------
ReceiveGoal(t) ==
  /\ node[t] = "receive"
  /\ row' = "RECEIVED"
  /\ ctx' = [ctx EXCEPT ![t].status = "RECEIVED"]
  /\ Goto(t, "interpret")
  /\ UNCHANGED <<saved, newest, cause, approved, recorded, call, world>>

\* interpret_goal keeps only a final decision in approval_status.
AfterInterpretation(a) == IF a \in {"APPROVED", "REJECTED"} THEN a ELSE "PENDING"

\* validate_goal: what the interpreter (rules or a language model) made of the
\* goal text; an ambiguity that was clarified is not asked about again.
Validations(s) ==
  {"PLANNING", "FAILED_SAFE"} \cup
  (IF s.clarified THEN {} ELSE {"NEEDS_CLARIFICATION"})

\* Mutant: a goal that cannot be handled ends the task without complete_run.
RouteWithoutCompletion(v) ==
  CASE v = "NEEDS_CLARIFICATION" -> "clarify"
    [] v = "FAILED_SAFE" -> "ended"
    [] OTHER -> "gather"
RouteAfterValidation(v) ==
  CASE v = "NEEDS_CLARIFICATION" -> "clarify"
    [] v = "FAILED_SAFE" -> "complete"
    [] OTHER -> "gather"

\* interpret_goal, then validate_goal and its route.
InterpretGoal(t) ==
  /\ node[t] = "interpret"
  /\ row' = "INTERPRETED"
  /\ \E v \in Validations(ctx[t]) :
       /\ ctx' = [ctx EXCEPT ![t].approval = AfterInterpretation(@),
                             ![t].status = IF v = "FAILED_SAFE" THEN v ELSE "PLANNING"]
       /\ Goto(t, RouteAfterValidation(v))
  /\ UNCHANGED <<saved, newest, cause, approved, recorded, call, world>>

PauseForClarification(t) ==
  /\ node[t] = "clarify"
  /\ row' = "WAITING_FOR_CLARIFICATION"
  /\ Save("clarify", ctx[t])
  /\ Goto(t, "ended")
  /\ UNCHANGED <<ctx, cause, approved, recorded, call, world>>

\* plan_evidence, select_tools, execute_tools: the tool services are read.
GatherEvidence(t) ==
  /\ node[t] = "gather"
  /\ row' = "TOOLS_EXECUTED"
  /\ ctx' = [ctx EXCEPT ![t].world = world]
  /\ Goto(t, "build")
  /\ UNCHANGED <<saved, newest, cause, approved, recorded, call, world>>

BuildState(t) ==
  /\ node[t] = "build"
  /\ row' = "STATE_BUILT"
  /\ Goto(t, "generate")
  /\ UNCHANGED <<saved, newest, ctx, cause, approved, recorded, call, world>>

\* Mutant: the limit is one too high.
ReplanLimitReachedLate(s) == s.replan > MaxReplan + 1
ReplanLimitReached(s) == s.replan > MaxReplan

\* evaluate_quality, then generate_plans: the recommendation is computed anew.
GeneratePlans(t) ==
  LET s == ctx[t] IN
  /\ node[t] = "generate"
  /\ IF ReplanLimitReached(s)
     THEN /\ ctx' = [ctx EXCEPT ![t].plan = NoPlan, ![t].status = "FAILED_SAGA"]
          /\ UNCHANGED row
     ELSE /\ ctx' = [ctx EXCEPT ![t].plan = [world |-> s.world, replan |-> s.replan],
                                ![t].status = "WAITING_FOR_APPROVAL"]
          /\ row' = "WAITING_FOR_APPROVAL"
  /\ Goto(t, "pause")
  /\ UNCHANGED <<saved, newest, cause, approved, recorded, call, world>>

\* pause_for_approval: a task that carries a decision passes, another saves a
\* checkpoint and ends.
PauseForApproval(t) ==
  /\ node[t] = "pause"
  /\ \/ /\ ctx[t].approval \in Decisions
        /\ ctx' = [ctx EXCEPT ![t].status = "EXECUTING"]
        /\ Goto(t, "record")
        /\ UNCHANGED shared
     \/ /\ ctx[t].approval \notin Decisions
        /\ row' = "WAITING_FOR_APPROVAL"
        /\ ctx' = [ctx EXCEPT ![t].status = "WAITING_FOR_APPROVAL", ![t].approval = "PENDING"]
        /\ Save("pause", ctx'[t])
        /\ Goto(t, "ended")
  /\ UNCHANGED <<cause, approved, recorded, call, world>>

RouteAfterPreference(a) ==
  CASE a = "MODIFY" -> "interpret"
    [] a = "APPROVED" -> "saga"
    [] OTHER -> "complete"

\* update_preference_memory and route_after_preference_update.
UpdatePreferenceMemory(t) ==
  LET a == ctx[t].approval IN
  /\ node[t] = "record"
  /\ recorded' = [recorded EXCEPT ![t] = @ \cup {a}]
  /\ ctx' = [ctx EXCEPT ![t].approval = IF a = "MODIFY" THEN "PENDING" ELSE a]
  /\ Goto(t, RouteAfterPreference(a))
  /\ UNCHANGED <<shared, cause, approved, call, world>>

\* A plan with allocations succeeds, is refused by a specialist or meets a
\* service error; without a plan there is nothing to refuse or to fail.
SagaOutcomes(s) ==
  IF s.plan = NoPlan THEN {"EXECUTED"} ELSE {"EXECUTED", "REPLANNING", "FAILED_SAGA"}

\* Mutant: replanning does not count.
CountNoReplanning(s, outcome) == s.replan
NextReplanCount(s, outcome) == IF outcome = "REPLANNING" THEN s.replan + 1 ELSE s.replan

\* execute_saga and route_after_saga.
ExecuteSaga(t) ==
  /\ node[t] = "saga"
  /\ \E outcome \in SagaOutcomes(ctx[t]) :
       /\ row' = outcome
       /\ ctx' = [ctx EXCEPT ![t].status = outcome,
                             ![t].replan = NextReplanCount(ctx[t], outcome)]
       /\ Goto(t, IF outcome = "REPLANNING" THEN "interpret" ELSE "complete")
  /\ UNCHANGED <<saved, newest, cause, approved, recorded, call, world>>

FinalStatus(s) ==
  CASE s.status = "FAILED_SAGA" -> "FAILED_SAGA"
    [] s.status = "FAILED_SAFE" /\ s.approval # "REJECTED" -> "FAILED"
    [] OTHER -> "COMPLETED"

CompleteRun(t) ==
  /\ node[t] = "complete"
  /\ row' = FinalStatus(ctx[t])
  /\ Save("complete", ctx[t])
  /\ Goto(t, "ended")
  /\ UNCHANGED <<ctx, cause, approved, recorded, call, world>>

\* run_agent_background logs the exception; nobody restarts the task.
TaskFails(t) ==
  /\ "fail" \in Environment
  /\ Running(t)
  /\ Goto(t, "ended")
  /\ UNCHANGED <<shared, ctx, cause, approved, recorded, call, world>>

-----------------------------------------------------------------------------
Quiet == \A t \in Tasks : ~Running(t)
NoCallPending == \A c \in Calls : call[c].step \in {"idle", "done"}
MayDecide == "overlap" \in Environment \/ (Quiet /\ NoCallPending)

\* Mutant: a closed run is not refused.
ReadAnyStatus(c, step, why) ==
  /\ MayDecide
  /\ call[c].step = "idle"
  /\ row # "ABSENT"
  /\ call' = [call EXCEPT ![c] = [step |-> step, cause |-> why]]
  /\ UNCHANGED <<shared, tasks, world>>

\* approve_run, clarify_run and cancel_run read agent_runs.status first ...
ReadStatus(c, step, why) ==
  /\ MayDecide
  /\ call[c].step = "idle"
  /\ row # "ABSENT" /\ row \notin Closed
  /\ call' = [call EXCEPT ![c] = [step |-> step, cause |-> why]]
  /\ UNCHANGED <<shared, tasks, world>>

ApproveRun(c, d) == (d = "MODIFY" => "modify" \in Environment) /\ ReadStatus(c, "resume", d)
ClarifyRun(c, reply) == row = "WAITING_FOR_CLARIFICATION" /\ ReadStatus(c, "resume", reply)
CancelRun(c) == "cancel" \in Environment /\ ReadStatus(c, "cancel", "CANCEL")

\* ... and act on it in a later step.
Answer(c) == call' = [call EXCEPT ![c] = [step |-> "done", cause |-> "NONE"]]

\* Mutants: a clarification keeps the approval it found in the checkpoint; the
\* question counts as open although it was answered.
InjectedKeepingApproval(s, why) ==
  [s EXCEPT !.approval = IF why \in Replies THEN @ ELSE why,
            !.clarified = @ \/ why = "CLARIFY"]
InjectedWithoutReply(s, why) ==
  [s EXCEPT !.approval = IF why \in Replies THEN "PENDING" ELSE why]

\* What resume_run_from_checkpoint puts into the checkpoint it loaded.  An empty
\* reply takes the approval back like any other but answers nothing.
Injected(s, why) ==
  [s EXCEPT !.approval = IF why \in Replies THEN "PENDING" ELSE why,
            !.clarified = @ \/ why = "CLARIFY"]

\* load_last_checkpoint and resume_run_from_checkpoint; without a checkpoint 404.
ResumeRun(c) ==
  /\ call[c].step = "resume"
  /\ Answer(c)
  /\ \/ NoCheckpoint /\ UNCHANGED tasks
     \/ /\ ~NoCheckpoint
        /\ \E t \in Tasks : node[t] = "free"
        /\ LET t == CHOOSE u \in Tasks : node[u] = "free" IN
             /\ Goto(t, "receive")
             /\ ctx' = [ctx EXCEPT ![t] = Injected(saved[newest], call[c].cause)]
             /\ cause' = [cause EXCEPT ![t] = call[c].cause]
             /\ approved' = [approved EXCEPT ![t] =
                   IF call[c].cause = "APPROVED" THEN saved[newest].plan ELSE NoPlan]
             /\ UNCHANGED recorded
  /\ UNCHANGED <<shared, world>>

CancelWrite(c) ==
  /\ call[c].step = "cancel"
  /\ row' = "CANCELLED"
  /\ Answer(c)
  /\ UNCHANGED <<saved, newest, tasks, world>>

\* Tickets, workloads and availability change in the tool services.
EnterpriseChange ==
  /\ world < MaxWorld
  /\ world' = world + 1
  /\ UNCHANGED <<shared, tasks, call>>

-----------------------------------------------------------------------------
\* One step of a task: LangGraph goes on to the next node by itself.
TaskStep(t) ==
  \/ ReceiveGoal(t)
  \/ InterpretGoal(t)
  \/ PauseForClarification(t)
  \/ GatherEvidence(t)
  \/ BuildState(t)
  \/ GeneratePlans(t)
  \/ PauseForApproval(t)
  \/ UpdatePreferenceMemory(t)
  \/ ExecuteSaga(t)
  \/ CompleteRun(t)

Next ==
  \/ \E t \in Tasks : TaskStep(t) \/ TaskFails(t)
  \/ \E c \in Calls :
       \/ \E d \in Decisions : ApproveRun(c, d)
       \/ \E reply \in Replies : ClarifyRun(c, reply)
       \/ CancelRun(c)
       \/ ResumeRun(c)
       \/ CancelWrite(c)
  \/ EnterpriseChange

Spec == Init /\ [][Next]_vars

\* A task that has a next node is scheduled by the event loop.
FairSpec == Spec /\ \A t \in Tasks : WF_vars(TaskStep(t))

-----------------------------------------------------------------------------
RowStatuses ==
  {"ABSENT", "RECEIVED", "INTERPRETED", "WAITING_FOR_CLARIFICATION",
   "TOOLS_EXECUTED", "STATE_BUILT", "WAITING_FOR_APPROVAL", "EXECUTED",
   "REPLANNING", "FAILED_SAGA"} \cup Closed

\* Rows, tasks and calls hold values the program can hold; the replan counter
\* never passes the limit by more than one.
TypeOK ==
  /\ row \in RowStatuses
  /\ saved \in [SavingNodes -> AgentStates]
  /\ newest \in SavingNodes \cup {NoNode}
  /\ node \in [Tasks -> Nodes \cup {"free", "ended"}]
  /\ ctx \in [Tasks -> AgentStates]
  /\ cause \in [Tasks -> Causes]
  /\ approved \in [Tasks -> Plans]
  /\ recorded \in [Tasks -> SUBSET ({"UNSET", "PENDING"} \cup Decisions)]
  /\ call \in [Calls -> CallSteps]
  /\ world \in 0..MaxWorld

\* Only a task that an APPROVED decision started reaches the saga: neither a
\* rejected, a modified, a clarified nor a fresh one does, whatever approval
\* the checkpoint it was restored from still carried.
SagaNeedsApproval == \A t \in Tasks : node[t] = "saga" => cause[t] = "APPROVED"

\* max_replan_count bounds the plans that are executed for one approval, across
\* checkpoints and restarted tasks.
ReplanLimitHolds ==
  \A t \in Tasks : node[t] = "saga" /\ ctx[t].plan # NoPlan => ctx[t].replan <= MaxReplan

\* A run whose question was answered with words does not ask again in the task
\* that the answer started, whichever checkpoint it was resumed from.  (An empty
\* reply starts a task as well, and that one may well ask again.)
ClarifiedTaskGoesOn == \A t \in Tasks : node[t] = "clarify" => cause[t] # "CLARIFY"

\* A task writes nothing to the preference memory but the decision that started
\* it: no leftover of the checkpoint, and no decision of an overlapping call.
RecordsOwnDecision == \A t \in Tasks : recorded[t] \subseteq {cause[t]}

\* A run that nobody works on waits for the manager at a gate, with a
\* checkpoint to resume from, or has reached a final status.
QuietRunIsSettled ==
  Quiet => \/ row \in {"COMPLETED", "FAILED", "FAILED_SAGA"}
           \/ row = "WAITING_FOR_APPROVAL" /\ "pause" \in SavedNodes
           \/ row = "WAITING_FOR_CLARIFICATION" /\ "clarify" \in SavedNodes

\* A completed, failed or cancelled run keeps that status.
ClosedStaysClosed == [][(row \in Closed) => (row' = row)]_vars

\* Every task comes to its end: the replanning loop is broken by the limit.
TasksEnd == \A t \in Tasks : Running(t) ~> ~Running(t)

=============================================================================
