--------------------------- MODULE AgentRunProofs ---------------------------
(***************************************************************************)
(* Proofs about AgentRun for any number of tasks and calls, any replanning *)
(* limit and any environment.  The invariants are not inductive: a task's  *)
(* AgentState is carried through many nodes and, by the checkpoints, into  *)
(* other tasks.  Gate says what it may carry at each node; with TypeOK it  *)
(* is inductive.  What holds only where the manager decides while the run  *)
(* waits and nothing is cancelled or dies is proved under Undisturbed.     *)
(***************************************************************************)
EXTENDS AgentRun, TLAPS

\* The AgentState of a task at a node.
GateAt(t) ==
  /\ ctx[t].approval \in Decisions => ctx[t].approval = cause[t]
  /\ node[t] = "saga" => ctx[t].approval = "APPROVED"
  /\ node[t] \in {"pause", "record", "saga"} /\ ctx[t].plan # NoPlan
       => ctx[t].replan <= MaxReplan
  /\ cause[t] = "CLARIFY" => ctx[t].clarified
  /\ node[t] = "clarify" => ~ctx[t].clarified
  /\ node[t] = "record" => ctx[t].approval \in Decisions
  /\ recorded[t] \subseteq {cause[t]}
  /\ node[t] = "free" => recorded[t] = {}

Gate == \A t \in Tasks : GateAt(t)
IInv == TypeOK /\ Gate

USE DEF Nodes, SavingNodes, NoNode, Decisions, Closed, Replies

\* The state of a new run is an agent state.
LEMMA NewStateType == NewState \in AgentStates
  BY BoundsAssumption DEF NewState, AgentStates, Plans

\* No plan that was computed is the missing plan.
LEMMA NoPlanNew == \A w \in 0..MaxWorld, n \in 0..MaxReplan : NoPlan # [world |-> w, replan |-> n]
  BY BoundsAssumption DEF NoPlan

\* Saving a checkpoint keeps the checkpoint rows well typed.
LEMMA SaveType ==
  ASSUME TypeOK, NEW n \in SavingNodes, NEW s \in AgentStates, Save(n, s)
  PROVE  /\ saved' \in [SavingNodes -> AgentStates]
         /\ newest' \in SavingNodes \cup {NoNode}
  BY DEF TypeOK, Save

\* What a resumed task starts from.
LEMMA InjectedState ==
  ASSUME NEW s \in AgentStates, NEW why \in Replies \cup Decisions
  PROVE  /\ Injected(s, why) \in AgentStates
         /\ Injected(s, why).approval \in Decisions => Injected(s, why).approval = why
         /\ why = "CLARIFY" => Injected(s, why).clarified
  BY DEF Injected, AgentStates

\* A step of a task keeps the invariant.
LEMMA TaskStepKeeps ==
  ASSUME IInv, NEW t \in Tasks, TaskStep(t)
  PROVE  IInv'
<1> DEFINE s == ctx[t]
<1>s. s \in AgentStates
  BY DEF IInv, TypeOK
<1>w. world \in 0..MaxWorld /\ cause[t] \in Causes /\ GateAt(t)
  BY DEF IInv, TypeOK, Gate
\* The other tasks are as they were.
<1>o. ASSUME NEW u \in Tasks, u # t, node'[u] = node[u], ctx'[u] = ctx[u], cause' = cause,
             recorded'[u] = recorded[u]
      PROVE  GateAt(u)'
  BY <1>o DEF IInv, Gate, GateAt
<1>1. CASE ReceiveGoal(t)
  <2>1. TypeOK'
    BY <1>1, <1>s DEF ReceiveGoal, Goto, IInv, TypeOK, AgentStates, RowStatuses
  <2>2. Gate'
    BY <1>1, <1>s, <1>w, <1>o DEF ReceiveGoal, Goto, IInv, TypeOK, Gate, GateAt, AgentStates
  <2> QED
    BY <2>1, <2>2 DEF IInv
<1>2. CASE InterpretGoal(t)
  <2>1. PICK v \in Validations(s) :
          /\ ctx' = [ctx EXCEPT ![t].approval = AfterInterpretation(@),
                                ![t].status = IF v = "FAILED_SAFE" THEN v ELSE "PLANNING"]
          /\ node' = [node EXCEPT ![t] = RouteAfterValidation(v)]
    BY <1>2 DEF InterpretGoal, Goto
  <2>2. RouteAfterValidation(v) \in {"clarify", "complete", "gather"}
    BY DEF RouteAfterValidation
  <2>3. /\ ctx'[t] \in AgentStates /\ ctx'[t].clarified = s.clarified
        /\ ctx'[t].approval \in Decisions => ctx'[t].approval = s.approval
    BY <2>1, <1>s DEF AfterInterpretation, AgentStates, IInv, TypeOK
  <2>4. RouteAfterValidation(v) = "clarify" => ~s.clarified
    BY DEF Validations, RouteAfterValidation
  <2>5. TypeOK'
    BY <1>2, <2>1, <2>2, <2>3 DEF InterpretGoal, IInv, TypeOK, RowStatuses
  <2>6. Gate'
    BY <1>2, <2>1, <2>2, <2>3, <2>4, <1>w, <1>o DEF InterpretGoal, IInv, TypeOK, Gate, GateAt
  <2> QED
    BY <2>5, <2>6 DEF IInv
<1>3. CASE PauseForClarification(t)
  <2>1. TypeOK'
    BY <1>3, <1>s, SaveType DEF PauseForClarification, Goto, IInv, TypeOK, RowStatuses
  <2>2. Gate'
    BY <1>3, <1>w, <1>o DEF PauseForClarification, Goto, IInv, TypeOK, Gate, GateAt
  <2> QED
    BY <2>1, <2>2 DEF IInv
<1>4. CASE GatherEvidence(t)
  <2>1. TypeOK'
    BY <1>4, <1>s, <1>w DEF GatherEvidence, Goto, IInv, TypeOK, AgentStates, RowStatuses
  <2>2. Gate'
    BY <1>4, <1>s, <1>w, <1>o DEF GatherEvidence, Goto, IInv, TypeOK, Gate, GateAt, AgentStates
  <2> QED
    BY <2>1, <2>2 DEF IInv
<1>5. CASE BuildState(t)
  <2>1. TypeOK'
    BY <1>5 DEF BuildState, Goto, IInv, TypeOK, RowStatuses
  <2>2. Gate'
    BY <1>5, <1>w, <1>o DEF BuildState, Goto, IInv, TypeOK, Gate, GateAt
  <2> QED
    BY <2>1, <2>2 DEF IInv
<1>6. CASE GeneratePlans(t)
  <2>1. /\ ctx'[t] \in AgentStates
        /\ ctx'[t].approval = s.approval /\ ctx'[t].clarified = s.clarified
        /\ ctx'[t].plan # NoPlan => ctx'[t].replan <= MaxReplan
        /\ \A u \in Tasks \ {t} : ctx'[u] = ctx[u]
        /\ ctx' \in [Tasks -> AgentStates]
    <3>1. CASE ReplanLimitReached(s)
      <4>1. ctx' = [ctx EXCEPT ![t].plan = NoPlan, ![t].status = "FAILED_SAGA"]
        BY <3>1, <1>6 DEF GeneratePlans
      <4>2. NoPlan \in Plans
        BY DEF Plans
      <4> QED
        BY <4>1, <4>2, <1>s DEF AgentStates, IInv, TypeOK
    <3>2. CASE ~ReplanLimitReached(s)
      <4>1. s.replan <= MaxReplan /\ s.replan \in 0..MaxReplan
        BY <3>2, <1>s, BoundsAssumption DEF ReplanLimitReached, AgentStates
      <4>2. PICK p \in Plans :
              ctx' = [ctx EXCEPT ![t].plan = p, ![t].status = "WAITING_FOR_APPROVAL"]
        BY <4>1, <3>2, <1>6, <1>s DEF GeneratePlans, AgentStates, Plans
      <4> QED
        BY <4>1, <4>2, <1>s DEF AgentStates, IInv, TypeOK
    <3> QED
      BY <3>1, <3>2
  <2>2. row' \in RowStatuses
    BY <1>6 DEF GeneratePlans, RowStatuses, IInv, TypeOK
  <2>3. TypeOK'
    BY <1>6, <2>1, <2>2 DEF GeneratePlans, Goto, IInv, TypeOK
  <2>4. Gate'
    BY <1>6, <2>1, <1>w, <1>o DEF GeneratePlans, Goto, IInv, TypeOK, Gate, GateAt
  <2> QED
    BY <2>3, <2>4 DEF IInv
<1>7. CASE PauseForApproval(t)
  <2>1. CASE s.approval \in Decisions
    <3>1. /\ ctx' = [ctx EXCEPT ![t].status = "EXECUTING"]
          /\ node[t] = "pause" /\ node' = [node EXCEPT ![t] = "record"]
          /\ UNCHANGED <<row, saved, newest, cause, approved, recorded, call, world>>
      BY <1>7, <2>1 DEF PauseForApproval, Goto, shared
    <3>2. TypeOK'
      BY <3>1, <1>s DEF IInv, TypeOK, AgentStates
    <3>a. ctx'[t].approval = s.approval /\ ctx'[t].clarified = s.clarified
          /\ ctx'[t].plan = s.plan /\ ctx'[t].replan = s.replan
      BY <3>1, <1>s DEF IInv, TypeOK, AgentStates
    <3>b. GateAt(t)'
      BY <3>1, <3>a, <2>1, <1>w DEF IInv, TypeOK, GateAt
    <3>3. Gate'
      BY <3>1, <3>b, <1>o DEF IInv, TypeOK, Gate
    <3> QED
      BY <3>2, <3>3 DEF IInv
  <2>2. CASE s.approval \notin Decisions
    <3>1. /\ ctx' = [ctx EXCEPT ![t].status = "WAITING_FOR_APPROVAL", ![t].approval = "PENDING"]
          /\ node' = [node EXCEPT ![t] = "ended"]
          /\ row' = "WAITING_FOR_APPROVAL"
          /\ Save("pause", ctx'[t])
          /\ UNCHANGED <<cause, approved, recorded, call, world>>
      BY <1>7, <2>2 DEF PauseForApproval, Goto
    <3>2. ctx'[t] \in AgentStates /\ ctx' \in [Tasks -> AgentStates]
      BY <3>1, <1>s DEF AgentStates, IInv, TypeOK
    <3>3. TypeOK'
      BY <3>1, <3>2, SaveType DEF IInv, TypeOK, RowStatuses
    <3>4. Gate'
      BY <3>1, <1>s, <1>w, <1>o DEF IInv, TypeOK, Gate, GateAt, AgentStates
    <3> QED
      BY <3>3, <3>4 DEF IInv
  <2> QED
    BY <2>1, <2>2
<1>8. CASE UpdatePreferenceMemory(t)
  <2>1. /\ ctx' = [ctx EXCEPT ![t].approval = IF s.approval = "MODIFY" THEN "PENDING" ELSE s.approval]
        /\ node' = [node EXCEPT ![t] = RouteAfterPreference(s.approval)]
        /\ recorded' = [recorded EXCEPT ![t] = @ \cup {s.approval}]
        /\ UNCHANGED <<row, saved, newest, cause, approved, call, world>>
    BY <1>8 DEF UpdatePreferenceMemory, Goto, shared
  <2>2. /\ RouteAfterPreference(s.approval) \in {"interpret", "saga", "complete"}
        /\ RouteAfterPreference(s.approval) = "saga" => s.approval = "APPROVED"
    BY DEF RouteAfterPreference
  <2>3. /\ s.approval \in {"UNSET", "PENDING"} \cup Decisions
        /\ node[t] = "record"
    BY <1>s, <1>8 DEF AgentStates, UpdatePreferenceMemory
  <2>4. TypeOK'
    BY <2>1, <2>2, <2>3, <1>s DEF IInv, TypeOK, AgentStates
  <2>5. Gate'
    BY <2>1, <2>2, <2>3, <1>s, <1>w, <1>o DEF IInv, TypeOK, Gate, GateAt, AgentStates
  <2> QED
    BY <2>4, <2>5 DEF IInv
<1>9. CASE ExecuteSaga(t)
  <2>1. PICK outcome \in SagaOutcomes(s) :
          /\ row' = outcome
          /\ ctx' = [ctx EXCEPT ![t].status = outcome, ![t].replan = NextReplanCount(s, outcome)]
          /\ node' = [node EXCEPT ![t] = IF outcome = "REPLANNING" THEN "interpret" ELSE "complete"]
    BY <1>9 DEF ExecuteSaga, Goto
  <2>2. outcome \in {"EXECUTED", "REPLANNING", "FAILED_SAGA"}
    BY DEF SagaOutcomes
  \* Only a saga with a plan asks for another one, and it is within the limit.
  <2>3. NextReplanCount(s, outcome) \in 0..(MaxReplan + 1)
    <3>1. CASE outcome = "REPLANNING"
      <4>1. s.plan # NoPlan
        BY <3>1, <2>1 DEF SagaOutcomes
      <4>2. s.replan <= MaxReplan /\ s.replan \in Nat
        BY <4>1, <1>9, <1>w, <1>s, BoundsAssumption DEF ExecuteSaga, GateAt, AgentStates
      <4> QED
        BY <3>1, <4>2, BoundsAssumption DEF NextReplanCount
    <3>2. CASE outcome # "REPLANNING"
      BY <3>2, <1>s DEF NextReplanCount, AgentStates
    <3> QED
      BY <3>1, <3>2
  <2>4. TypeOK'
    BY <1>9, <2>1, <2>2, <2>3, <1>s DEF ExecuteSaga, IInv, TypeOK, AgentStates, RowStatuses
  <2>5. Gate'
    BY <1>9, <2>1, <2>2, <1>s, <1>w, <1>o DEF ExecuteSaga, IInv, TypeOK, Gate, GateAt, AgentStates
  <2> QED
    BY <2>4, <2>5 DEF IInv
<1>10. CASE CompleteRun(t)
  <2>1. row' \in RowStatuses
    BY <1>10 DEF CompleteRun, FinalStatus, RowStatuses
  <2>2. TypeOK'
    BY <1>10, <1>s, <2>1, SaveType DEF CompleteRun, Goto, IInv, TypeOK
  <2>3. Gate'
    BY <1>10, <1>w, <1>o DEF CompleteRun, Goto, IInv, TypeOK, Gate, GateAt
  <2> QED
    BY <2>2, <2>3 DEF IInv
<1> QED
  BY <1>1, <1>2, <1>3, <1>4, <1>5, <1>6, <1>7, <1>8, <1>9, <1>10 DEF TaskStep

\* A step of a manager's call keeps the invariant.
LEMMA CallStepKeeps ==
  ASSUME IInv, NEW c \in Calls,
         \/ \E d \in Decisions : ApproveRun(c, d)
         \/ (\E reply \in Replies : ClarifyRun(c, reply)) \/ CancelRun(c) \/ ResumeRun(c) \/ CancelWrite(c)
  PROVE  IInv'
<1>1. ASSUME NEW step, NEW why, [step |-> step, cause |-> why] \in CallSteps,
             ReadStatus(c, step, why)
      PROVE  IInv'
  <2>1. call' \in [Calls -> CallSteps]
    BY <1>1 DEF ReadStatus, IInv, TypeOK
  <2> QED
    BY <1>1, <2>1 DEF ReadStatus, shared, tasks, IInv, TypeOK, Gate, GateAt
<1>2. CASE \E d \in Decisions : ApproveRun(c, d)
  BY <1>1, <1>2 DEF ApproveRun, CallSteps
<1>3. CASE (\E reply \in Replies : ClarifyRun(c, reply)) \/ CancelRun(c)
  BY <1>1, <1>3 DEF ClarifyRun, CancelRun, CallSteps
<1>4. CASE CancelWrite(c)
  BY <1>4 DEF CancelWrite, Answer, tasks, IInv, TypeOK, Gate, GateAt, CallSteps, RowStatuses
<1>5. CASE ResumeRun(c)
  <2>1. call' \in [Calls -> CallSteps]
    BY <1>5 DEF ResumeRun, Answer, IInv, TypeOK, CallSteps
  <2>2. CASE UNCHANGED tasks
    BY <1>5, <2>1, <2>2 DEF ResumeRun, shared, tasks, IInv, TypeOK, Gate, GateAt
  <2>3. CASE ~ UNCHANGED tasks
    <3> DEFINE t == CHOOSE u \in Tasks : node[u] = "free"
               why == call[c].cause
               s == Injected(saved[newest], why)
    <3>1. /\ t \in Tasks /\ ~NoCheckpoint
          /\ node' = [node EXCEPT ![t] = "receive"]
          /\ ctx' = [ctx EXCEPT ![t] = s]
          /\ cause' = [cause EXCEPT ![t] = why]
          /\ approved' = [approved EXCEPT ![t] = IF why = "APPROVED" THEN saved[newest].plan ELSE NoPlan]
          /\ UNCHANGED <<row, saved, newest, recorded, world>>
      BY <1>5, <2>3 DEF ResumeRun, Goto, shared
    <3>2. saved[newest] \in AgentStates
      BY <3>1 DEF NoCheckpoint, IInv, TypeOK
    <3>3. why \in Replies \cup Decisions
      BY <1>5 DEF ResumeRun, IInv, TypeOK, CallSteps
    <3>4. /\ s \in AgentStates
          /\ s.approval \in Decisions => s.approval = why
          /\ why = "CLARIFY" => s.clarified
      BY <3>2, <3>3, InjectedState
    <3>5. saved[newest].plan \in Plans /\ NoPlan \in Plans
      BY <3>2 DEF AgentStates, Plans
    <3>6. TypeOK'
      BY <3>1, <3>3, <3>4, <3>5, <2>1 DEF IInv, TypeOK, Causes
    <3>7. node[t] = "free"
      BY <1>5, <2>3 DEF ResumeRun
    <3> HIDE DEF t, s, why
    <3>8. ASSUME NEW u \in Tasks PROVE GateAt(u)'
      <4>1. CASE u = t
        <5>1. recorded'[t] = {}
          BY <3>1, <3>7 DEF IInv, Gate, GateAt
        <5>2. ctx'[t] = s /\ node'[t] = "receive" /\ cause'[t] = why
          BY <3>1 DEF IInv, TypeOK
        <5> QED
          BY <4>1, <5>1, <5>2, <3>4 DEF GateAt
      <4>2. CASE u # t
        BY <3>1, <4>2 DEF IInv, TypeOK, Gate, GateAt
      <4> QED
        BY <4>1, <4>2
    <3>9. Gate'
      BY <3>8 DEF Gate
    <3> QED
      BY <3>6, <3>9 DEF IInv
  <2> QED
    BY <2>2, <2>3
<1> QED
  BY <1>2, <1>3, <1>4, <1>5

\* The invariant that carries the results below.
LEMMA InductiveInvariant == Spec => []IInv
<1>1. Init => IInv
  <2> SUFFICES ASSUME Init PROVE IInv
    OBVIOUS
  <2>1. NewState \in AgentStates /\ NoPlan \in Plans
    BY NewStateType DEF Plans
  <2>2. TypeOK
    BY <2>1, BoundsAssumption DEF Init, TypeOK, RowStatuses, Causes, CallSteps
  <2>3. Gate
    BY DEF Init, Gate, GateAt, NewState
  <2> QED
    BY <2>2, <2>3 DEF IInv
<1>2. IInv /\ [Next]_vars => IInv'
  <2> SUFFICES ASSUME IInv, [Next]_vars PROVE IInv'
    OBVIOUS
  <2>1. ASSUME NEW t \in Tasks, TaskStep(t) PROVE IInv'
    BY <2>1, TaskStepKeeps
  <2>2. ASSUME NEW t \in Tasks, TaskFails(t) PROVE IInv'
    BY <2>2 DEF TaskFails, Goto, shared, IInv, TypeOK, Gate, GateAt
  <2>3. ASSUME NEW c \in Calls,
               \/ \E d \in Decisions : ApproveRun(c, d)
               \/ (\E reply \in Replies : ClarifyRun(c, reply)) \/ CancelRun(c) \/ ResumeRun(c) \/ CancelWrite(c)
        PROVE  IInv'
    BY <2>3, CallStepKeeps
  <2>4. CASE EnterpriseChange
    BY <2>4, BoundsAssumption DEF EnterpriseChange, shared, tasks, IInv, TypeOK, Gate, GateAt
  <2>5. CASE UNCHANGED vars
    BY <2>5 DEF vars, shared, tasks, IInv, TypeOK, Gate, GateAt
  <2> QED
    BY <2>1, <2>2, <2>3, <2>4, <2>5 DEF Next
<1> QED
  BY <1>1, <1>2, PTL DEF Spec

\* Every reachable state is well typed; in particular replan_count never
\* exceeds the limit by more than one.
THEOREM TypeCorrect == Spec => []TypeOK
  BY InductiveInvariant, PTL DEF IInv

\* No task executes a saga unless an APPROVED decision started it, for any
\* number of overlapping decisions and whatever the checkpoints carry.
THEOREM SagaApproved == Spec => []SagaNeedsApproval
<1>1. IInv => SagaNeedsApproval
  BY DEF IInv, Gate, GateAt, SagaNeedsApproval
<1> QED
  BY <1>1, InductiveInvariant, PTL

\* A saga that has a plan is within the replanning limit.
THEOREM ReplanningBounded == Spec => []ReplanLimitHolds
<1>1. IInv => ReplanLimitHolds
  BY DEF IInv, Gate, GateAt, ReplanLimitHolds
<1> QED
  BY <1>1, InductiveInvariant, PTL

\* A task that an answer with words started does not pause for another one,
\* whatever checkpoints the run has and however decisions overlap.
THEOREM ClarificationSettles == Spec => []ClarifiedTaskGoesOn
<1>1. IInv => ClarifiedTaskGoesOn
  BY DEF IInv, Gate, GateAt, ClarifiedTaskGoesOn
<1> QED
  BY <1>1, InductiveInvariant, PTL

\* The preference memory learns from a task only the decision that started it.
THEOREM OwnDecision == Spec => []RecordsOwnDecision
<1>1. IInv => RecordsOwnDecision
  BY DEF IInv, Gate, GateAt, RecordsOwnDecision
<1> QED
  BY <1>1, InductiveInvariant, PTL

-----------------------------------------------------------------------------
\* The manager decides only while the run waits; nobody cancels, no task dies.
Undisturbed == Environment \subseteq {"modify"}

Pending(c) == call[c].step \notin {"idle", "done"}

\* Undisturbed, a run has one task or one pending decision at a time.  A closed
\* run has neither, and one without a task stands at a gate that can be resumed.
OneAtATime ==
  /\ \A t, u \in Tasks : Running(t) /\ Running(u) => t = u
  /\ \A c \in Calls : Pending(c) => Quiet /\ row \notin Closed /\ call[c].step = "resume"
  /\ \A c, d \in Calls : Pending(c) /\ Pending(d) => c = d
  /\ row \in Closed => Quiet
  /\ \A t \in Tasks : node[t] = "clarify" => ctx[t].approval # "UNSET"
  /\ QuietRunIsSettled

\* A task that takes a step was running; the calls and the other tasks stay.
LEMMA TaskStepFrame ==
  ASSUME IInv, NEW t \in Tasks, TaskStep(t)
  PROVE  /\ Running(t) /\ UNCHANGED call
         /\ \A u \in Tasks \ {t} : node'[u] = node[u] /\ ctx'[u] = ctx[u]
         /\ node'[t] \in Nodes \cup {"ended"}
<1>1. TypeOK
  BY DEF IInv
<1>2. CASE InterpretGoal(t)
  BY <1>1, <1>2 DEF InterpretGoal, RouteAfterValidation, Goto, TypeOK, Running
<1>3. CASE UpdatePreferenceMemory(t)
  BY <1>1, <1>3 DEF UpdatePreferenceMemory, RouteAfterPreference, Goto, TypeOK, Running
<1>4. CASE ExecuteSaga(t)
  BY <1>1, <1>4 DEF ExecuteSaga, Goto, TypeOK, Running
<1>5. CASE GeneratePlans(t)
  BY <1>1, <1>5 DEF GeneratePlans, Goto, TypeOK, Running
<1>6. CASE PauseForApproval(t)
  BY <1>1, <1>6 DEF PauseForApproval, Goto, TypeOK, Running
<1>7. CASE ReceiveGoal(t) \/ GatherEvidence(t) \/ BuildState(t)
  BY <1>1, <1>7 DEF ReceiveGoal, GatherEvidence, BuildState, Goto, TypeOK, Running
<1>8. CASE PauseForClarification(t) \/ CompleteRun(t)
  BY <1>1, <1>8 DEF PauseForClarification, CompleteRun, Goto, TypeOK, Running
<1> QED
  BY <1>2, <1>3, <1>4, <1>5, <1>6, <1>7, <1>8 DEF TaskStep

\* A node that does not end its task closes no run; one that ends it leaves the
\* run at a gate with its checkpoint, or final.
LEMMA TaskStepSettles ==
  ASSUME IInv, NEW t \in Tasks, TaskStep(t), row \notin Closed,
         node[t] = "clarify" => ctx[t].approval # "UNSET"
  PROVE  /\ node'[t] # "ended" => row' \notin Closed
         /\ node'[t] = "clarify" => ctx'[t].approval # "UNSET"
         /\ node'[t] = "ended" =>
              \/ row' \in {"COMPLETED", "FAILED", "FAILED_SAGA"}
              \/ row' = "WAITING_FOR_APPROVAL" /\ "pause" \in SavedNodes'
              \/ row' = "WAITING_FOR_CLARIFICATION" /\ "clarify" \in SavedNodes'
<1>1. TypeOK /\ NewState.approval = "UNSET"
  BY DEF IInv, NewState
<1>2. ASSUME NEW n \in SavingNodes, NEW s \in AgentStates, Save(n, s), s.approval # "UNSET"
      PROVE  n \in SavedNodes'
  BY <1>1, <1>2 DEF Save, SavedNodes, TypeOK
<1>3. CASE InterpretGoal(t)
  <2>1. row' = "INTERPRETED" /\ node'[t] # "ended"
    BY <1>1, <1>3 DEF InterpretGoal, RouteAfterValidation, Goto, TypeOK
  <2>2. ctx'[t].approval # "UNSET"
    BY <1>1, <1>3 DEF InterpretGoal, AfterInterpretation, TypeOK, AgentStates
  <2> QED
    BY <2>1, <2>2
<1>4. CASE PauseForClarification(t)
  BY <1>1, <1>2, <1>4 DEF PauseForClarification, Goto, TypeOK
<1>5. CASE PauseForApproval(t)
  <2>1. CASE ctx[t].approval \in Decisions
    BY <1>1, <1>5, <2>1 DEF PauseForApproval, Goto, TypeOK, shared
  <2>2. CASE ctx[t].approval \notin Decisions
    <3>1. /\ row' = "WAITING_FOR_APPROVAL" /\ node' = [node EXCEPT ![t] = "ended"]
          /\ ctx' = [ctx EXCEPT ![t].status = "WAITING_FOR_APPROVAL", ![t].approval = "PENDING"]
          /\ Save("pause", ctx'[t])
      BY <1>5, <2>2 DEF PauseForApproval, Goto
    <3>2. ctx'[t] \in AgentStates /\ ctx'[t].approval = "PENDING"
      <4>1. ctx[t] \in AgentStates /\ ctx \in [Tasks -> AgentStates]
        BY <1>1 DEF TypeOK
      <4> QED
        BY <3>1, <4>1 DEF AgentStates
    <3>3. "pause" \in SavedNodes'
      BY <1>2, <3>1, <3>2
    <3> QED
      BY <1>1, <3>1, <3>3 DEF TypeOK
  <2> QED
    BY <2>1, <2>2
<1>6. CASE GeneratePlans(t)
  <2>1. row' \notin Closed /\ node' = [node EXCEPT ![t] = "pause"]
    BY <1>6 DEF GeneratePlans, Goto
  <2> QED
    BY <1>1, <2>1 DEF TypeOK
<1>7. CASE CompleteRun(t)
  <2>1. row' \in {"COMPLETED", "FAILED", "FAILED_SAGA"} /\ node' = [node EXCEPT ![t] = "ended"]
    BY <1>7 DEF CompleteRun, FinalStatus, Goto
  <2> QED
    BY <1>1, <2>1 DEF TypeOK
<1>8. CASE UpdatePreferenceMemory(t)
  BY <1>1, <1>8 DEF UpdatePreferenceMemory, RouteAfterPreference, Goto, shared, TypeOK
<1>9. CASE ExecuteSaga(t)
  <2>1. row' \notin Closed /\ node'[t] \in {"interpret", "complete"}
    BY <1>1, <1>9 DEF ExecuteSaga, SagaOutcomes, Goto, TypeOK
  <2> QED
    BY <2>1
<1>10. CASE ReceiveGoal(t) \/ GatherEvidence(t) \/ BuildState(t)
  BY <1>1, <1>10 DEF ReceiveGoal, GatherEvidence, BuildState, Goto, TypeOK
<1> QED
  BY <1>3, <1>4, <1>5, <1>6, <1>7, <1>8, <1>9, <1>10 DEF TaskStep

\* One at a time: the inductive step.
LEMMA OneAtATimeStep ==
  ASSUME Undisturbed, IInv, OneAtATime, [Next]_vars
  PROVE  OneAtATime'
<1>1. ASSUME NEW t \in Tasks, TaskStep(t) PROVE OneAtATime'
  <2>1. /\ Running(t) /\ UNCHANGED call
        /\ \A u \in Tasks \ {t} : node'[u] = node[u] /\ ctx'[u] = ctx[u]
        /\ node'[t] \in Nodes \cup {"ended"}
    BY <1>1, TaskStepFrame
  <2>2. ~Quiet /\ row \notin Closed /\ \A c \in Calls : ~Pending(c)
    BY <2>1 DEF OneAtATime, Quiet
  <2>3. \A u \in Tasks \ {t} : ~Running(u) /\ ~Running(u)'
    BY <2>1 DEF OneAtATime, Running
  <2>4. \A c \in Calls : ~Pending(c)'
    BY <2>1, <2>2 DEF Pending
  <2>5. Quiet' <=> node'[t] = "ended"
    BY <2>1, <2>3 DEF Quiet, Running
  <2>6. /\ node'[t] # "ended" => row' \notin Closed
        /\ node'[t] = "clarify" => ctx'[t].approval # "UNSET"
        /\ node'[t] = "ended" =>
             \/ row' \in {"COMPLETED", "FAILED", "FAILED_SAGA"}
             \/ row' = "WAITING_FOR_APPROVAL" /\ "pause" \in SavedNodes'
             \/ row' = "WAITING_FOR_CLARIFICATION" /\ "clarify" \in SavedNodes'
    BY <1>1, <2>2, TaskStepSettles DEF OneAtATime
  <2>7. \A u \in Tasks \ {t} : node'[u] = "clarify" => ctx'[u].approval # "UNSET"
    BY <2>1 DEF OneAtATime
  <2>8. QuietRunIsSettled'
    BY <2>5, <2>6 DEF QuietRunIsSettled
  <2> QED
    BY <2>3, <2>4, <2>5, <2>6, <2>7, <2>8 DEF OneAtATime
<1>2. \A t \in Tasks : ~TaskFails(t)
  BY DEF TaskFails, Undisturbed
<1>3. ASSUME NEW c \in Calls, NEW why, ReadStatus(c, "resume", why) PROVE OneAtATime'
  <2>1. /\ Quiet /\ NoCallPending /\ row \notin Closed /\ UNCHANGED <<shared, tasks, world>>
        /\ call' = [call EXCEPT ![c] = [step |-> "resume", cause |-> why]]
    BY <1>3 DEF ReadStatus, MayDecide, Undisturbed
  <2>2. call'[c].step = "resume" /\ \A d \in Calls \ {c} : ~Pending(d)'
    BY <2>1 DEF IInv, TypeOK, NoCallPending, Pending
  <2> QED
    BY <2>1, <2>2 DEF shared, tasks, OneAtATime, Quiet, Running, QuietRunIsSettled, SavedNodes, Pending
<1>4. \A c \in Calls : ~CancelRun(c)
  BY DEF CancelRun, Undisturbed
<1>5. \A c \in Calls : ~CancelWrite(c)
  BY DEF CancelWrite, OneAtATime, Pending
<1>6. ASSUME NEW c \in Calls, ResumeRun(c) PROVE OneAtATime'
  <2>1. /\ Quiet /\ row \notin Closed /\ \A d \in Calls : ~Pending(d)'
    BY <1>6 DEF ResumeRun, Answer, OneAtATime, Pending, IInv, TypeOK
  <2>2. CASE UNCHANGED tasks
    BY <1>6, <2>1, <2>2
    DEF ResumeRun, shared, tasks, OneAtATime, Quiet, Running, QuietRunIsSettled, SavedNodes
  <2>3. ASSUME NEW t \in Tasks, node' = [node EXCEPT ![t] = "receive"], UNCHANGED row,
               \A u \in Tasks \ {t} : ctx'[u] = ctx[u]
        PROVE  OneAtATime'
    <3>1. /\ \A u \in Tasks \ {t} : node'[u] = node[u] /\ ~Running(u) /\ ~Running(u)'
          /\ node'[t] = "receive" /\ Running(t)'
      BY <2>1, <2>3 DEF Quiet, Running, IInv, TypeOK
    <3>2. ~Quiet'
      BY <3>1 DEF Quiet
    <3> QED
      BY <2>1, <2>3, <3>1, <3>2 DEF OneAtATime, QuietRunIsSettled
  <2> DEFINE t == CHOOSE u \in Tasks : node[u] = "free"
  <2>4. CASE ~UNCHANGED tasks
    <3>1. PICK s : /\ t \in Tasks
                   /\ node' = [node EXCEPT ![t] = "receive"] /\ UNCHANGED row
                   /\ ctx' = [ctx EXCEPT ![t] = s]
      BY <1>6, <2>4 DEF ResumeRun, Goto, shared
    <3> HIDE DEF t
    <3> QED
      BY <2>3, <3>1 DEF IInv, TypeOK
  <2> QED
    BY <2>2, <2>4
<1>7. CASE EnterpriseChange \/ UNCHANGED vars
  BY <1>7
  DEF EnterpriseChange, vars, shared, tasks, OneAtATime, Quiet, Running, QuietRunIsSettled,
      SavedNodes, Pending
<1> QED
  BY <1>1, <1>2, <1>3, <1>4, <1>5, <1>6, <1>7 DEF Next, ApproveRun, ClarifyRun

\* One at a time from the first task on.
LEMMA OneAtATimeInit == ASSUME Init PROVE OneAtATime
<1>1. FirstTask \in Tasks
  BY TasksAssumption DEF FirstTask
<1>2. Running(FirstTask) /\ \A t \in Tasks \ {FirstTask} : ~Running(t)
  BY <1>1 DEF Init, Running
<1>3. ~Quiet /\ row = "ABSENT" /\ \A c \in Calls : ~Pending(c)
  BY <1>1, <1>2 DEF Quiet, Init, Pending
<1> QED
  BY <1>2, <1>3 DEF OneAtATime, QuietRunIsSettled, Init

\* The invariant of an undisturbed run.
LEMMA UndisturbedInvariant == ASSUME Undisturbed PROVE Spec => [](IInv /\ OneAtATime)
<1>1. Init => OneAtATime
  BY OneAtATimeInit
<1>2. IInv /\ OneAtATime /\ [Next]_vars => OneAtATime'
  BY OneAtATimeStep
<1> QED
  BY <1>1, <1>2, InductiveInvariant, PTL DEF Spec

\* While nobody cancels, no task dies and decisions do not overlap, a run that
\* no task works on waits at a gate with a checkpoint to resume from, or is
\* final: after any number of decisions, clarifications and replanning rounds.
THEOREM QuietSettled == ASSUME Undisturbed PROVE Spec => []QuietRunIsSettled
<1>1. OneAtATime => QuietRunIsSettled
  BY DEF OneAtATime
<1> QED
  BY <1>1, UndisturbedInvariant, PTL

\* Under the same conditions a completed, failed or cancelled run keeps its
\* status: no task and no decision is left that could overwrite it.
THEOREM ClosedForGood == ASSUME Undisturbed PROVE Spec => ClosedStaysClosed
<1>1. IInv /\ OneAtATime /\ [Next]_vars => [(row \in Closed) => (row' = row)]_vars
  <2> SUFFICES ASSUME IInv, OneAtATime, [Next]_vars, row \in Closed PROVE row' = row
    OBVIOUS
  <2>1. /\ \A t \in Tasks : ~TaskStep(t) /\ ~TaskFails(t)
        /\ \A c \in Calls : ~Pending(c)
    BY TaskStepFrame DEF OneAtATime, Quiet, TaskFails
  <2>2. \A c \in Calls : ~CancelWrite(c)
    BY <2>1 DEF Pending, CancelWrite
  <2> QED
    BY <2>1, <2>2
    DEF Next, ApproveRun, ClarifyRun, CancelRun, ReadStatus, ResumeRun, EnterpriseChange, vars, shared
<1> QED
  BY <1>1, UndisturbedInvariant, PTL DEF Spec, ClosedStaysClosed
=============================================================================
