----------------------------- MODULE SagaVerdict -----------------------------
(***************************************************************************)
(* What an execution tells the graph, whatever it has met.                 *)
(*                                                                         *)
(* A plan, a set of pairs of a specialist and an incident of which none is *)
(* excluded, is executed as a whole and gets one verdict.  Only a plan     *)
(* with work can fail or be refused, a refusal excludes one pair of the    *)
(* plan and starts a round, and nothing else excludes or counts.  A new    *)
(* task of the run goes back, as a whole, to what was saved last.          *)
(* AgentRun takes an execution for one step with these outcomes.           *)
(***************************************************************************)
EXTENDS Naturals

CONSTANTS Runs, Pairs, MaxReplan

VARIABLES
  at,        \* per run: "idle", "running", "settled", "done"
  plan,      \* the pairs of the plan
  round,     \* replan_count
  excluded,  \* excluded_specialist_incidents
  outcome,   \* the last verdict of the task
  saved      \* the round and the exclusions that a new task starts from

verdict == <<at, plan, round, excluded, outcome, saved>>

Current(r) == [round |-> round[r], excluded |-> excluded[r]]

VerdictInit ==
  /\ at = [r \in Runs |-> "idle"]
  /\ plan = [r \in Runs |-> {}]
  /\ round = [r \in Runs |-> 0]
  /\ excluded = [r \in Runs |-> {}]
  /\ outcome = [r \in Runs |-> "none"]
  /\ saved = [r \in Runs |-> Current(r)]

Begin(r, pairs) ==
  /\ at[r] = "idle" /\ round[r] <= MaxReplan
  /\ at' = [at EXCEPT ![r] = "running"]
  /\ plan' = [plan EXCEPT ![r] = pairs]
  /\ outcome' = [outcome EXCEPT ![r] = "none"]
  /\ UNCHANGED <<round, excluded, saved>>

Ends(r, what) ==
  /\ at[r] = "running"
  /\ at' = [at EXCEPT ![r] = "settled"]
  /\ outcome' = [outcome EXCEPT ![r] = what]
  /\ UNCHANGED <<plan, round, excluded, saved>>

Execute(r) == Ends(r, "EXECUTED")
Fail(r) == plan[r] # {} /\ Ends(r, "FAILED_SAGA")

\* A specialist refuses or does not answer: the graph plans again without the pair.
Refuse(r, pair) ==
  /\ at[r] = "running"
  /\ at' = [at EXCEPT ![r] = "idle"]
  /\ plan' = [plan EXCEPT ![r] = {}]
  /\ round' = [round EXCEPT ![r] = @ + 1]
  /\ excluded' = [excluded EXCEPT ![r] = @ \cup {pair}]
  /\ outcome' = [outcome EXCEPT ![r] = "REPLANNING"]
  /\ UNCHANGED saved

\* The run ends, with a checkpoint that need not be its newest.
Close(r) ==
  /\ at[r] = "settled"
  /\ at' = [at EXCEPT ![r] = "done"]
  /\ saved' \in {saved, [saved EXCEPT ![r] = Current(r)]}
  /\ UNCHANGED <<plan, round, excluded, outcome>>

\* Between two rounds the run stops at a checkpoint of its own.
Pause(r) ==
  /\ at[r] = "idle"
  /\ saved' = [saved EXCEPT ![r] = Current(r)]
  /\ UNCHANGED <<at, plan, round, excluded, outcome>>

\* A task is lost, or a failed run is approved again: the next task has a plan
\* of its own, and the round and the exclusions of one checkpoint.
Anew(r) ==
  /\ at[r] = "done" => outcome[r] = "FAILED_SAGA"
  /\ at' = [at EXCEPT ![r] = "idle"]
  /\ plan' = [plan EXCEPT ![r] = {}]
  /\ round' = [round EXCEPT ![r] = saved[r].round]
  /\ excluded' = [excluded EXCEPT ![r] = saved[r].excluded]
  /\ UNCHANGED <<outcome, saved>>

VerdictNext ==
  \E r \in Runs :
    \/ \E pairs \in SUBSET (Pairs \ excluded[r]) : Begin(r, pairs)
    \/ Execute(r) \/ Fail(r) \/ Close(r) \/ Pause(r) \/ Anew(r)
    \/ \E pair \in plan[r] : Refuse(r, pair)

VerdictSpec == VerdictInit /\ [][VerdictNext]_verdict
=============================================================================
