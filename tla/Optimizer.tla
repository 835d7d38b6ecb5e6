------------------------------- MODULE Optimizer -------------------------------
(***************************************************************************)
(* The optimizers of core-api: which specialist is planned for which open  *)
(* incident, over the rounds of one run.                                   *)
(*                                                                         *)
(* CP-SAT is what its model says: any plan that meets the constraints and, *)
(* unless the time limit cuts it short, maximises the objective of the     *)
(* profile.  The greedy optimizer, configured or fallen back to, places    *)
(* one incident after the other.  When a specialist refuses, the pair is   *)
(* excluded, what was confirmed meanwhile is part of the data, and the run *)
(* plans again.                                                            *)
(***************************************************************************)
EXTENDS Integers, FiniteSets, FiniteSetsExt

CONSTANTS
  Backlog, Specialists,
  Inputs,     \* what the tool services may answer, see InputShape
  Worth,      \* per incident: ARR of its customer in thousands
  Priority,   \* per incident: the SLA score of its priority
  Weights,    \* the optimization profiles: see Objective
  MaxReplan

Nobody == "nobody"

InputShape ==
  [capacity : [Specialists -> Int], load : [Specialists -> Nat],
   able : SUBSET (Backlog \X Specialists),         \* has a required skill
   status : [Backlog -> {"OPEN", "IN_PROGRESS"}],
   assigned : SUBSET Backlog]

ProfileWeights ==
  [arr : Int, sla : Int, skills : Int, fairness : Int, context_switch : Int, unassigned_penalty : Int]

ASSUME PlannerAssumption ==
  /\ IsFiniteSet(Backlog) /\ IsFiniteSet(Specialists) /\ Nobody \notin Specialists
  /\ Inputs \subseteq InputShape
  /\ Worth \in [Backlog -> Int] /\ Priority \in [Backlog -> Int]
  /\ Weights \subseteq ProfileWeights
  /\ MaxReplan \in Nat

VARIABLES
  input,     \* the evidence of this round
  excluded,  \* excluded_specialist_incidents
  round,     \* replan_count
  outcome,   \* "none", the solver's status or "GREEDY"
  todo,      \* incidents the greedy loop has still to place
  plan       \* per incident: the planned specialist

plannerVars == <<input, excluded, round, outcome, todo, plan>>

NoPlan == [i \in Backlog |-> Nobody]
Plans == [Backlog -> Specialists \cup {Nobody}]
Planned(p) == {i \in Backlog : p[i] # Nobody}
LoadUnder(p, s) == input.load[s] + Cardinality({i \in Backlog : p[i] = s})
LargestOf(f(_), S) == {x \in S : \A y \in S : f(y) <= f(x)}

Allowed(i, s) == <<i, s>> \in input.able /\ <<i, s>> \notin excluded

PlannerInit ==
  /\ input \in Inputs
  /\ excluded = {} /\ round = 0
  /\ outcome = "none" /\ todo = {} /\ plan = NoPlan

-----------------------------------------------------------------------------
(* CP-SAT                                                                  *)

\* Mutant: incidents that are assigned already are planned as well.
AllOpen == Backlog
OpenForSolver == Backlog \ input.assigned

\* Mutant: every incident must be assigned to someone.
MustAssign(p) == \A i \in OpenForSolver : p[i] # Nobody
\* The variable u: an incident may stay unassigned.
MayLeaveOut(p) == TRUE

\* The capacity constraint is there for every specialist, planned for or not.
Feasible(p) ==
  /\ \A i \in Planned(p) : i \in OpenForSolver /\ Allowed(i, p[i])
  /\ \A s \in Specialists : LoadUnder(p, s) <= input.capacity[s]
  /\ MayLeaveOut(p)

FeasiblePlans == {p \in Plans : Feasible(p)}

MaxLoad(p) == Max({0} \cup {LoadUnder(p, s) : s \in Specialists})

\* What the profile gives for an incident that is done.  A pair that is able
\* matches one skill here.
Gain(w, i) == w.arr * Worth[i] + w.sla * Priority[i] + w.skills
Earned(w, S) == MapThenSumSet(LAMBDA i : Gain(w, i), S)
\* The incidents of specialists who have work already.
Switches(p) == {i \in Planned(p) : input.load[p[i]] > 0}

\* Mutant: nothing is lost by an incident that stays unassigned.
ObjectiveWithoutPenalty(w, p) ==
  Earned(w, Planned(p)) - w.context_switch * Cardinality(Switches(p)) - w.fairness * MaxLoad(p)

Objective(w, p) ==
  Earned(w, Planned(p)) - w.context_switch * Cardinality(Switches(p)) - w.fairness * MaxLoad(p)
  - w.unassigned_penalty * Cardinality(OpenForSolver \ Planned(p))

\* One incident more costs a context switch and a higher peak at most.  What the
\* profiles of the code charge for those is less than the penalty.
PenaltyDominates ==
  \A w \in Weights :
    /\ w.context_switch >= 0 /\ w.fairness >= 0
    /\ \A i \in Backlog : w.context_switch + w.fairness < w.unassigned_penalty + Gain(w, i)

Solved(status, p) ==
  /\ outcome' = status /\ plan' = p
  /\ UNCHANGED <<input, excluded, round, todo>>

\* _solve_portfolio
Solve(w) ==
  /\ outcome = "none"
  /\ \/ \E p \in LargestOf(LAMBDA q : Objective(w, q), FeasiblePlans) : Solved("OPTIMAL", p)
     \/ \E p \in FeasiblePlans : Solved("FEASIBLE", p)
     \/ FeasiblePlans = {} /\ Solved("INFEASIBLE", NoPlan)
     \/ Solved("TIME_LIMIT", NoPlan)

-----------------------------------------------------------------------------
(* The greedy optimizer                                                    *)

\* It is configured, or the solver failed and the fallback is allowed.  It does
\* not look whether an incident is assigned.
StartGreedy ==
  /\ outcome = "none"
  /\ \E profile \in {"Balanced", "SLA-First"} : outcome' = profile
  /\ todo' = {i \in Backlog : input.status[i] = "OPEN"}
  /\ UNCHANGED <<input, excluded, round, plan>>

\* Balanced places the incidents in the order of the answer, SLA-First by
\* score_incident_priority: a point of priority for 100 thousand of ARR.
NextIncidents ==
  IF outcome = "Balanced" THEN todo
  ELSE LargestOf(LAMBDA i : 100 * Priority[i] + Worth[i], todo)

\* Mutant: the last place is given twice.
RoomForOneMore(s) == LoadUnder(plan, s) <= input.capacity[s]
HasRoom(s) == LoadUnder(plan, s) < input.capacity[s]
Candidates(i) == {s \in Specialists : Allowed(i, s) /\ HasRoom(s)}

\* The smallest workload per capacity; the largest margin.
Preferred(S) ==
  IF outcome = "Balanced"
    THEN {s \in S : \A t \in S :
            LoadUnder(plan, s) * input.capacity[t] <= LoadUnder(plan, t) * input.capacity[s]}
    ELSE LargestOf(LAMBDA s : input.capacity[s] - LoadUnder(plan, s), S)

Place(i) ==
  /\ i \in NextIncidents
  /\ \/ \E s \in Preferred(Candidates(i)) : plan' = [plan EXCEPT ![i] = s]
     \/ Candidates(i) = {} /\ plan' = plan
  /\ todo' = todo \ {i}
  /\ UNCHANGED <<input, excluded, round, outcome>>

FinishGreedy ==
  /\ outcome \in {"Balanced", "SLA-First"} /\ todo = {}
  /\ outcome' = "GREEDY"
  /\ UNCHANGED <<input, excluded, round, todo, plan>>

-----------------------------------------------------------------------------
(* The next round                                                          *)

Ready == outcome \in {"OPTIMAL", "FEASIBLE", "INFEASIBLE", "TIME_LIMIT", "GREEDY"}

Share(confirmed, s) == Cardinality({i \in confirmed : plan[i] = s})
\* Mutant: what is confirmed is taken off the workload.
LoadLessened(confirmed) == [s \in Specialists |-> input.load[s] - Share(confirmed, s)]
\* The workload the workforce service answers next.
LoadAfter(confirmed) == [s \in Specialists |-> input.load[s] + Share(confirmed, s)]

\* One specialist has refused; the bookings confirmed before are in the data that
\* the tool services answer next.
Replan(refused, confirmed) ==
  /\ Ready /\ round < MaxReplan
  /\ excluded' = excluded \cup {<<refused, plan[refused]>>}
  /\ input' = [input EXCEPT !.assigned = @ \cup confirmed, !.load = LoadAfter(confirmed)]
  /\ round' = round + 1
  /\ outcome' = "none" /\ plan' = NoPlan
  /\ UNCHANGED todo

PlannerNext ==
  \/ \E w \in Weights : Solve(w)
  \/ StartGreedy
  \/ \E i \in Backlog : Place(i)
  \/ FinishGreedy
  \/ \E refused \in Planned(plan), confirmed \in SUBSET Planned(plan) :
       refused \notin confirmed /\ Replan(refused, confirmed)

PlannerSpec == PlannerInit /\ [][PlannerNext]_plannerVars

-----------------------------------------------------------------------------
Overloaded == {s \in Specialists : input.load[s] > input.capacity[s]}

\* The input and the plan are values the planner can hold, and only a finished
\* round has a plan without open work of the greedy loop.
PlannerTypeOK ==
  /\ input \in InputShape /\ excluded \subseteq Backlog \X Specialists
  /\ round \in 0..MaxReplan /\ plan \in Plans
  /\ todo \cap Planned(plan) = {} /\ (Ready => todo = {})

\* Whichever optimizer made it, a plan fits: nobody is planned for work he has
\* no skill for or has refused in an earlier round, and nobody beyond his
\* capacity.
PlanFits ==
  \A i \in Planned(plan) :
    /\ <<i, plan[i]>> \in input.able \ excluded
    /\ LoadUnder(plan, plan[i]) <= input.capacity[plan[i]]

\* An incident stays unassigned only when everybody who could do it is full: the
\* greedy order leaves no work undone that somebody could do.
GreedyHadNoChoice ==
  outcome = "GREEDY" => \A i \in Backlog \ Planned(plan), s \in Specialists :
    input.status[i] = "OPEN" /\ Allowed(i, s) => LoadUnder(plan, s) >= input.capacity[s]

\* And neither do the weights of a profile.
OptimalHadNoChoice ==
  outcome = "OPTIMAL" => \A i \in OpenForSolver \ Planned(plan), s \in Specialists :
    Allowed(i, s) => LoadUnder(plan, s) >= input.capacity[s]

\* An optimal plan leaves as few incidents unassigned as any plan can, whatever
\* the profile: however much the customers are worth, the weights decide who
\* does the work and never that less of it is done.
OptimalLeavesFewest ==
  outcome = "OPTIMAL" =>
    \A p \in FeasiblePlans : Cardinality(Planned(p)) <= Cardinality(Planned(plan))

\* What a specialist has accepted in an earlier round is not planned again by the
\* solver.  The greedy optimizer does not promise that.
ConfirmedNotPlannedAgain ==
  outcome \in {"OPTIMAL", "FEASIBLE"} => Planned(plan) \cap input.assigned = {}

\* The solver finds its model infeasible only if a specialist is over capacity
\* already, as an operator or the simulation can make him; and then it has no plan
\* even for the others.
InfeasibleOnlyIfOverloaded ==
  /\ outcome = "INFEASIBLE" => Overloaded # {}
  /\ outcome \in {"OPTIMAL", "FEASIBLE"} => Overloaded = {}

\* What an optimizer plans can be carried out: it is well formed, it fits the
\* skills, refusals and capacities of the evidence, and the solver plans nothing
\* twice.
PlanSound == PlannerTypeOK /\ PlanFits /\ ConfirmedNotPlannedAgain

\* What an optimizer leaves out had to be left out: of a plan, of the plans of
\* the solver, and when the solver has none.
NothingLeftUndone ==
  /\ GreedyHadNoChoice /\ OptimalHadNoChoice /\ OptimalLeavesFewest
  /\ InfeasibleOnlyIfOverloaded
=============================================================================
