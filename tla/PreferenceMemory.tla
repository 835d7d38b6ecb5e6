--------------------------- MODULE PreferenceMemory ---------------------------
(***************************************************************************)
(* What core-api learns from the manager's decisions: one row of counters, *)
(* rewritten by update_preference_memory under a lock of the process, and  *)
(* read by generate_personalized_plan to rank the candidate plans.         *)
(*                                                                         *)
(* The lock is held over the whole transaction: load, count, save, write   *)
(* the event, commit.  A load that fails answers with an empty memory.  If *)
(* the query broke the transaction, that must not commit; if it did not (a *)
(* stored memory that does not validate, a connection that was not given   *)
(* out), the row is overwritten and what was learned before is lost.       *)
(***************************************************************************)
EXTENDS Integers, FiniteSets

CONSTANTS
  DecisionIds,   \* decisions that can be taken (the bound of the history)
  Profiles,
  PlanSets,      \* sets of candidate plans: profile, objective value, similarity to the goal
  ColdStartRuns

NoProfile == "none"
NoOne == "nobody"
Statuses == {"APPROVED", "REJECTED", "MODIFY"}

\* Percentages: PROFILE_WEIGHT, GOAL_SIMILARITY_WEIGHT and, of a score, MAX_PREF_SCORE.
ProfileWeight == 70
SimilarityWeight == 30
MaxPreference == 100

\* rank_candidates is called with candidates; settings.py has cold_start_runs >= 1.
ASSUME MemoryAssumption ==
  /\ NoOne \notin DecisionIds
  /\ ColdStartRuns \in Nat \ {0}
  /\ \A plans \in PlanSets :
       /\ IsFiniteSet(plans) /\ plans # {}
       /\ plans \subseteq [profile : Profiles, objective : Int, similar : BOOLEAN]

VARIABLES
  memory,    \* the row of manager_preferences: the counters
  decision,  \* per decision: what was decided and how far its node is
  holder,    \* _preference_memory_lock
  audited,   \* decisions whose PREFERENCE_MEM_UPDATED event is committed
  lost,      \* history: those of them when a row was last rebuilt from nothing
  advice     \* the last recommendation: how far its objective is behind the best one

memoryVars == <<memory, decision, holder, audited, lost, advice>>

EmptyMemory ==
  [total |-> 0, counts |-> [p \in Profiles |-> 0], shown |-> 0, accepted |-> 0, rejected |-> 0]

Waiting == [at |-> "waiting", status |-> "APPROVED", selected |-> NoProfile,
            recommended |-> NoProfile, memory |-> EmptyMemory, read |-> "row"]

MemoryInit ==
  /\ memory = EmptyMemory
  /\ decision = [d \in DecisionIds |-> Waiting]
  /\ holder = NoOne
  /\ audited = {} /\ lost = {}
  /\ advice = [behind |-> 0, cold |-> TRUE]

-----------------------------------------------------------------------------
(* PreferenceLearningEngine.update_memory                                  *)

One(condition) == IF condition THEN 1 ELSE 0
Personalized(d) == decision[d].recommended # NoProfile
Accepted(d) ==
  decision[d].status = "APPROVED" /\ decision[d].selected = decision[d].recommended
Selects(d, p) == decision[d].status = "APPROVED" /\ decision[d].selected = p
EndsRun(d) == decision[d].status # "MODIFY"

\* Mutant: only an approval of another profile counts as a rejected recommendation.
UpdatedKindly(m, d) ==
  [total |-> m.total + One(EndsRun(d)),
   counts |-> [p \in Profiles |-> m.counts[p] + One(Selects(d, p))],
   shown |-> m.shown + One(Personalized(d)),
   accepted |-> m.accepted + One(Personalized(d) /\ Accepted(d)),
   rejected |-> m.rejected
     + One(Personalized(d) /\ decision[d].status = "APPROVED" /\ ~Accepted(d))]

\* An approval without a selected profile counts for none.
Updated(m, d) ==
  [total |-> m.total + One(EndsRun(d)),
   counts |-> [p \in Profiles |-> m.counts[p] + One(Selects(d, p))],
   shown |-> m.shown + One(Personalized(d)),
   accepted |-> m.accepted + One(Personalized(d) /\ Accepted(d)),
   rejected |-> m.rejected + One(Personalized(d) /\ ~Accepted(d))]

-----------------------------------------------------------------------------
(* update_preference_memory                                                *)

Acquire(d) ==
  /\ holder = NoOne /\ decision[d].at = "waiting"
  /\ holder' = d
  /\ \E status \in Statuses, p, q \in Profiles \cup {NoProfile} :
       decision' = [decision EXCEPT ![d].at = "locked", ![d].status = status,
                                    ![d].selected = p, ![d].recommended = q]
  /\ UNCHANGED <<memory, audited, lost, advice>>

\* load_memory: the row, or an empty memory when anything fails, with or without
\* the transaction.
Reads == {"row", "nothing", "broken"}
LoadedMemory(result) == IF result = "row" THEN memory ELSE EmptyMemory

\* load_memory, then update_memory.
Load(d) ==
  /\ decision[d].at = "locked"
  /\ \E result \in Reads :
       decision' = [decision EXCEPT ![d].at = "loaded", ![d].read = result,
                                    ![d].memory = Updated(LoadedMemory(result), d)]
  /\ UNCHANGED <<memory, holder, audited, lost, advice>>

\* Mutant: a save that fails is only logged.
SavedAnyway(d) == TRUE
\* save_memory answers False when the transaction is broken, and the node raises.
Saved(d) == decision[d].read # "broken"

\* Mutant: the lock covers the reading only.
LockAfterLoad(d) == NoOne
\* The lock is kept until the transaction has ended.
LockAfterSave(d) == holder

\* save_memory and save_run_event: flushed, not committed.
SaveMemory(d) ==
  /\ decision[d].at = "loaded" /\ Saved(d)
  /\ decision' = [decision EXCEPT ![d].at = "saved"]
  /\ holder' = LockAfterSave(d)
  /\ UNCHANGED <<memory, audited, lost, advice>>

LockReleased(d) == IF holder = d THEN NoOne ELSE holder

CommitMemory(d) ==
  /\ decision[d].at = "saved"
  /\ memory' = decision[d].memory
  /\ audited' = audited \cup {d}
  /\ lost' = IF decision[d].read = "nothing" THEN audited ELSE lost
  /\ decision' = [decision EXCEPT ![d].at = "done", ![d].memory = EmptyMemory]
  /\ holder' = LockReleased(d)
  /\ UNCHANGED advice

\* The query, the save, the event or the commit fails: rolled back, the node fails.
Abort(d) ==
  /\ decision[d].at \in {"locked", "loaded", "saved"}
  /\ decision' = [decision EXCEPT ![d].at = "failed", ![d].memory = EmptyMemory]
  /\ holder' = LockReleased(d)
  /\ UNCHANGED <<memory, audited, lost, advice>>

-----------------------------------------------------------------------------
(* generate_personalized_plan                                              *)

Largest(S) == CHOOSE x \in S : \A y \in S : y <= x
Best(plans) == Largest({plan.objective : plan \in plans})

\* Mutant: the number of selections is not divided by the number of runs.
RankByCount(m, plan) ==
  m.total * 100 * plan.objective
  + MaxPreference * m.total * (ProfileWeight * m.counts[plan.profile] + SimilarityWeight * One(plan.similar))

\* combined_rank_score, multiplied by 100 and by the number of runs.
Rank(m, plan) ==
  m.total * 100 * plan.objective
  + MaxPreference * (ProfileWeight * m.counts[plan.profile] + SimilarityWeight * m.total * One(plan.similar))

\* rank_candidates: in the cold start the best objective, then the best rank.
Chosen(m, plans) ==
  IF m.total < ColdStartRuns
    THEN {plan \in plans : plan.objective = Best(plans)}
    ELSE {plan \in plans : \A other \in plans : Rank(m, other) <= Rank(m, plan)}

\* A memory that cannot be read is an empty one.
Recommend(plans, m) ==
  /\ \E plan \in Chosen(m, plans) :
       advice' = [behind |-> Best(plans) - plan.objective, cold |-> m.total < ColdStartRuns]
  /\ UNCHANGED <<memory, decision, holder, audited, lost>>

MemoryNext ==
  \/ \E d \in DecisionIds :
       \/ Acquire(d)
       \/ Load(d)
       \/ SaveMemory(d)
       \/ CommitMemory(d)
       \/ Abort(d)
  \/ \E plans \in PlanSets, m \in {memory, EmptyMemory} : Recommend(plans, m)

MemorySpec == MemoryInit /\ [][MemoryNext]_memoryVars

-----------------------------------------------------------------------------
(* The counters are what is in the audit log: of the decisions whose event *)
(* is committed, how many have a property.  A load that failed without its *)
(* transaction starts the count afresh.                                    *)

Counted == audited \ lost
HowMany(Test(_)) == Cardinality({d \in Counted : Test(d)})

\* However decisions overlap and fail, the memory and the audit log agree: every
\* decision whose event is committed is counted, once, and no other is, back to
\* the last load that failed and left the transaction usable.
EveryDecisionCounts ==
  /\ memory.total = HowMany(EndsRun)
  /\ memory.shown = HowMany(Personalized)
  /\ \A p \in Profiles : LET SelectsP(d) == Selects(d, p) IN memory.counts[p] = HowMany(SelectsP)

\* Every recommendation that was shown is either accepted or rejected, so that
\* the acceptance rate, and with it the confidence, stays between 0 and 1; and
\* no profile is selected in more runs than there were.
ConfidenceInRange ==
  /\ memory.accepted + memory.rejected = memory.shown
  /\ \A p \in Profiles : memory.counts[p] <= memory.total

\* However often a profile was chosen, the personalized plan gives up at most
\* MAX_PREF_SCORE of the objective, and nothing while the manager's preferences
\* are still being learned.
PreferenceOutweighsAtMost ==
  /\ advice.behind <= MaxPreference
  /\ advice.cold => advice.behind = 0

\* The counters agree with the audit log and with each other, so that the rates
\* that rank the plans are rates of what happened: EveryDecisionCounts and
\* ConfidenceInRange for update_memory under any overlap and failure.
CountersAgree == EveryDecisionCounts /\ ConfidenceInRange
=============================================================================
