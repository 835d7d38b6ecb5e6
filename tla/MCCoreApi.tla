------------------------------ MODULE MCCoreApi ------------------------------
(***************************************************************************)
(* core-api beside the graph, for TLC: the log of a run's events and its   *)
(* streams, the planner, the verification of an execution, the preference  *)
(* memory and the language-model settings.  The modules share no row, so   *)
(* instead of their product TLC explores them side by side: in each        *)
(* behaviour one of them moves.  What is said of one holds of the          *)
(* interleaving of all five.                                               *)
(***************************************************************************)
EXTENDS RunEvents, ExecutionVerification, PreferenceMemory, LlmSettings, Optimizer, TLC

CONSTANTS d1, d2, i1, s1, s2, k1, v1, a1, a2, nothing

VARIABLE part

-----------------------------------------------------------------------------
\* Three incidents: the first has a customer worth more than a whole penalty, the
\* second brings less than some profile charges for the work.  Two specialists,
\* who may be full or over their capacity.
Profile(arr, sla, skills, fairness, switch) ==
  [arr |-> arr, sla |-> sla, skills |-> skills, fairness |-> fairness,
   context_switch |-> switch, unassigned_penalty |-> 10000]

MCWeights == {Profile(8, 8, 10, 8, 6), Profile(5, 40, 8, 5, 4),
              Profile(45, 8, 8, 5, 4), Profile(5, 8, 8, 45, 12)}
MCWorth == <<600, 0, 350>>
MCPriority == <<100, 5, 50>>

\* The theorem LeftOutHadToBe has this as its hypothesis: the profiles above, whose
\* charges are those of the code, meet it.
ASSUME ProfilesAssumption == PenaltyDominates

MCInputs ==
  [capacity : [{s1, s2} -> 0..2], load : [{s1, s2} -> 0..1],
   able : SUBSET ((1..3) \X {s1, s2}),
   status : {<<"OPEN", "OPEN", "OPEN">>, <<"OPEN", "OPEN", "IN_PROGRESS">>},
   assigned : {{}}]

SomeInput == CHOOSE evidence \in MCInputs : TRUE

\* One booking of one incident, for either specialist.
MCWorks == {[incident |-> i1, specialist |-> s, run |-> 1] : s \in {s1, s2}}

\* The similar plan is behind by more than the preference can make up for, and
\* by less.
Candidate(profile, objective, similar) ==
  [profile |-> profile, objective |-> objective, similar |-> similar]
MCPlanSets == {{Candidate("A", 200, FALSE), Candidate("B", 60, TRUE)},
               {Candidate("A", 100, FALSE), Candidate("B", 1, TRUE)}}

\* Beside the active provider, one with a model that is not checked while it is
\* not the active one, and one with a label of blanks.
MCPayloads == {[active |-> "groq", keys |-> [gemini |-> "odd", groq |-> "new"]],
               [active |-> "gemini", keys |-> [gemini |-> "new", groq |-> "blank"]]}
MCEnvironment == [active |-> "gemini", keys |-> [gemini |-> "own", groq |-> "none"]]

-----------------------------------------------------------------------------
coreVars == <<vars, part, plannerVars, verificationVars, memoryVars, settingsVars>>

\* A part that does not move stays in one of its initial states.
CoreInit ==
  /\ Init /\ VerificationInit /\ MemoryInit
  /\ part \in {"events", "planner", "verification", "memory", "settings"}
  /\ PlannerInit /\ (part # "planner" => input = SomeInput)
  /\ SettingsInit /\ (part # "settings" => secret = "s1")

CoreNext ==
  /\ UNCHANGED part
  /\ \/ /\ part = "events" /\ Next
        /\ UNCHANGED <<plannerVars, verificationVars, memoryVars, settingsVars>>
     \/ /\ part = "planner" /\ PlannerNext
        /\ UNCHANGED <<vars, verificationVars, memoryVars, settingsVars>>
     \/ /\ part = "verification" /\ VerificationNext
        /\ UNCHANGED <<vars, plannerVars, memoryVars, settingsVars>>
     \/ /\ part = "memory" /\ MemoryNext
        /\ UNCHANGED <<vars, plannerVars, verificationVars, settingsVars>>
     \/ /\ part = "settings" /\ SettingsNext
        /\ UNCHANGED <<vars, plannerVars, verificationVars, memoryVars>>

CoreSpec == CoreInit /\ [][CoreNext]_coreVars

Symmetry == Permutations(Writers) \cup Permutations(Clients)
=============================================================================
