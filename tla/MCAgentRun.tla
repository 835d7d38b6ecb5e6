----------------------------- MODULE MCAgentRun -----------------------------
(* Small instances of AgentRun for TLC. *)
EXTENDS AgentRun, TLC

Everything == EnvironmentNames
\* The manager decides only while the run waits, and nothing fails.
Orderly == {"modify"}
Uneventful == {}

Symmetry == Permutations(Calls)
=============================================================================
