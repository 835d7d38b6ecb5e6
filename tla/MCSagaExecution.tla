--------------------------- MODULE MCSagaExecution ---------------------------
(***************************************************************************)
(* Values of the constants of SagaExecution for TLC.                       *)
(***************************************************************************)
EXTENDS SagaBooking, TLC

CONSTANTS r1, i1, i2, s1, s2

\* Ids that differ in their first eight characters.  Ids that do not, such as
\* INC-NOVA-001 and INC-NOVA-002, are covered by the theorems.
RunsApart == [r \in Runs |-> r]
IncidentsApart == [i \in Incidents |-> i]

Outages == {"refuse", "database"}
AllFaults == {"refuse", "lost", "compensation", "database", "crash", "question", "resolve", "reapprove"}

Symmetry == Permutations(Specialists)
=============================================================================
