------------------------- MODULE MCAssignmentRequests -------------------------
(***************************************************************************)
(* The communication service for TLC: assignment requests, the failure     *)
(* mode and notifications; and the records of the incident service.  The   *)
(* four share no row, so instead of their product TLC explores them side   *)
(* by side: in each behaviour one of them moves.  What is said of one      *)
(* holds of the interleaving of all four.                                  *)
(***************************************************************************)
EXTENDS AssignmentRequests, FailureModes, Notifications, IncidentRecords, TLC

CONSTANTS q1, q2, g1, g2, c1, n1, n2, k1, k2, m1, m2, a1, a2,
  i1, s1, s2, r1, null

VARIABLE part

MCIdOfKey == [k \in Keys |-> n1]

\* The table is loaded empty, or with an incident that a run has had assigned.
MCSeeds ==
  {<<>>, <<[incident |-> i1, status |-> "OPEN", specialist |-> s1, run |-> r1, fields |-> "old"]>>}

serviceVars == <<vars, part, modeVars, noteVars, recordVars>>

ServiceInit ==
  /\ part \in {"requests", "modes", "notes", "records"}
  /\ Init /\ ModesInit /\ NotesInit
  /\ (part # "records" => table = <<>>) /\ RecordsInit

ServiceNext ==
  /\ UNCHANGED part
  /\ \/ part = "requests" /\ Next /\ UNCHANGED <<modeVars, noteVars, recordVars>>
     \/ part = "modes" /\ ModesNext /\ UNCHANGED <<vars, noteVars, recordVars>>
     \/ part = "notes" /\ NotesNext /\ UNCHANGED <<vars, modeVars, recordVars>>
     \/ part = "records" /\ RecordsNext /\ UNCHANGED <<vars, modeVars, noteVars>>

ServiceSpec == ServiceInit /\ [][ServiceNext]_serviceVars

Symmetry == Permutations(Requests) \cup Permutations(Readers) \cup Permutations(Rules)
=============================================================================
