----------------------- MODULE MCWorkforceReservations -----------------------
(* Small instances of WorkforceReservations for TLC. *)
EXTENDS WorkforceReservations, TLC

CONSTANTS sa, sb, i1, i2, r1, r2, r3, r4

\* Two reservations compete for one incident, a third holds another one.
MCSpecialistOf == [r \in Reservations |-> sa]
MCTwoSpecialistsOf == [r \in Reservations |-> IF r = r4 THEN sb ELSE sa]
MCIncidentOf == [r \in Reservations |-> IF r = r3 THEN i2 ELSE i1]
MCCapacityOne == [s \in Specialists |-> 1]
MCCapacityTwo == [s \in Specialists |-> 2]
MCCapacityMixed == [s \in Specialists |-> IF s = sa THEN 2 ELSE 1]
MCNoWorkload == [s \in Specialists |-> 0]
\* Room for one of the three reservations.
MCSeededWorkload == [s \in Specialists |-> IF s = sa THEN 1 ELSE 0]
AllHandlers == HandlerNames
BookingHandlers == HandlerNames \ {"override"}

\* Requests are interchangeable, and so are the two competing reservations.
Symmetry == Permutations(Requests) \cup Permutations(Reservations \ {r3})
=============================================================================
