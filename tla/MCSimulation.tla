----------------------------- MODULE MCSimulation -----------------------------
EXTENDS Simulation
CONSTANTS e1, e2, e3, e4, i1, w1

MCScenarios == {"day"}
MCTimeline == [day |-> <<e1, e2, e3>>]
MCEnabled == {e1, e3, e4}
P(kind, rank) == [kind |-> kind, incident |-> i1, specialist |-> w1, rank |-> rank]
MCPayload == (e1 :> P("ESCALATE_PRIORITY", 3)) @@ (e2 :> P("ESCALATE_PRIORITY", 2))
             @@ (e3 :> P("RESOLVE_TICKET", 1)) @@ (e4 :> P("ENGINEER_ON_LEAVE", 1))
MCInitial == [s \in MCScenarios |->
  [incident |-> (i1 :> "OPEN"), priority |-> (i1 :> 1),
   booked |-> (i1 :> TRUE), available |-> (w1 :> TRUE)]]
=============================================================================
