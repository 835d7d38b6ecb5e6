\* One run, every kind of failure, one planning round.
SPECIFICATION Spec
CONSTANTS
  r1 = r1
  i1 = i1
  i2 = i2
  s1 = s1
  s2 = s2
  Runs = {r1}
  Incidents = {i1, i2}
  Specialists = {s1, s2}
  RunPart <- RunsApart
  IncidentPart <- IncidentsApart
  MaxReplan = 0
  MaxPolls = 1
  Faults <- AllFaults
SYMMETRY Symmetry
INVARIANTS
  ConfirmedWithConsent
  AssignedIsBooked
  ExecutedIsBooked
  EveryRoundExcludes
CHECK_DEADLOCK FALSE
