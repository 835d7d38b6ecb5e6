\* One run over two planning rounds, two polls, in which services may refuse any
\* call and events may fail to be written.
SPECIFICATION FairSpec
CONSTANTS
  r1 = r1
  i1 = i1
  i2 = i2
  s1 = s1
  s2 = s2
  Runs = {r1}
  Incidents = {i1, i2}
  Specialists = {s1, s2}
  RunPart <- RunsApart
  IncidentPart <- IncidentsApart
  MaxReplan = 1
  MaxPolls = 2
  Faults <- Outages
INVARIANT FailureReleasesRound
PROPERTIES
  KeepsPromises
  SagasEnd
CHECK_DEADLOCK FALSE
