\* Three requests, two of them in flight together, on a day of three events.
CONSTANTS
  e1 = e1
  e2 = e2
  e3 = e3
  e4 = e4
  i1 = i1
  w1 = w1
  Scenarios <- MCScenarios
  Events = {e1, e2, e3, e4}
  Keys = {}
  Incidents = {i1}
  Specialists = {w1}
  NoKey = NoKey
  Timeline <- MCTimeline
  Enabled <- MCEnabled
  Payload <- MCPayload
  InitialState <- MCInitial
  Callback = TRUE
  Modes = {"TIMELINE"}
  Requests = {1, 2}
  MaxRuns = 2
  MaxRequests = 3
SPECIFICATION Spec
INVARIANTS TimelineSound OneDispatchPerKey ChangeIsAnnounced
PROPERTIES PriorityOnlyRaised RequestsEnd
CHECK_DEADLOCK FALSE
