\* Two requests in flight: the workload written by a cancel may be stale.
SPECIFICATION Spec
CONSTANTS
  sa = sa  sb = sb  i1 = i1  i2 = i2
  r1 = r1  r2 = r2  r3 = r3  r4 = r4
  Specialists = {sa}
  Incidents = {i1, i2}
  Reservations = {r1, r2, r3}
  SpecialistOf <- MCSpecialistOf
  IncidentOf <- MCIncidentOf
  InitialCapacity <- MCCapacityOne
  InitialWorkload <- MCNoWorkload
  MaxCapacity = 1
  Requests = {q1, q2}
  Handlers <- BookingHandlers
INVARIANT NeverOverbooked
