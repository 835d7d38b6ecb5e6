\* Two requests in flight, every handler, capacity overrides included.
SPECIFICATION Spec
CONSTANTS
  sa = sa  sb = sb  i1 = i1  i2 = i2
  r1 = r1  r2 = r2  r3 = r3  r4 = r4
  Specialists = {sa}
  Incidents = {i1, i2}
  Reservations = {r1, r2, r3}
  SpecialistOf <- MCSpecialistOf
  IncidentOf <- MCIncidentOf
  InitialCapacity <- MCCapacityTwo
  InitialWorkload <- MCNoWorkload
  MaxCapacity = 2
  Requests = {q1, q2}
  Handlers <- AllHandlers
INVARIANT OneActivePerPair
PROPERTY ClosedStaysClosed
SYMMETRY Symmetry
