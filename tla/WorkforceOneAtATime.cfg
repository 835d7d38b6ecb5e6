\* One request at a time: no interleaving, so the accounting is exact.
SPECIFICATION Spec
CONSTANTS
  sa = sa  sb = sb  i1 = i1  i2 = i2
  r1 = r1  r2 = r2  r3 = r3  r4 = r4
  Specialists = {sa, sb}
  Incidents = {i1, i2}
  Reservations = {r1, r2, r3, r4}
  SpecialistOf <- MCTwoSpecialistsOf
  IncidentOf <- MCIncidentOf
  InitialCapacity <- MCCapacityMixed
  InitialWorkload <- MCSeededWorkload
  MaxCapacity = 2
  Requests = {q1}
  Handlers <- BookingHandlers
INVARIANT AccountingExact
PROPERTY OnlyTentativeExpires
