\* Two concurrent GETs, answers, queued responses and expiry; two calls under a
\* failure mode that two operators configure; two creations of notifications;
\* two updates of an incident while the table is loaded again.
SPECIFICATION ServiceSpec
CONSTANTS
  q1 = q1
  q2 = q2
  g1 = g1
  g2 = g2
  c1 = c1
  n1 = n1
  n2 = n2
  k1 = k1
  k2 = k2
  m1 = m1
  m2 = m2
  a1 = a1
  a2 = a2
  i1 = i1
  s1 = s1
  s2 = s2
  r1 = r1
  null = null
  Requests = {q1, q2}
  Rules = {c1}
  Readers = {g1, g2}
  Default = "ACCEPTED"
  Callers = {g1, g2}
  Admins = {a1, a2}
  MaxConfigured = 2
  Clients = {g1, g2}
  Ids = {n1, n2}
  Keys = {k1, k2}
  IdOfKey <- MCIdOfKey
  Contents = {m1, m2}
  Undeliverable = {m2}
  Incidents = {i1}
  Specialists = {s1, s2}
  Runs = {r1}
  None = null
  Seeds <- MCSeeds
  Updates = {g1, g2}
  MaxRows = 2
SYMMETRY Symmetry
INVARIANTS
  OneTimeRuleAnswersOnce
  ExpiredIsLate
  ModesSound
  NotesSound
  RecordsSound
PROPERTIES
  FinalUnlessBeingRead
  UpdatesKeepOthers
