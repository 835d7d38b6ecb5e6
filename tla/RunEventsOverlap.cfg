\* Two sessions write to the log of one run while two clients watch; beside that,
\* plans over two rounds, a verification, two decisions that are learned from, and
\* two administrators of the language-model settings.
SPECIFICATION CoreSpec
CONSTANTS
  Events = {e1, e2, e3, e4}
  Writers = {w1, w2}
  Clients = {c1, c2}
  d1 = d1
  d2 = d2
  i1 = i1
  s1 = s1
  s2 = s2
  k1 = k1
  v1 = v1
  a1 = a1
  a2 = a2
  nothing = nothing
  Offers = {k1}
  Incidents = {i1}
  Works <- MCWorks
  NoWork = nothing
  Verifiers = {v1}
  DecisionIds = {d1, d2}
  Profiles = {"A", "B"}
  PlanSets <- MCPlanSets
  ColdStartRuns = 1
  Backlog = {1, 2, 3}
  Specialists = {s1, s2}
  Inputs <- MCInputs
  Worth <- MCWorth
  Priority <- MCPriority
  Weights <- MCWeights
  MaxReplan = 1
  Admins = {a1, a2}
  Providers = {"gemini", "groq"}
  Keys = {"own", "new", "odd", "blank"}
  Unreadable = {"blank"}
  Unsupported = {"odd"}
  Payloads <- MCPayloads
  Environment <- MCEnvironment
  Secrets = {"s1", "s2"}
INVARIANTS
  NumbersSound
  DeliveredInOrder
  PlanSound
  NothingLeftUndone
  RecommendationTrue
  NoFalseAlarm
  CountersAgree
  PreferenceOutweighsAtMost
  SettingsSound
  DisconnectedStaysOff
SYMMETRY Symmetry
CHECK_DEADLOCK FALSE
