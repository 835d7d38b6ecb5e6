\* The manager's calls overlap with running tasks, tasks die, runs are cancelled.
SPECIFICATION Spec
CONSTANTS
  Tasks = {t1, t2, t3}
  Calls = {c1, c2}
  MaxReplan = 1
  MaxWorld = 1
  Environment <- Everything
INVARIANTS
  SagaNeedsApproval
  ReplanLimitHolds
  ClarifiedTaskGoesOn
  RecordsOwnDecision
SYMMETRY Symmetry
CHECK_DEADLOCK FALSE
