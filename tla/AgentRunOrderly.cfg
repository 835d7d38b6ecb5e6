\* Decisions come only while the run waits; no failures.
SPECIFICATION FairSpec
CONSTANTS
  Tasks = {t1, t2, t3, t4}
  Calls = {c1, c2, c3}
  MaxReplan = 1
  MaxWorld = 0
  Environment <- Orderly
INVARIANT QuietRunIsSettled
PROPERTIES
  ClosedStaysClosed
  TasksEnd
CHECK_DEADLOCK FALSE
