CONSTANTS
  Threads = {t1, t2}
  Tasks = {a, r}
  Repeating = {r}
  Delta = 1
  MaxTime = 2
SPECIFICATION FairSpec
INVARIANTS QueueConsistent
PROPERTIES AtOrAfter StopEnds TasksRun
CHECK_DEADLOCK FALSE
