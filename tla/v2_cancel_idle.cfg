SPECIFICATION Spec
CONSTANTS
  Thread = {t1, t2}
  NoThread = NoThread
  Key = {k1, k2}
  Calls = {"delay", "cancel"}
  MaxBacklog = 2
  MaxRuns = 1
INVARIANT IdleMeansDone
CHECK_DEADLOCK FALSE
