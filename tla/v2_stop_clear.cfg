SPECIFICATION FairSpec
CONSTANTS
  Thread = {t1, t2}
  NoThread = NoThread
  Key = {k1, k2}
  Calls = {"stop", "clear"}
  MaxBacklog = 2
  MaxRuns = 1
PROPERTY StopAndClearExits
CHECK_DEADLOCK FALSE
