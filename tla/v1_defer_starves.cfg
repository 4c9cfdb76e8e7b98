SPECIFICATION FairSpec
CONSTANTS
  Thread = {t1, t2}
  NoThread = NoThread
  Slot = {s1, s2}
  Future = {f1, f2}
  Delay = {0, 1}
  MaxTime = 2
  MaxDeferred = 2
  Calls = {"defer", "yield"}
PROPERTY DeferredRuns
CHECK_DEADLOCK FALSE
