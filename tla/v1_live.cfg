SPECIFICATION FairSpec
CONSTANTS
  Thread = {t1, t2}
  NoThread = NoThread
  Slot = {s1, s2}
  Future = {f1}
  Delay = {0}
  MaxTime = 1
  MaxDeferred = 1
  Calls = {"wait", "delay", "defer", "yield", "stop", "unstop", "clear"}
PROPERTY WaiterIsResumed
PROPERTY StopExits
PROPERTY StopReleasesWaiter
CHECK_DEADLOCK FALSE
