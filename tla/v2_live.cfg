SPECIFICATION FairSpec
CONSTANTS
  Thread = {t1, t2}
  NoThread = NoThread
  Key = {k1, k2}
  Calls = {"wait", "defer", "yield", "stop", "unstop", "drop", "collect"}
  MaxBacklog = 2
  MaxRuns = 2
INVARIANT IdleMeansDone
PROPERTY WaiterIsResumed
PROPERTY DeferredIsTaken
PROPERTY StopWithWorkExits
PROPERTY ImplementsScheduler
CHECK_DEADLOCK FALSE
