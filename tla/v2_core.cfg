SPECIFICATION Spec
CONSTANTS
  Thread = {t1, t2}
  NoThread = NoThread
  Key = {k1, k2}
  Calls = {"wait", "delay", "defer", "async", "close", "cancel", "stop", "unstop", "clear", "drop"}
  MaxBacklog = 2
  MaxRuns = 1
SYMMETRY Symmetry
INVARIANT TypeOK
INVARIANT NobodyForgotten
INVARIANT DoneMeansNoWork
INVARIANT DoneMeansNobodySuspended
INVARIANT KeysRecorded
PROPERTY WaitEntryResumes
PROPERTY DeferredInOrder
PROPERTY ImplementsScheduler
CHECK_DEADLOCK FALSE
