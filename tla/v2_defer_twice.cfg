SPECIFICATION Spec
CONSTANTS
  Thread = {t1, t2}
  NoThread = NoThread
  Key = {k1, k2}
  Calls = {"defer", "yield"}
  MaxBacklog = 2
  MaxRuns = 1
PROPERTY DeferredEntryResumes
CHECK_DEADLOCK FALSE
