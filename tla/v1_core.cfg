SPECIFICATION Spec
CONSTANTS
  Thread = {t1, t2}
  NoThread = NoThread
  Slot = {s1, s2}
  Future = {f1, f2}
  Delay = {0, 1}
  MaxTime = 1
  MaxDeferred = 2
  Calls = {"wait", "delay", "defer", "async", "yield", "close", "cancel", "drop", "panic"}
SYMMETRY Symmetry
INVARIANT TypeOK
INVARIANT NobodyForgotten
INVARIANT AsyncsCounted
PROPERTY ReturnsWhenDone
PROPERTY ImplementsScheduler
CHECK_DEADLOCK FALSE
