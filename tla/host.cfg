SPECIFICATION FairSpec
CONSTANTS
  Thread = {t1, t2}
  NoThread = NoThread
  Caller = {c1, c2}
  NoCaller = NoCaller
  Key = {k1}
  Calls = {"async", "collect", "close", "drop"}
  MaxBacklog = 1
  MaxRuns = 1
  MaxResults = 2
INVARIANT TypeOK
INVARIANT NeverWaitsInVain
PROPERTY ReturnsOutput
PROPERTY CallReturns
PROPERTY FinishLeavesNobody
CHECK_DEADLOCK FALSE
