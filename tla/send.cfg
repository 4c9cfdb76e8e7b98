SPECIFICATION FairSpec
CONSTANTS
  Task = {p1, p2, p3}
  MaxBacklog = 3
INVARIANT TypeOK
INVARIANT ParkedTellsTruth
PROPERTY WaitersReturn
CHECK_DEADLOCK FALSE
