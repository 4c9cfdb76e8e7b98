SPECIFICATION Spec
CONSTANTS
  Task = {p1}
  MaxBacklog = 2
PROPERTY ReturnsWhenDone
CHECK_DEADLOCK FALSE
