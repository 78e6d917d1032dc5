SPECIFICATION LoopSpec
CONSTANTS
  Tasks = {1, 2}
  Priority <- TaskPriority
  BootTasks = {1, 2}
  Anchored = {1}
  Conns = {n1}
PROPERTIES
  TimeoutBounds
CHECK_DEADLOCK FALSE
