SPECIFICATION SettlingSpec
CONSTANTS
  Tasks = {1, 2, 3, 4, 5}
  Priority <- TaskPriority
  BootTasks = {1, 2, 3, 4}
  Anchored = {1, 5}
  Conns = {n1, n2}
INVARIANTS
  LifecycleInv
  RequestsKeepResources
  NothingForgotten
  ExitIsHonest
PROPERTIES
  ImplementsShutdown
  DrainEnds
  ShutdownEnds
CHECK_DEADLOCK FALSE
