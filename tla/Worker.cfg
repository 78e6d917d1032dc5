SPECIFICATION FairWorkerSpec
CONSTANTS
  Calls = {p1}
  Keys = {k1}
  AutoIds = {}
  Slots = {s1, s2}
  Attempts = 2
  MaxStalls = 1
  None = None
  Tasks = {1, 2}
  Priority <- TaskPriority
  Runner = 1
  Anchored = {2}
  Lives = 2
  Signals = {"SIGTERM", "uncaughtException"}
INVARIANTS
  WorkerInv
  RunsBounded
PROPERTIES
  ImplementsQueue
  ImplementsShutdown
  JobsSettle
  WorkerCloses
CHECK_DEADLOCK FALSE
