------------------------- MODULE MCBackgroundWorker -------------------------
(* Instances of BackgroundWorker for TLC: the tasks that startWorker       *)
(* registers, with their priorities.                                       *)
EXTENDS BackgroundWorker, CompositionRoot

TaskNames == <<"worker", "redis", "email", "opentelemetry">>
TaskPriority == [t \in Tasks |-> WorkerPriority(TaskNames[t])]
=============================================================================
