--------------------------- MODULE MCApiLifecycle ---------------------------
(* Instances of ApiLifecycle for TLC: four tasks of createContainer and    *)
(* startServer, and one that a module of the application may register.     *)
EXTENDS ApiLifecycle, CompositionRoot

(* Storage and e-mail tie.                                                 *)
TaskNames == <<"postgresql", "storage", "email", "opentelemetry">>
TaskPriority ==
  [t \in Tasks |-> IF t \in DOMAIN TaskNames THEN ApiPriority(TaskNames[t]) ELSE 20]
=============================================================================
