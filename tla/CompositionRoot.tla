--------------------------- MODULE CompositionRoot ---------------------------
(***************************************************************************)
(* bootstrap/container.ts and the factories it calls: which adapters a     *)
(* process opens for its settings, what it checks for readiness, and what  *)
(* it closes, in which order.  An application may hand createContainer     *)
(* adapters of its own: `given' names them, `checked' and `closable' those *)
(* of them that have a check, and a destroy or close.                      *)
(***************************************************************************)
EXTENDS Configuration

Adapters == {"users", "sessions", "queue", "email", "storage"}
Options == [given : SUBSET Adapters, checked : SUBSET Adapters,
            closable : SUBSET Adapters]
NoOptions == [given |-> {}, checked |-> {}, closable |-> {}]

(* What the factories construct.                                           *)
UsesPrisma(v, o) ==
  ~ {"users", "sessions"} \subseteq o.given /\ v.DATABASE_PROVIDER = "prisma"
UsesBullMq(v, o) == "queue" \notin o.given /\ v.QUEUE_PROVIDER = "bullmq"
UsesSmtp(v, o) == "email" \notin o.given /\ v.EMAIL_PROVIDER = "smtp"
UsesS3(v, o) == "storage" \notin o.given /\ v.STORAGE_PROVIDER = "s3"

(* hasCheck, hasDestroy and hasClose: of the starter's own adapters both   *)
(* storages can be checked, S3 is destroyed, and SMTP closed.              *)
HasCheck(v, o) == "storage" \in o.given => "storage" \in o.checked
HasDestroy(v, o) ==
  IF "storage" \in o.given THEN "storage" \in o.closable ELSE UsesS3(v, o)
HasClose(v, o) ==
  IF "email" \in o.given THEN "email" \in o.closable ELSE UsesSmtp(v, o)

When(p, S) == IF p THEN S ELSE {}

HealthChecks(v, o) ==
  When(UsesPrisma(v, o), {"postgresql"}) \cup When(UsesBullMq(v, o), {"redis"})
    \cup When(HasCheck(v, o), {"storage"})

(* The tasks of the API, the one of startServer included, and the worker's. *)
ApiTasks(v, o) ==
  When(UsesPrisma(v, o), {"postgresql"})
    \cup When(UsesBullMq(v, o), {"bullmq-queue", "redis"})
    \cup When(HasDestroy(v, o), {"storage"}) \cup When(HasClose(v, o), {"email"})
    \cup {"error-monitor", "opentelemetry"}
WorkerTasks(v) ==
  {"worker", "redis", "opentelemetry"} \cup When(UsesSmtp(v, NoOptions), {"email"})

(* What a process holds open: connections, pools, buffered reports.        *)
Opened(v, o) ==
  When(UsesPrisma(v, o), {"postgresql"})
    \cup When(UsesBullMq(v, o), {"bullmq-queue", "redis"})
    \cup When(UsesS3(v, o), {"storage"}) \cup When(UsesSmtp(v, o), {"email"})
    \cup {"error-monitor", "opentelemetry"}

ApiPriority(n) ==
  CASE n = "postgresql" -> 30 [] n = "bullmq-queue" -> 25 [] n = "redis" -> 20
    [] n \in {"storage", "email"} -> 15 [] n = "error-monitor" -> 10
    [] n = "opentelemetry" -> 5
WorkerPriority(n) ==
  CASE n = "worker" -> 30 [] n = "redis" -> 20 [] n = "email" -> 15
    [] n = "opentelemetry" -> 10

(* m works with n: the queue and the worker with a Redis connection, the   *)
(* worker's handlers with the mail transport; errors of all are captured,  *)
(* and all are traced.                                                     *)
Needs(m, n) ==
  \/ m \in {"bullmq-queue", "worker"} /\ n = "redis"
  \/ m = "worker" /\ n = "email"
  \/ m \notin {"error-monitor", "opentelemetry"} /\ n = "error-monitor"
  \/ m # "opentelemetry" /\ n = "opentelemetry"

=============================================================================
