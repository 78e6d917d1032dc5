----------------------- MODULE CompositionRootProofs ------------------------
(***************************************************************************)
(* Proofs about Configuration and CompositionRoot, for every setting of    *)
(* the environment and every choice of adapters: what a process closes, in *)
(* which order, and what a production environment is made of.              *)
(***************************************************************************)
EXTENDS CompositionRoot, TLAPS

(* What the API opens it closes, for all settings and whichever adapters   *)
(* the application has brought along: each of the starter's adapters that  *)
(* holds a connection is found by hasDestroy or hasClose                   *)
(* (container.ts:93-119).                                                  *)
THEOREM OpenedIsClosed ==
  ASSUME NEW v \in Settings, NEW o \in Options
  PROVE  Opened(v, o) \subseteq ApiTasks(v, o)
<1>1. UsesS3(v, o) => HasDestroy(v, o)
  BY DEF UsesS3, HasDestroy
<1>2. UsesSmtp(v, o) => HasClose(v, o)
  BY DEF UsesSmtp, HasClose
<1>. QED  BY <1>1, <1>2 DEF Opened, ApiTasks, When

(* A resource closes after all that work with it: in the API, with any     *)
(* adapters, as in the worker (container.ts:98-133, server.ts:21,          *)
(* background.worker.ts:23-30).                                            *)
THEOREM DependentsCloseFirst ==
  ASSUME NEW v \in Settings, NEW o \in Options
  PROVE  /\ \A m, n \in ApiTasks(v, o) :
              Needs(m, n) => ApiPriority(m) > ApiPriority(n)
         /\ \A m, n \in WorkerTasks(v) :
              Needs(m, n) => WorkerPriority(m) > WorkerPriority(n)
<1>1. ApiTasks(v, o) \subseteq {"postgresql", "bullmq-queue", "redis", "storage",
                                "email", "error-monitor", "opentelemetry"}
  BY DEF ApiTasks, When
<1>2. /\ ApiPriority("postgresql") = 30 /\ ApiPriority("bullmq-queue") = 25
      /\ ApiPriority("redis") = 20 /\ ApiPriority("storage") = 15
      /\ ApiPriority("email") = 15 /\ ApiPriority("error-monitor") = 10
      /\ ApiPriority("opentelemetry") = 5
  BY DEF ApiPriority
<1>3. WorkerTasks(v) \subseteq {"worker", "redis", "email", "opentelemetry"}
  BY DEF WorkerTasks, When
<1>4. /\ WorkerPriority("worker") = 30 /\ WorkerPriority("redis") = 20
      /\ WorkerPriority("email") = 15 /\ WorkerPriority("opentelemetry") = 10
  BY DEF WorkerPriority
<1>5. ASSUME NEW m \in ApiTasks(v, o), NEW n \in ApiTasks(v, o), Needs(m, n)
      PROVE  ApiPriority(m) > ApiPriority(n)
  BY <1>1, <1>2, <1>5 DEF Needs
<1>6. ASSUME NEW m \in WorkerTasks(v), NEW n \in WorkerTasks(v), Needs(m, n)
      PROVE  WorkerPriority(m) > WorkerPriority(n)
  BY <1>3, <1>4, <1>6 DEF Needs
<1>. QED  BY <1>5, <1>6

(* A process that starts in production without adapters of its own keeps   *)
(* accounts, jobs and files outside its memory and its disk, so that a     *)
(* restart loses none, checks for readiness the database and the queue it  *)
(* uses, and signs tokens, if it does, with secrets that are neither the   *)
(* defaults nor short (environment.ts:62-102).                             *)
THEOREM ProductionIsDurable ==
  ASSUME NEW v \in Settings, Production(v), Accepted(v)
  PROVE  /\ UsesPrisma(v, NoOptions) /\ UsesBullMq(v, NoOptions)
         /\ UsesSmtp(v, NoOptions) /\ UsesS3(v, NoOptions)
         /\ HealthChecks(v, NoOptions) = {"postgresql", "redis", "storage"}
         /\ v.DATABASE_URL /\ v.REDIS_URL /\ v.SMTP_HOST /\ v.S3_BUCKET
         /\ v.AUTH_ENABLED => SecretsAre(v, {"own"})
<1>1. /\ FitForProduction(v) /\ AdaptersConfigured(v)
  BY DEF Accepted
<1>2. /\ v.EMAIL_PROVIDER \in {"console", "smtp"}
      /\ v.STORAGE_PROVIDER \in {"local", "s3"}
  BY DEF Settings
<1>3. /\ UsesPrisma(v, NoOptions) /\ UsesBullMq(v, NoOptions)
      /\ UsesSmtp(v, NoOptions) /\ UsesS3(v, NoOptions)
  BY <1>1, <1>2 DEF FitForProduction, UsesPrisma, UsesBullMq, UsesSmtp, UsesS3,
                    NoOptions
<1>4. HealthChecks(v, NoOptions) = {"postgresql", "redis", "storage"}
  BY <1>3 DEF HealthChecks, HasCheck, NoOptions, When
<1>5. v.DATABASE_URL /\ v.REDIS_URL /\ v.SMTP_HOST /\ v.S3_BUCKET
  BY <1>1, <1>2 DEF FitForProduction, AdaptersConfigured
<1>6. v.AUTH_ENABLED => SecretsAre(v, {"own"})
  BY <1>1 DEF FitForProduction, AdaptersConfigured, SecretsAre
<1>. QED  BY <1>3, <1>4, <1>5, <1>6
=============================================================================
