-------------------------- MODULE BackgroundWorker --------------------------
(***************************************************************************)
(* workers/background.worker.ts: the process that runs the jobs, from its  *)
(* start to its exit and restart, with the queue it serves.  Its shutdown  *)
(* closes the BullMQ worker, which lets the jobs in its slots end, then    *)
(* the resources they use; there is no timeout.  The connections to Redis  *)
(* send a command for as long as Redis is away (maxRetriesPerRequest null).*)
(***************************************************************************)
EXTENDS JobQueue, ShutdownRegistry

CONSTANTS
  Runner,    \* the task 'worker'; the others are redis, e-mail and telemetry
  Anchored,  \* tasks whose open resource keeps the process alive
  Signals,   \* the events that happen (a bound)
  Lives      \* starts of the process, by the platform (a bound)

ASSUME RunnerAssumption ==
  /\ Runner \in Tasks /\ Anchored \subseteq Tasks /\ Lives \in Nat
  /\ \A t \in Tasks \ {Runner} : Priority[Runner] > Priority[t]

VARIABLES
  process,    \* down, alive
  listeners,  \* the process.once listeners that have not run
  phase,      \* starting, until the listeners are there; up; closing; over
  ready,      \* of worker.waitUntilReady()
  fatalError, \* the second argument of close() is present
  exitCode,   \* process.exitCode
  lives,
  reachable   \* Redis answers the worker

processVars ==
  <<process, listeners, phase, ready, fatalError, exitCode, lives, reachable>>
workerVars == <<queueVars, registry, processVars>>

Events == {"SIGTERM", "SIGINT", "uncaughtException"}
ASSUME SignalsAssumption == Signals \subseteq Events

Alive == process = "alive"
Serving == Alive /\ phase = "up" /\ ready = "ok"

(* Down, a process has no memory: its variables hold what they start with. *)
WorkerInit ==
  /\ QueueInit
  /\ task = [t \in Tasks |-> "unregistered"] /\ shuttingDown = FALSE
  /\ process = "down" /\ listeners = {} /\ phase = "starting"
  /\ ready = "pending" /\ fatalError = FALSE /\ exitCode = 0
  /\ lives = Lives /\ reachable = TRUE

-----------------------------------------------------------------------------
(* The platform starts the process, and may kill it at any moment; so does *)
(* a signal or an exception whose listener has run.                        *)
Start ==
  /\ process = "down" /\ lives > 0
  /\ process' = "alive" /\ lives' = lives - 1
  /\ UNCHANGED <<queueVars, registry, listeners, phase, ready, fatalError,
                 exitCode, reachable>>

ProcessEnds ==
  /\ process' = "down"
  /\ AllSlotsFree
  /\ task' = [t \in Tasks |-> "unregistered"] /\ shuttingDown' = FALSE
  /\ listeners' = {} /\ phase' = "starting" /\ ready' = "pending"
  /\ fatalError' = FALSE /\ exitCode' = 0
  /\ UNCHANGED <<call, job, sent, lives, reachable>>

Die == Alive /\ ProcessEnds

(* startWorker: after startTelemetry nothing is awaited before the         *)
(* listeners are installed.                                                *)
Boot ==
  /\ Alive /\ phase = "starting"
  /\ phase' = "up" /\ listeners' = Events
  /\ task' = [t \in Tasks |-> "open"]
  /\ UNCHANGED <<queueVars, shuttingDown, process, ready, fatalError, exitCode,
                 lives, reachable>>

(* Another queue is configured, or telemetry does not start: nothing is    *)
(* open yet that would keep the process.                                   *)
BootFails == Alive /\ phase = "starting" /\ ProcessEnds

(* Its rejection sets the exit code and stops nothing.                     *)
WaitUntilReady ==
  /\ Alive /\ phase # "starting" /\ ready = "pending"
  /\ \/ reachable /\ ready' = "ok" /\ UNCHANGED exitCode
     \/ ready' = "failed" /\ exitCode' = 1
  /\ UNCHANGED <<queueVars, registry, process, listeners, phase, fatalError,
                 lives, reachable>>

(* close(): the first call closes the registry; a later one returns the    *)
(* same promise.                                                           *)
Event(event) ==
  /\ Alive /\ event \in listeners \cap Signals
  /\ listeners' = listeners \ {event}
  /\ IF phase = "up"
       THEN /\ phase' = "closing" /\ CloseAll
            /\ fatalError' = (event = "uncaughtException")
       ELSE UNCHANGED <<phase, registry, fatalError>>
  /\ UNCHANGED <<queueVars, process, ready, exitCode, lives, reachable>>

CloseTask(t) ==
  /\ Alive /\ CloseNext(t)
  /\ UNCHANGED <<queueVars, processVars>>

(* worker.close() of BullMQ takes no further job and settles when the      *)
(* slots are free, with an error or without.                               *)
CloseUnawaited(t) == \* fault: close: () => { void worker.close(); }
  /\ Alive
  /\ \E outcome \in Outcomes : Settle(t, outcome)
  /\ UNCHANGED <<queueVars, processVars>>
TaskSettles(t) ==
  /\ Alive
  /\ t = Runner => \A s \in Slots : slot[s].pc = "free"
  /\ \E outcome \in Outcomes : Settle(t, outcome)
  /\ UNCHANGED <<queueVars, processVars>>

FinishesOnSuccess == \* fault: the AggregateError escapes
  /\ Alive /\ phase = "closing" /\ LoopEnds /\ Failures = {}
  /\ phase' = "over"
  /\ exitCode' = IF fatalError THEN 1 ELSE exitCode
  /\ UNCHANGED <<queueVars, registry, process, listeners, ready, fatalError,
                 lives, reachable>>
Finish ==
  /\ Alive /\ phase = "closing" /\ LoopEnds
  /\ phase' = "over"
  /\ exitCode' = IF Failures # {} \/ fatalError THEN 1 ELSE exitCode
  /\ UNCHANGED <<queueVars, registry, process, listeners, ready, fatalError,
                 lives, reachable>>

(* Nothing keeps the event loop alive.                                     *)
Exit ==
  /\ Alive /\ phase = "over"
  /\ \A t \in Anchored : task[t] \in {"closed", "failed"}
  /\ ProcessEnds

-----------------------------------------------------------------------------
(* What the worker and its event loop do with jobs.  A job is taken, its   *)
(* outcome written and a stalled one taken back by commands, which wait    *)
(* while Redis is away.                                                    *)
Work(s) ==
  /\ Alive
  /\ \/ Serving /\ reachable /\ \E id \in JobIds : Take(s, id)
     \/ Deliver(s)
     \/ RejectUnknown(s)
     \/ reachable /\ Report(s)
  /\ UNCHANGED <<registry, processVars>>

Check(id) ==
  /\ Serving /\ reachable
  /\ Stalled(id)
  /\ UNCHANGED <<registry, processVars>>
Expire(id) == LockExpires(id) /\ UNCHANGED <<registry, processVars>>

Produce(p) ==
  /\ \/ \E key \in Keys \cup {None}, known \in BOOLEAN : Enqueue(p, key, known)
     \/ Add(p)
     \/ Answer(p)
     \/ Resend(p)
  /\ UNCHANGED <<registry, processVars>>

(* The connection to Redis is lost or comes back.                          *)
RedisTurns ==
  /\ reachable' = ~reachable
  /\ UNCHANGED <<queueVars, registry, process, listeners, phase, ready,
                 fatalError, exitCode, lives>>

Lifecycle ==
  \/ Start \/ Die \/ Boot \/ BootFails \/ WaitUntilReady
  \/ \E event \in Events : Event(event)
  \/ \E t \in Tasks : CloseTask(t) \/ TaskSettles(t)
  \/ Finish
  \/ Exit
  \/ RedisTurns

WorkerNext ==
  \/ \E p \in Calls : Produce(p)
  \/ \E s \in Slots : Work(s)
  \/ \E id \in JobIds : Check(id) \/ Expire(id)
  \/ Lifecycle

WorkerSpec == WorkerInit /\ [][WorkerNext]_workerVars

(* The one asynchronous function behind close(), while Redis is reachable. *)
CloseGoesOn ==
  \/ \E t \in Tasks : CloseTask(t) \/ (reachable /\ TaskSettles(t))
  \/ Finish

(* A live worker works: handlers settle, as SMTP connections time out      *)
(* (connectionTimeout, socketTimeout), and the locks of the dead expire.   *)
(* Commands run and each close() settles while Redis is reachable, and no  *)
(* fairness says that it is: a command that waits for it waits without a   *)
(* limit.  Nothing is assumed of producers, signals or starts.             *)
FairWorkerSpec ==
  /\ WorkerSpec
  /\ \A s \in Slots : WF_workerVars(Work(s))
  /\ \A id \in JobIds :
       WF_workerVars(Check(id)) /\ WF_workerVars(Abandoned(id) /\ Expire(id))
  /\ WF_workerVars(CloseGoesOn)

-----------------------------------------------------------------------------
(* Every variable holds a value of its type.                               *)
WorkerTypeOK ==
  /\ QueueTypeOK
  /\ task \in [Tasks -> TaskStates]
  /\ shuttingDown \in BOOLEAN
  /\ process \in {"down", "alive"}
  /\ listeners \subseteq Events
  /\ phase \in {"starting", "up", "closing", "over"}
  /\ ready \in {"pending", "ok", "failed"}
  /\ fatalError \in BOOLEAN
  /\ exitCode \in {0, 1}
  /\ lives \in 0..Lives
  /\ reachable \in BOOLEAN

(* A job that runs, or whose outcome is not written yet, has the resources *)
(* it needs: Redis, the mail transport and telemetry close after the last  *)
(* one has ended, whatever is signalled (ADAPTERS_AND_DEPLOYMENT.md,       *)
(* Switch queue providers: graceful consumer shutdown).                    *)
JobsKeepResources ==
  \A s \in Slots, t \in Tasks \ {Runner} : slot[s].pc # "free" => task[t] = "open"

(* The inductive strengthening: what each phase knows.                     *)
WorkerInv ==
  /\ WorkerTypeOK
  /\ QueueInv
  /\ JobsKeepResources
  /\ \A s \in Slots : slot[s].pc # "free" =>
       Alive /\ phase \in {"up", "closing"} /\ task[Runner] \in {"open", "closing"}
  /\ phase = "up" => \A t \in Tasks : task[t] = "open"
  /\ shuttingDown <=> phase \in {"closing", "over"}
  /\ \A t \in Tasks : phase = "starting" <=> task[t] = "unregistered"
  /\ phase = "over" => \A t \in Tasks : Settled(t)
  /\ phase = "over" /\ exitCode = 0 => Failures = {} /\ ~fatalError
  /\ ready = "failed" => exitCode = 1

(* A job that is done or has failed stays so and is not run again: not     *)
(* when its key is enqueued again, not when a holder of an expired lock    *)
(* reports late.                                                           *)
FinalIsFinal ==
  [][\A id \in JobIds :
       Final(id) => job'[id].status = job[id].status
                    /\ job'[id].started = job[id].started]_workerVars

(* The worker's slots are the work; the other tasks are the resources, and *)
(* the task `worker' is the end of the work.                               *)
JobsStage == IF Settled(Runner) THEN "closing" ELSE "serving"
ResourceStages == [t \in Tasks \ {Runner} |-> Stage(t)]
BusySlots == {s \in Slots : slot[s].pc # "free"}

Shutdown == INSTANCE GracefulShutdown WITH
  Resources <- Tasks \ {Runner}, Workers <- Slots,
  stage <- JobsStage, resource <- ResourceStages, busy <- BusySlots

(* Through crashes, restarts and signals in any order, the worker          *)
(* implements the shutdown that GracefulShutdown promises: its jobs end    *)
(* first, then what they use closes, one at a time and by priority         *)
(* (ADAPTERS_AND_DEPLOYMENT.md, Switch queue providers).                   *)
ImplementsShutdown == Shutdown!Spec

(* If some worker stays up and keeps its connection to Redis, every job    *)
(* ends: done, or failed and kept.                                         *)
JobsSettle ==
  <>[](Serving /\ reachable) =>
    \A id \in JobIds : job[id].status \in {"waiting", "active"} ~> Final(id)

(* The shutdown ends, with jobs in the slots and resources that fail to    *)
(* close, provided Redis comes back and stays.  While it is away the       *)
(* outcome of a job is not written, worker.close() waits for it, and no    *)
(* timer ends the wait: the SHUTDOWN_TIMEOUT_MS of docs/OPERATIONS.md:67   *)
(* is read by server.ts:28-32 only, not by background.worker.ts:36-42.     *)
WorkerCloses ==
  <>[]reachable => (phase = "closing" /\ Alive ~> phase = "over" \/ ~Alive)

=============================================================================
