---------------------------- MODULE ApiLifecycle ----------------------------
(***************************************************************************)
(* server.ts: the API process from the end of startServer to its exit.  A  *)
(* signal or an uncaught exception starts one shutdown, which drains the   *)
(* HTTP server, closes the registered resources and sets the exit code,    *)
(* racing connections, a timeout, and further signals.                     *)
(*                                                                         *)
(* Node.js itself is modelled from its use here: process.once listeners,   *)
(* server.close, connections, and an exit when no handle is left.          *)
(***************************************************************************)
EXTENDS ShutdownRegistry

CONSTANTS
  BootTasks,  \* registered by createContainer and startServer
  Anchored,   \* tasks whose open resource keeps the process alive (sockets)
  Conns       \* connections, one request at a time on each (a bound)

ASSUME BootAssumption == BootTasks \subseteq Tasks /\ Anchored \subseteq Tasks

VARIABLES
  process,    \* alive, exited when no handle is left, or killed
  listeners,  \* the process.once listeners that have not run
  server,     \* failed: listen was refused, so it never ran
  conn,       \* busy: a handler runs; orphan: it runs, the connection is gone
  phase,      \* of the async function in shutdown()
  timer,      \* its timeout
  fatalError, \* its second argument is present
  exitCode    \* process.exitCode

lifecycleVars == <<registry, process, listeners, server, conn, phase, timer,
                   fatalError, exitCode>>

Events == {"SIGTERM", "SIGINT", "uncaughtException"}

(* bootstrap sets the exit code when listen fails; what createContainer    *)
(* opened stays open.                                                      *)
LifecycleInit ==
  /\ task = [t \in Tasks |-> IF t \in BootTasks THEN "open" ELSE "unregistered"]
  /\ shuttingDown = FALSE
  /\ process = "alive" /\ listeners = Events
  /\ \/ server = "listening" /\ exitCode = 0
     \/ server = "failed" /\ exitCode = 1
  /\ conn = [c \in Conns |-> "none"]
  /\ phase = "up" /\ timer = "off" /\ fatalError = FALSE

Alive == process = "alive"

-----------------------------------------------------------------------------
(* Connections and requests.                                               *)

Turn(c, from, to) ==
  /\ Alive
  /\ conn[c] = from
  /\ conn' = [conn EXCEPT ![c] = to]
  /\ UNCHANGED <<registry, process, listeners, server, phase, timer,
                 fatalError, exitCode>>

Connect(c) == server = "listening" /\ Turn(c, "none", "idle")
(* A kept-alive connection may carry another request while the server      *)
(* drains.                                                                 *)
Request(c) == Turn(c, "idle", "busy")
Respond(c) == Turn(c, "busy", "idle") \/ Turn(c, "busy", "none")
(* Keep-alive ends, or the client leaves; that does not stop the handler.  *)
Disconnect(c) == Turn(c, "idle", "none") \/ Turn(c, "busy", "orphan")
HandlerEnds(c) == Turn(c, "orphan", "none")

Gone(state) ==
  CASE state = "idle" -> "none" [] state = "busy" -> "orphan" [] OTHER -> state

-----------------------------------------------------------------------------
(* shutdown() and what calls it.                                           *)

(* The first call: the timer, server.close and closeIdleConnections.       *)
BeginShutdown(event) ==
  /\ phase' = "draining"
  /\ timer' = "armed"
  /\ fatalError' = (event = "uncaughtException")
  /\ server' = IF server = "listening" THEN "closed" ELSE server
  /\ conn' = [c \in Conns |-> IF conn[c] = "idle" THEN "none" ELSE conn[c]]

(* The listeners run once; a later call returns the same promise.          *)
Event(event) ==
  /\ Alive
  /\ event \in listeners
  /\ listeners' = listeners \ {event}
  /\ IF phase = "up"
       THEN BeginShutdown(event)
       ELSE UNCHANGED <<phase, timer, fatalError, server, conn>>
  /\ UNCHANGED <<registry, process, exitCode>>

(* Without a listener a signal, or an exception, ends the process.         *)
Kill(event) ==
  /\ Alive
  /\ event \notin listeners
  /\ process' = "killed"
  /\ UNCHANGED <<registry, listeners, server, conn, phase, timer, fatalError,
                 exitCode>>

TimeOutWarns == \* fault: the timeout leaves the connections alone
  /\ Alive /\ timer = "armed"
  /\ timer' = "fired" /\ exitCode' = 1
  /\ UNCHANGED <<registry, process, listeners, server, conn, phase, fatalError>>
TimeOut ==
  /\ Alive /\ timer = "armed"
  /\ timer' = "fired" /\ exitCode' = 1
  /\ conn' = [c \in Conns |-> Gone(conn[c])]
  /\ UNCHANGED <<registry, process, listeners, server, phase, fatalError>>

(* closeHttpServer resolves when the last connection has ended, and        *)
(* closeAll begins.                                                        *)
ClosesAtOnce == \* fault: closeHttpServer is not awaited
  /\ Alive /\ phase = "draining" /\ server = "closed"
  /\ phase' = "closing" /\ CloseAll
  /\ UNCHANGED <<process, listeners, server, conn, timer, fatalError, exitCode>>
Drained ==
  /\ Alive /\ phase = "draining" /\ server = "closed"
  /\ \A c \in Conns : conn[c] \notin {"idle", "busy"}
  /\ phase' = "closing" /\ CloseAll
  /\ UNCHANGED <<process, listeners, server, conn, timer, fatalError, exitCode>>

ClearTimer == timer' = IF timer = "armed" THEN "cleared" ELSE timer

(* server.close rejects when the server never ran: closeAll is skipped.    *)
DrainRefused ==
  /\ Alive /\ phase = "draining" /\ server = "failed"
  /\ phase' = "over" /\ exitCode' = 1 /\ ClearTimer
  /\ UNCHANGED <<registry, process, listeners, server, conn, fatalError>>

RegisterTask(t) ==
  /\ Alive /\ Register(t)
  /\ UNCHANGED <<process, listeners, server, conn, phase, timer, fatalError,
                 exitCode>>

CloseTask(t) ==
  /\ Alive /\ CloseNext(t)
  /\ UNCHANGED <<process, listeners, server, conn, phase, timer, fatalError,
                 exitCode>>

TaskSettles(t) ==
  /\ Alive /\ \E outcome \in Outcomes : Settle(t, outcome)
  /\ UNCHANGED <<process, listeners, server, conn, phase, timer, fatalError,
                 exitCode>>

ForgetsFailures == \* fault: closeAll does not throw the AggregateError
  /\ Alive /\ phase = "closing" /\ LoopEnds
  /\ phase' = "over" /\ ClearTimer
  /\ exitCode' = IF fatalError THEN 1 ELSE exitCode
  /\ UNCHANGED <<registry, process, listeners, server, conn, fatalError>>
FinishesOnSuccess == \* fault: an AggregateError escapes
  /\ Alive /\ phase = "closing" /\ LoopEnds /\ Failures = {}
  /\ phase' = "over" /\ ClearTimer
  /\ exitCode' = IF fatalError THEN 1 ELSE exitCode
  /\ UNCHANGED <<registry, process, listeners, server, conn, fatalError>>
Finish ==
  /\ Alive /\ phase = "closing" /\ LoopEnds
  /\ phase' = "over" /\ ClearTimer
  /\ exitCode' = IF Failures # {} \/ fatalError THEN 1 ELSE exitCode
  /\ UNCHANGED <<registry, process, listeners, server, conn, fatalError>>

(* Nothing keeps the event loop alive.  A pending close always does.       *)
Exit ==
  /\ Alive /\ phase \in {"up", "over"}
  /\ server # "listening"
  /\ \A c \in Conns : conn[c] \notin {"idle", "busy"}
  /\ \A t \in Anchored : task[t] \in {"unregistered", "closed", "failed"}
  /\ process' = "exited"
  /\ UNCHANGED <<registry, listeners, server, conn, phase, timer, fatalError,
                 exitCode>>

-----------------------------------------------------------------------------
Traffic(c) ==
  Connect(c) \/ Request(c) \/ Respond(c) \/ Disconnect(c) \/ HandlerEnds(c)

LifecycleNext ==
  \/ \E c \in Conns : Traffic(c)
  \/ \E event \in Events : Event(event)
  \/ \E event \in Events : Kill(event)
  \/ TimeOut
  \/ Drained
  \/ DrainRefused
  \/ \E t \in Tasks : RegisterTask(t) \/ CloseTask(t) \/ TaskSettles(t)
  \/ Finish
  \/ Exit

LifecycleSpec == LifecycleInit /\ [][LifecycleNext]_lifecycleVars

(* The event loop: the timer fires, callbacks and continuations run.       *)
(* Nothing is assumed of clients, handlers or the resources' close().      *)
EventLoop ==
  /\ WF_lifecycleVars(TimeOut)
  /\ WF_lifecycleVars(Drained)
  /\ WF_lifecycleVars(DrainRefused)
  /\ \A t \in Tasks : WF_lifecycleVars(CloseTask(t))
  /\ WF_lifecycleVars(Finish)
  /\ WF_lifecycleVars(Exit)
LoopSpec == LifecycleSpec /\ EventLoop

(* Besides, every close() settles.                                         *)
SettlingSpec == LoopSpec /\ \A t \in Tasks : WF_lifecycleVars(TaskSettles(t))

-----------------------------------------------------------------------------
(* Every variable holds a value of its type.                               *)
LifecycleTypeOK ==
  /\ task \in [Tasks -> TaskStates]
  /\ shuttingDown \in BOOLEAN
  /\ process \in {"alive", "exited", "killed"}
  /\ listeners \subseteq Events
  /\ server \in {"listening", "closed", "failed"}
  /\ conn \in [Conns -> {"none", "idle", "busy", "orphan"}]
  /\ phase \in {"up", "draining", "closing", "over"}
  /\ timer \in {"off", "armed", "fired", "cleared"}
  /\ fatalError \in BOOLEAN
  /\ exitCode \in {0, 1}

(* Inbound work stops first: while a request is handled whose client is    *)
(* still connected, no resource has begun to close, whatever the timeout   *)
(* and further signals do (OPERATIONS.md, Graceful shutdown).              *)
RequestsKeepResources ==
  \A c \in Conns, t \in Tasks :
    conn[c] = "busy" => task[t] \in {"unregistered", "open"}

(* A shutdown that drained the server has tried to close every resource    *)
(* that ever registered, the ones that register while it drains included,  *)
(* even when another close failed.                                         *)
NothingForgotten ==
  phase = "over" /\ server = "closed" =>
    \A t \in Tasks : Settled(t) \/ task[t] = "unregistered"

(* Exit code 0 tells the platform that the shutdown was clean: every       *)
(* resource closed, in time, and not because of an exception.              *)
ExitIsHonest ==
  process = "exited" /\ exitCode = 0 =>
    /\ \A t \in Tasks : task[t] \in {"closed", "unregistered"}
    /\ timer # "fired" /\ ~fatalError

(* A shutdown never waits for clients or handlers alone: while it drains,  *)
(* the timeout is still to come, or no connection is left that holds it    *)
(* up, or the server never ran.                                            *)
DrainIsBounded ==
  phase = "draining" =>
    \/ timer = "armed"
    \/ server = "failed"
    \/ \A c \in Conns : conn[c] \notin {"idle", "busy"}

(* The inductive strengthening: what each phase knows.                     *)
LifecycleInv ==
  /\ LifecycleTypeOK
  /\ ClosedInOrder
  /\ RequestsKeepResources
  /\ NothingForgotten
  /\ shuttingDown <=> phase \in {"closing", "over"} /\ server = "closed"
  /\ ~shuttingDown => \A t \in Tasks : task[t] \in {"unregistered", "open"}
  /\ shuttingDown =>
       server = "closed" /\ \A c \in Conns : conn[c] \notin {"idle", "busy"}
  /\ phase = "up" => server # "closed" /\ ~fatalError
  /\ phase # "up" => server # "listening"
  /\ server = "failed" => exitCode = 1
  /\ timer = "off" <=> phase = "up"
  /\ timer = "cleared" => phase = "over"
  /\ timer = "fired" =>
       exitCode = 1 /\ \A c \in Conns : conn[c] \notin {"idle", "busy"}
  /\ phase = "over" /\ exitCode = 0 => Failures = {} /\ ~fatalError
  /\ ExitIsHonest

(* Requests whose client is connected are the work, registered tasks the   *)
(* resources.                                                              *)
ServerStage == IF shuttingDown THEN "closing" ELSE "serving"
ResourceStages == [t \in Tasks |-> Stage(t)]
BusyConns == {c \in Conns : conn[c] = "busy"}

Shutdown == INSTANCE GracefulShutdown WITH
  Resources <- Tasks, Workers <- Conns,
  stage <- ServerStage, resource <- ResourceStages, busy <- BusyConns

(* Whatever signals, clients, handlers and the timeout do, the process     *)
(* implements the shutdown that GracefulShutdown promises: requests first, *)
(* then the resources, one at a time and by priority (OPERATIONS.md,       *)
(* Graceful shutdown).                                                     *)
ImplementsShutdown == Shutdown!Spec

(* Draining ends whatever the clients and the handlers do: the timeout     *)
(* takes the connections away.                                             *)
DrainEnds == phase = "draining" ~> phase # "draining" \/ ~Alive

(* If every close() settles, one way or the other, shutdown() runs to its  *)
(* end.                                                                    *)
ShutdownEnds == phase # "up" ~> phase = "over" \/ ~Alive

(* "The process enforces SHUTDOWN_TIMEOUT_MS as an upper bound"            *)
(* (OPERATIONS.md, Graceful shutdown): after the timeout it ends.          *)
TimeoutBounds == timer = "fired" ~> ~Alive

=============================================================================
