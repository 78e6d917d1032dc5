------------------------- MODULE ApiLifecycleProofs -------------------------
(***************************************************************************)
(* Proofs about ApiLifecycle for every set of tasks, priorities and        *)
(* connections.                                                            *)
(***************************************************************************)
EXTENDS ApiLifecycle, CompositionRootProofs

(* What startServer leaves behind satisfies the invariant.                 *)
LEMMA InitEstablishes == LifecycleInit => LifecycleInv
  BY TaskAssumption, BootAssumption
  DEF LifecycleInit, LifecycleInv, LifecycleTypeOK, TaskStates, Outcomes,
      ClosedInOrder, RequestsKeepResources, NothingForgotten, ExitIsHonest, Failures


(* Traffic: a connection turns, the shutdown does not notice.  A request   *)
(* never begins once closeAll has.                                         *)
LEMMA TrafficPreserves ==
  ASSUME LifecycleInv, NEW c \in Conns, Traffic(c)
  PROVE  LifecycleInv'
<1>1. PICK from \in {"none", "idle", "busy", "orphan"},
           to \in {"none", "idle", "busy", "orphan"} :
        /\ Turn(c, from, to)
        /\ from = "none" => server = "listening"
        /\ to \in {"idle", "busy"} => from # "orphan"
  BY DEF Traffic, Connect, Request, Respond, Disconnect, HandlerEnds
<1>2. /\ conn' = [conn EXCEPT ![c] = to] /\ conn[c] = from
      /\ UNCHANGED <<registry, process, listeners, server, phase, timer,
                     fatalError, exitCode>>
  BY <1>1 DEF Turn
<1>3. LifecycleTypeOK'
  BY <1>2 DEF LifecycleInv, LifecycleTypeOK, registry
<1>4. shuttingDown \/ timer = "fired" =>
        \A d \in Conns : conn'[d] \notin {"idle", "busy"}
  BY <1>1, <1>2 DEF LifecycleInv, LifecycleTypeOK
<1>5. RequestsKeepResources'
  BY <1>2, <1>4 DEF LifecycleInv, RequestsKeepResources, registry
<1> QED
  BY <1>2, <1>3, <1>4, <1>5
  DEF LifecycleInv, registry, ClosedInOrder, NothingForgotten, ExitIsHonest,
      Settled, Failures

(* Signals and exceptions.                                                 *)
LEMMA EventPreserves ==
  ASSUME LifecycleInv, NEW event \in Events, Event(event)
  PROVE  LifecycleInv'
<1>1. LifecycleTypeOK'
  <2>1. CASE phase = "up"
    BY <2>1 DEF Event, BeginShutdown, LifecycleInv, LifecycleTypeOK, registry
  <2>2. CASE phase # "up"
    BY <2>2 DEF Event, LifecycleInv, LifecycleTypeOK, registry
  <2> QED BY <2>1, <2>2
<1>2. \A d \in Conns : conn'[d] \in {"idle", "busy"} => conn'[d] = conn[d]
  BY DEF Event, BeginShutdown, LifecycleInv, LifecycleTypeOK
<1>3. RequestsKeepResources'
  BY <1>2 DEF Event, RequestsKeepResources, LifecycleInv, registry
<1>4. CASE phase = "up"
  <2>1. /\ phase' = "draining" /\ ~shuttingDown /\ ~shuttingDown' /\ task' = task
        /\ server' \in {"closed", "failed"} /\ timer' = "armed"
        /\ server' = "failed" => server = "failed"
        /\ exitCode' = exitCode /\ process' = "alive"
    BY <1>4 DEF Event, BeginShutdown, LifecycleInv, LifecycleTypeOK, registry, Alive
  <2> QED
    BY <1>1, <1>3, <2>1
    DEF LifecycleInv, ClosedInOrder, NothingForgotten, ExitIsHonest
<1>5. CASE phase # "up"
  BY <1>1, <1>3, <1>5
  DEF Event, LifecycleInv, registry, ClosedInOrder, NothingForgotten,
      ExitIsHonest, Settled, Failures
<1> QED BY <1>4, <1>5

(* The end of the process, by a signal or because nothing is left to do.   *)
LEMMA EndPreserves ==
  ASSUME LifecycleInv, Exit \/ \E event \in Events : Kill(event)
  PROVE  LifecycleInv'
<1>1. /\ process' \in {"exited", "killed"}
      /\ UNCHANGED <<registry, listeners, server, conn, phase, timer,
                     fatalError, exitCode>>
  BY DEF Exit, Kill
<1>2. LifecycleTypeOK'
  BY <1>1 DEF LifecycleInv, LifecycleTypeOK, registry
<1>3. ExitIsHonest'
  <2>1. SUFFICES ASSUME process' = "exited", exitCode = 0
                 PROVE  /\ \A t \in Tasks : task[t] \in {"closed", "unregistered"}
                        /\ timer # "fired" /\ ~fatalError
    BY <1>1 DEF ExitIsHonest, registry
  <2>2. phase \in {"up", "over"} /\ server # "listening"
    BY <2>1 DEF Exit, Kill
  <2>3. phase = "over" /\ server = "closed"
    BY <2>1, <2>2 DEF LifecycleInv, LifecycleTypeOK
  <2>4. \A t \in Tasks : task[t] \in {"closed", "unregistered"}
    BY <2>1, <2>3
    DEF LifecycleInv, NothingForgotten, Settled, Outcomes, Failures
  <2> QED BY <2>1, <2>3, <2>4 DEF LifecycleInv
<1> QED
  BY <1>1, <1>2, <1>3
  DEF LifecycleInv, registry, ClosedInOrder, RequestsKeepResources,
      NothingForgotten, Settled, Failures

(* The timeout takes connections away and marks the exit code.             *)
LEMMA TimeOutPreserves ==
  ASSUME LifecycleInv, TimeOut
  PROVE  LifecycleInv'
<1>1. \A d \in Conns : conn'[d] \in {"none", "orphan"}
  BY DEF TimeOut, Gone, LifecycleInv, LifecycleTypeOK
<1>2. LifecycleTypeOK'
  BY <1>1 DEF TimeOut, LifecycleInv, LifecycleTypeOK, registry
<1> QED
  BY <1>1, <1>2
  DEF TimeOut, LifecycleInv, registry, ClosedInOrder, RequestsKeepResources,
      NothingForgotten, ExitIsHonest, Settled, Failures, Alive

(* From draining to closing, or to the end when the server never ran.      *)
LEMMA DrainPreserves ==
  ASSUME LifecycleInv, Drained \/ DrainRefused
  PROVE  LifecycleInv'
<1>1. CASE Drained
  <2>1. LifecycleTypeOK'
    BY <1>1 DEF Drained, CloseAll, LifecycleInv, LifecycleTypeOK
  <2> QED
    BY <1>1, <2>1
    DEF Drained, CloseAll, LifecycleInv, ClosedInOrder, RequestsKeepResources,
        NothingForgotten, ExitIsHonest, Failures, Alive
<1>2. CASE DrainRefused
  <2>1. LifecycleTypeOK'
    BY <1>2 DEF DrainRefused, ClearTimer, LifecycleInv, LifecycleTypeOK, registry
  <2> QED
    BY <1>2, <2>1
    DEF DrainRefused, ClearTimer, LifecycleInv, registry, ClosedInOrder,
        RequestsKeepResources, NothingForgotten, ExitIsHonest, Failures, Alive
<1> QED BY <1>1, <1>2

(* The loop of closeAll, one task at a time, and the tasks that register.  *)
LEMMA RegistryPreserves ==
  ASSUME LifecycleInv, NEW t \in Tasks,
         RegisterTask(t) \/ CloseTask(t) \/ TaskSettles(t)
  PROVE  LifecycleInv'
<1> USE TaskAssumption
<1>1. /\ UNCHANGED <<shuttingDown, process, listeners, server, conn, phase,
                     timer, fatalError, exitCode>>
      /\ process = "alive"
  BY DEF RegisterTask, CloseTask, TaskSettles, Register, CloseNext, Settle, Alive
<1>2. PICK state \in TaskStates : task' = [task EXCEPT ![t] = state]
  BY DEF RegisterTask, CloseTask, TaskSettles, Register, CloseNext, Settle, TaskStates
<1>3. \A s \in Tasks : task'[s] = IF s = t THEN state ELSE task[s]
  BY <1>2 DEF LifecycleInv, LifecycleTypeOK
<1>4. LifecycleTypeOK'
  BY <1>1, <1>2 DEF LifecycleInv, LifecycleTypeOK
<1>5. CASE RegisterTask(t)
  <2>1. ~shuttingDown /\ state = "open" /\ task[t] = "unregistered"
    BY <1>3, <1>5 DEF RegisterTask, Register, LifecycleInv, LifecycleTypeOK
  <2> QED
    BY <1>1, <1>3, <1>4, <2>1
    DEF LifecycleInv, ClosedInOrder, RequestsKeepResources, NothingForgotten,
        ExitIsHonest, Settled, Outcomes, Failures
<1>6. ASSUME CloseTask(t) \/ TaskSettles(t)
      PROVE  /\ shuttingDown /\ task[t] \in {"open", "closing"}
             /\ phase = "closing"
  <2>1. task[t] \in {"open", "closing"}
    BY <1>6 DEF CloseTask, TaskSettles, CloseNext, Settle
  <2>2. shuttingDown
    BY <1>6, <2>1 DEF CloseTask, TaskSettles, CloseNext, Settle, LifecycleInv
  <2>3. phase # "over"
    BY <2>1, <2>2 DEF LifecycleInv, NothingForgotten, Settled, Outcomes
  <2> QED BY <2>1, <2>2, <2>3 DEF LifecycleInv
<1>7. CASE CloseTask(t)
  <2>1. /\ state = "closing" /\ task[t] = "open"
        /\ \A s \in Tasks : task[s] # "closing" /\ (task[s] = "open" => ~Before(s, t))
    BY <1>3, <1>7 DEF CloseTask, CloseNext, LifecycleInv, LifecycleTypeOK
  <2>2. ClosedInOrder'
    BY <1>3, <2>1 DEF ClosedInOrder, Before, LifecycleInv
  <2> QED
    BY <1>1, <1>3, <1>4, <1>6, <1>7, <2>2
    DEF LifecycleInv, RequestsKeepResources, NothingForgotten, ExitIsHonest
<1>8. CASE TaskSettles(t)
  <2>1. state \in Outcomes /\ task[t] = "closing"
    BY <1>3, <1>8 DEF TaskSettles, Settle, LifecycleInv, LifecycleTypeOK
  <2>2. ClosedInOrder'
    BY <1>3, <2>1 DEF ClosedInOrder, Outcomes, LifecycleInv
  <2> QED
    BY <1>1, <1>3, <1>4, <1>6, <1>8, <2>2
    DEF LifecycleInv, RequestsKeepResources, NothingForgotten, ExitIsHonest
<1> QED BY <1>5, <1>7, <1>8

(* The end of shutdown().                                                  *)
LEMMA FinishPreserves ==
  ASSUME LifecycleInv, Finish
  PROVE  LifecycleInv'
<1>1. LifecycleTypeOK'
  BY DEF Finish, ClearTimer, LifecycleInv, LifecycleTypeOK, registry
<1>2. \A t \in Tasks : Settled(t) \/ task[t] = "unregistered"
  BY DEF Finish, LoopEnds, LifecycleInv, LifecycleTypeOK, TaskStates, Outcomes, Settled
<1>3. exitCode' = 0 => Failures = {} /\ ~fatalError
  BY DEF Finish
<1>4. server = "closed" /\ shuttingDown
  BY DEF Finish, LoopEnds, LifecycleInv
<1> QED
  BY <1>1, <1>2, <1>3, <1>4
  DEF Finish, ClearTimer, LifecycleInv, registry, ClosedInOrder,
      RequestsKeepResources, NothingForgotten, ExitIsHonest, Settled, Failures, Alive

(* The invariant is inductive: whatever the order of signals, timeout,     *)
(* traffic and closing tasks, each phase of shutdown() keeps what it knows. *)
THEOREM LifecycleInvariance == LifecycleSpec => []LifecycleInv
<1>1. LifecycleInv /\ [LifecycleNext]_lifecycleVars => LifecycleInv'
  <2>1. SUFFICES ASSUME LifecycleInv, [LifecycleNext]_lifecycleVars
                 PROVE  LifecycleInv'
    OBVIOUS
  <2>2. CASE UNCHANGED lifecycleVars
    BY <2>1, <2>2
    DEF lifecycleVars, registry, LifecycleInv, LifecycleTypeOK, ClosedInOrder,
        RequestsKeepResources, NothingForgotten, ExitIsHonest, Settled, Failures
  <2>3. CASE LifecycleNext
    BY <2>1, <2>3, TrafficPreserves, EventPreserves, EndPreserves,
       TimeOutPreserves, DrainPreserves, RegistryPreserves, FinishPreserves
    DEF LifecycleNext
  <2> QED BY <2>1, <2>2, <2>3
<1> QED BY <1>1, InitEstablishes, PTL DEF LifecycleSpec

(* closeAll keeps to the priorities, for every registration order: nothing *)
(* is closed before all that has a higher priority has settled.            *)
THEOREM ResourcesClosedInOrder == LifecycleSpec => []ClosedInOrder
<1>1. LifecycleInv => ClosedInOrder
  BY DEF LifecycleInv
<1> QED BY <1>1, LifecycleInvariance, PTL

(* A request whose client is still there never sees a resource close.      *)
THEOREM ResourcesOutliveRequests == LifecycleSpec => []RequestsKeepResources
<1>1. LifecycleInv => RequestsKeepResources
  BY DEF LifecycleInv
<1> QED BY <1>1, LifecycleInvariance, PTL

(* A shutdown that drained the server tries every registered resource.     *)
THEOREM EveryResourceTried == LifecycleSpec => []NothingForgotten
<1>1. LifecycleInv => NothingForgotten
  BY DEF LifecycleInv
<1> QED BY <1>1, LifecycleInvariance, PTL

(* No client and no handler can hold a shutdown up for ever: what can keep *)
(* it draining ends with the timeout, at the latest.                       *)
THEOREM TimeoutFreesTheDrain == LifecycleSpec => []DrainIsBounded
<1>1. LifecycleInv => DrainIsBounded
  BY DEF LifecycleInv, LifecycleTypeOK, DrainIsBounded
<1> QED BY <1>1, LifecycleInvariance, PTL

(* Exit code 0 is only ever the end of a clean shutdown.                   *)
THEOREM ExitCodeIsHonest == LifecycleSpec => []ExitIsHonest
<1>1. LifecycleInv => ExitIsHonest
  BY DEF LifecycleInv
<1> QED BY <1>1, LifecycleInvariance, PTL

-----------------------------------------------------------------------------
(* The process implements GracefulShutdown.                                *)

(* A step that leaves the registry alone leaves the stages alone.          *)
LEMMA StagesStay ==
  ASSUME UNCHANGED registry
  PROVE  UNCHANGED <<ServerStage, ResourceStages>>
  BY DEF registry, ServerStage, ResourceStages, Stage, Settled

(* A task that moves moves its own stage and no other.                     *)
LEMMA StageMoves ==
  ASSUME LifecycleTypeOK, NEW t \in Tasks, NEW state \in TaskStates,
         task' = [task EXCEPT ![t] = state], UNCHANGED shuttingDown
  PROVE  /\ UNCHANGED ServerStage
         /\ ResourceStages' = [ResourceStages EXCEPT ![t] =
              IF state \in Outcomes THEN "settled"
              ELSE IF state = "unregistered" THEN "unused" ELSE state]
<1>1. task'[t] = state /\ \A u \in Tasks \ {t} : task'[u] = task[u]
  BY DEF LifecycleTypeOK
<1>. DEFINE stage == IF state \in Outcomes THEN "settled"
                     ELSE IF state = "unregistered" THEN "unused" ELSE state
<1>2. Stage(t)' = stage /\ \A u \in Tasks \ {t} : Stage(u)' = Stage(u)
  BY <1>1 DEF Stage, Settled
<1>. HIDE DEF stage
<1>3. ResourceStages' = [ResourceStages EXCEPT ![t] = stage]
  BY <1>2 DEF ResourceStages
<1>. QED  BY <1>3 DEF ServerStage, stage

(* A request begins work, which no process does that closes its resources; *)
(* an answer or a client that leaves ends it.                              *)
LEMMA TrafficImplements ==
  ASSUME LifecycleInv, NEW c \in Conns, Traffic(c)
  PROVE  Shutdown!Next \/ UNCHANGED Shutdown!shutdownVars
<1>1. UNCHANGED <<ServerStage, ResourceStages>>
  BY StagesStay
  DEF Traffic, Turn, Connect, Request, Respond, Disconnect, HandlerEnds
<1>2. PICK from, to \in {"none", "idle", "busy", "orphan"} :
        /\ conn' = [conn EXCEPT ![c] = to] /\ conn[c] = from
        /\ to = "busy" => from = "idle"
  BY DEF Traffic, Turn, Connect, Request, Respond, Disconnect, HandlerEnds
<1>3. conn'[c] = to /\ \A d \in Conns \ {c} : conn'[d] = conn[d]
  BY <1>2 DEF LifecycleInv, LifecycleTypeOK
<1>4. CASE to = "busy"
  <2>1. BusyConns' = BusyConns \cup {c}
    BY <1>3, <1>4 DEF BusyConns
  <2>2. ServerStage = "serving"
    BY <1>2, <1>4 DEF LifecycleInv, ServerStage
  <2>. QED  BY <1>1, <2>1, <2>2 DEF Shutdown!Next, Shutdown!Begin
<1>5. CASE to # "busy"
  <2>1. BusyConns' = BusyConns \ {c}
    BY <1>3, <1>5 DEF BusyConns
  <2>2. Shutdown!End({c})
    BY <1>1, <2>1 DEF Shutdown!End
  <2>. QED  BY <2>2 DEF Shutdown!Next
<1>. QED  BY <1>4, <1>5

(* Signals, exceptions and the end of the process are no step of it: what  *)
(* a signal closes is idle.                                                *)
LEMMA EventsStutter ==
  ASSUME LifecycleInv,
         Exit \/ DrainRefused \/ Finish
           \/ \E event \in Events : Event(event) \/ Kill(event)
  PROVE  UNCHANGED Shutdown!shutdownVars
<1>1. UNCHANGED registry
  BY DEF Exit, DrainRefused, Finish, Event, Kill
<1>2. \A c \in Conns : conn'[c] = "busy" <=> conn[c] = "busy"
  BY DEF Exit, DrainRefused, Finish, Event, Kill, BeginShutdown,
         LifecycleInv, LifecycleTypeOK
<1>3. UNCHANGED BusyConns
  BY <1>2 DEF BusyConns
<1>. QED  BY <1>1, <1>3, StagesStay DEF Shutdown!shutdownVars

(* The timeout ends all work at once.                                      *)
LEMMA TimeOutImplements ==
  ASSUME LifecycleInv, TimeOut
  PROVE  Shutdown!Next
<1>1. \A c \in Conns : conn'[c] # "busy"
  BY DEF TimeOut, Gone, LifecycleInv, LifecycleTypeOK
<1>2. BusyConns' = BusyConns \ Conns
  BY <1>1 DEF BusyConns
<1>3. UNCHANGED <<ServerStage, ResourceStages>>
  BY StagesStay DEF TimeOut
<1>4. Shutdown!End(Conns)
  BY <1>2, <1>3 DEF Shutdown!End
<1>. QED  BY <1>4 DEF Shutdown!Next

(* closeAll begins when no request is left whose client waits.             *)
LEMMA DrainedImplements ==
  ASSUME LifecycleInv, Drained
  PROVE  Shutdown!Next
<1>1. BusyConns = {} /\ UNCHANGED BusyConns
  BY DEF Drained, BusyConns
<1>2. ServerStage = "serving" /\ ServerStage' = "closing"
  BY DEF Drained, CloseAll, ServerStage
<1>3. UNCHANGED ResourceStages
  BY DEF Drained, CloseAll, ResourceStages, Stage, Settled
<1>. QED  BY <1>1, <1>2, <1>3 DEF Shutdown!Next, Shutdown!BeginClosing

(* A task registers while the server drains at the latest; closeAll starts *)
(* one when no other closes and none left has a higher priority.           *)
LEMMA RegistryImplements ==
  ASSUME LifecycleInv, NEW t \in Tasks,
         RegisterTask(t) \/ CloseTask(t) \/ TaskSettles(t)
  PROVE  Shutdown!Next
<1>1. UNCHANGED <<shuttingDown, BusyConns>>
  BY DEF RegisterTask, CloseTask, TaskSettles, Register, CloseNext, Settle, BusyConns
<1>2. CASE RegisterTask(t)
  <2>1. /\ task' = [task EXCEPT ![t] = "open"]
        /\ task[t] = "unregistered" /\ ServerStage = "serving"
    BY <1>2 DEF RegisterTask, Register, ServerStage
  <2>2. "open" \in TaskStates /\ "open" \notin Outcomes
    BY DEF TaskStates, Outcomes
  <2>3. UNCHANGED ServerStage /\ ResourceStages' = [ResourceStages EXCEPT ![t] = "open"]
    BY <1>1, <2>1, <2>2, StageMoves DEF LifecycleInv
  <2>4. ResourceStages[t] = "unused"
    BY <2>1 DEF ResourceStages, Stage, Settled, Outcomes
  <2>5. ResourceStages' =
          [r \in Tasks |-> IF r \in {t} THEN "open" ELSE ResourceStages[r]]
    BY <2>3 DEF ResourceStages
  <2>6. Shutdown!Provide({t})
    BY <1>1, <2>1, <2>3, <2>4, <2>5 DEF Shutdown!Provide
  <2>. QED  BY <2>6 DEF Shutdown!Next
<1>3. CASE CloseTask(t)
  <2>1. /\ task' = [task EXCEPT ![t] = "closing"] /\ task[t] = "open" /\ shuttingDown
        /\ \A s \in Tasks : task[s] # "closing" /\ (task[s] = "open" => ~Before(s, t))
    BY <1>3 DEF CloseTask, CloseNext
  <2>2. "closing" \in TaskStates /\ "closing" \notin Outcomes
    BY DEF TaskStates, Outcomes
  <2>3. UNCHANGED ServerStage /\ ResourceStages' = [ResourceStages EXCEPT ![t] = "closing"]
    BY <1>1, <2>1, <2>2, StageMoves DEF LifecycleInv
  <2>4. \A s \in Tasks :
          ResourceStages[s] # "closing" /\ (ResourceStages[s] = "open" => task[s] = "open")
    BY <2>1 DEF ResourceStages, Stage, LifecycleInv, LifecycleTypeOK
  <2>5. \A s \in Tasks : ResourceStages[s] = "open" => Priority[s] <= Priority[t]
    BY <2>1, <2>4, TaskAssumption DEF Before
  <2>6. ResourceStages[t] = "open" /\ ServerStage = "closing"
    BY <2>1 DEF ResourceStages, Stage, Settled, Outcomes, ServerStage
  <2>. QED
    BY <1>1, <2>3, <2>4, <2>5, <2>6 DEF Shutdown!Next, Shutdown!Close
<1>4. CASE TaskSettles(t)
  <2>1. PICK outcome \in Outcomes :
          task' = [task EXCEPT ![t] = outcome] /\ task[t] = "closing"
    BY <1>4 DEF TaskSettles, Settle
  <2>2. UNCHANGED ServerStage /\ ResourceStages' = [ResourceStages EXCEPT ![t] = "settled"]
    BY <1>1, <2>1, StageMoves DEF LifecycleInv, TaskStates
  <2>3. ResourceStages[t] = "closing"
    BY <2>1 DEF ResourceStages, Stage, Settled, Outcomes
  <2>. QED  BY <1>1, <2>2, <2>3 DEF Shutdown!Next, Shutdown!Settle
<1>. QED  BY <1>2, <1>3, <1>4

(* The API process implements the shutdown that GracefulShutdown promises, *)
(* for any tasks, priorities and connections.                              *)
THEOREM ApiShutsDownGracefully == LifecycleSpec => ImplementsShutdown
<1>1. LifecycleInit => Shutdown!Init
  <2>. SUFFICES ASSUME LifecycleInit PROVE Shutdown!Init
    OBVIOUS
  <2>1. \A t \in Tasks : Stage(t) \in {"unused", "open"}
    BY DEF LifecycleInit, Stage, Settled, Outcomes
  <2>2. ResourceStages \in [Tasks -> {"unused", "open"}]
    BY <2>1 DEF ResourceStages
  <2>3. BusyConns = {} /\ ServerStage = "serving"
    BY DEF LifecycleInit, BusyConns, ServerStage
  <2>. QED  BY <2>2, <2>3 DEF Shutdown!Init
<1>2. LifecycleInv /\ [LifecycleNext]_lifecycleVars => [Shutdown!Next]_(Shutdown!shutdownVars)
  <2>. SUFFICES ASSUME LifecycleInv, [LifecycleNext]_lifecycleVars
                PROVE  Shutdown!Next \/ UNCHANGED Shutdown!shutdownVars
    OBVIOUS
  <2>1. CASE UNCHANGED lifecycleVars
    BY <2>1, StagesStay DEF lifecycleVars, BusyConns, Shutdown!shutdownVars
  <2>2. CASE LifecycleNext
    BY <2>2, TrafficImplements, EventsStutter, TimeOutImplements,
       DrainedImplements, RegistryImplements DEF LifecycleNext
  <2>. QED  BY <2>1, <2>2
<1>. QED
  BY <1>1, <1>2, LifecycleInvariance, PTL
  DEF LifecycleSpec, ImplementsShutdown, Shutdown!Spec

-----------------------------------------------------------------------------
(* The process that createContainer and startServer put together.          *)

(* What has been registered stays so.                                      *)
LEMMA BootTasksRegistered ==
  LifecycleSpec => [](\A t \in BootTasks : task[t] # "unregistered")
<1>. DEFINE Registered == \A t \in BootTasks : task[t] # "unregistered"
<1>1. LifecycleInit => Registered
  BY BootAssumption DEF LifecycleInit
<1>2. LifecycleInv /\ Registered /\ [LifecycleNext]_lifecycleVars => Registered'
  <2>. SUFFICES ASSUME LifecycleInv, Registered, [LifecycleNext]_lifecycleVars
                PROVE  Registered'
    OBVIOUS
  <2>1. CASE UNCHANGED task
    BY <2>1
  <2>2. ASSUME NEW t \in Tasks, RegisterTask(t) \/ CloseTask(t) \/ TaskSettles(t)
        PROVE  Registered'
    <3>1. PICK state \in TaskStates \ {"unregistered"} : task' = [task EXCEPT ![t] = state]
      BY <2>2 DEF RegisterTask, CloseTask, TaskSettles, Register, CloseNext, Settle,
                  TaskStates, Outcomes
    <3>. QED  BY <3>1, BootAssumption DEF LifecycleInv, LifecycleTypeOK
  <2>. QED
    BY <2>1, <2>2
    DEF LifecycleNext, Traffic, Turn, Connect, Request, Respond, Disconnect,
        HandlerEnds, Event, Kill, TimeOut, Drained, DrainRefused, Finish, Exit,
        CloseAll, registry, lifecycleVars
<1>. QED  BY <1>1, <1>2, LifecycleInvariance, PTL DEF LifecycleSpec

(* For every setting of the environment and whichever adapters the         *)
(* application brings along: while a request is handled whose client       *)
(* waits, and while a resource is open or closing, all it works with is    *)
(* open, in every order of signals, traffic, timeouts and failing close(). *)
THEOREM NeededByApiIsOpen ==
  ASSUME NEW v \in Settings, NEW o \in Options,
         NEW name \in [BootTasks -> ApiTasks(v, o)],
         \A t \in BootTasks : Priority[t] = ApiPriority(name[t])
  PROVE  LifecycleSpec =>
    [](\A t \in BootTasks :
         \/ \E c \in Conns : conn[c] = "busy"
         \/ \E s \in BootTasks :
              Needs(name[s], name[t]) /\ task[s] \in {"open", "closing"}
         => task[t] = "open")
<1>1. \A s, t \in BootTasks : Needs(name[s], name[t]) => Priority[s] > Priority[t]
  BY DependentsCloseFirst
<1>2. LifecycleInv /\ (\A t \in BootTasks : task[t] # "unregistered") =>
        \A t \in BootTasks :
          \/ \E c \in Conns : conn[c] = "busy"
          \/ \E s \in BootTasks :
               Needs(name[s], name[t]) /\ task[s] \in {"open", "closing"}
          => task[t] = "open"
  BY <1>1, BootAssumption DEF LifecycleInv, ClosedInOrder, RequestsKeepResources
<1>. QED  BY <1>2, LifecycleInvariance, BootTasksRegistered, PTL

=============================================================================
