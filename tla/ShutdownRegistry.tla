-------------------------- MODULE ShutdownRegistry --------------------------
(***************************************************************************)
(* shutdown/ShutdownRegistry.ts: resources register a task, closeAll runs  *)
(* the tasks one after the other by descending priority and goes on past   *)
(* the ones that fail.  Tasks are numbered in the order they register.     *)
(***************************************************************************)
EXTENDS Integers

CONSTANTS Tasks, Priority

ASSUME TaskAssumption == Tasks \subseteq Nat /\ Priority \in [Tasks -> Int]

VARIABLES task, shuttingDown

registry == <<task, shuttingDown>>

(* A close that throws may have released its resource or not ("leaked").   *)
Outcomes == {"closed", "failed", "leaked"}
TaskStates == {"unregistered", "open", "closing"} \cup Outcomes

Settled(t) == task[t] \in Outcomes
(* A task's stage, its outcome aside.                                      *)
Stage(t) ==
  IF Settled(t) THEN "settled"
  ELSE IF task[t] = "unregistered" THEN "unused" ELSE task[t]
Failures == {t \in Tasks : task[t] \in {"failed", "leaked"}}

(* The order of a stable sort by descending priority.                      *)
LowestFirst(s, t) == \* fault: left - right
  Priority[s] < Priority[t] \/ (Priority[s] = Priority[t] /\ s < t)
Before(s, t) ==
  Priority[s] > Priority[t] \/ (Priority[s] = Priority[t] /\ s < t)

(* register throws once closeAll has begun.                                *)
Register(t) ==
  /\ ~shuttingDown
  /\ task[t] = "unregistered"
  /\ \A s \in Tasks : s < t => task[s] # "unregistered"
  /\ task' = [task EXCEPT ![t] = "open"]
  /\ UNCHANGED shuttingDown

(* closeAll, up to the loop; a second call returns at once.                *)
CloseAll ==
  /\ ~shuttingDown
  /\ shuttingDown' = TRUE
  /\ UNCHANGED task

(* One turn of the loop: the call of task.close(), and its settling.       *)
CloseNext(t) ==
  /\ shuttingDown
  /\ task[t] = "open"
  /\ \A s \in Tasks :
       /\ task[s] # "closing"
       /\ task[s] = "open" => ~Before(s, t)
  /\ task' = [task EXCEPT ![t] = "closing"]
  /\ UNCHANGED shuttingDown

Settle(t, outcome) ==
  /\ task[t] = "closing"
  /\ task' = [task EXCEPT ![t] = outcome]
  /\ UNCHANGED shuttingDown

StopsAtFailure == \* fault: the loop has no catch
  shuttingDown /\ (Failures # {} \/ \A t \in Tasks : task[t] \notin {"open", "closing"})
LoopEnds ==
  shuttingDown /\ \A t \in Tasks : task[t] \notin {"open", "closing"}

-----------------------------------------------------------------------------
(* A resource begins to close only when every resource of a higher         *)
(* priority has been closed, or has failed to: the database is still there *)
(* for what closes before it, telemetry for everything (OPERATIONS.md,     *)
(* Graceful shutdown).                                                     *)
ClosedInOrder ==
  \A s, t \in Tasks :
    Priority[s] > Priority[t] /\ task[s] \in {"open", "closing"}
      => task[t] \in {"unregistered", "open"}

=============================================================================
