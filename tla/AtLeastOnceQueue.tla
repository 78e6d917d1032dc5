-------------------------- MODULE AtLeastOnceQueue --------------------------
(***************************************************************************)
(* What the job queue promises.  A job that enqueue has answered for stays *)
(* until it is done or given up; it is done only once its e-mail has gone  *)
(* out, given up only after MinRuns runs, and run MaxRuns times at most,   *)
(* never again when it has ended.                                          *)
(***************************************************************************)
EXTENDS Integers

CONSTANTS Jobs, MinRuns, MaxRuns

VARIABLES
  state,     \* absent, pending, done, failed
  runs,      \* how often the job was begun
  delivered, \* jobs whose e-mail was accepted, once or more often
  promised   \* jobs for which a call of enqueue has returned

queueVars == <<state, runs, delivered, promised>>

Init ==
  /\ state = [id \in Jobs |-> "absent"]
  /\ runs = [id \in Jobs |-> 0]
  /\ delivered = {} /\ promised = {}

Accept(id) ==
  /\ state[id] = "absent"
  /\ state' = [state EXCEPT ![id] = "pending"]
  /\ UNCHANGED <<runs, delivered, promised>>

Promise(id) ==
  /\ state[id] # "absent"
  /\ promised' = promised \cup {id}
  /\ UNCHANGED <<state, runs, delivered>>

Run(id) ==
  /\ state[id] = "pending" /\ runs[id] < MaxRuns
  /\ runs' = [runs EXCEPT ![id] = @ + 1]
  /\ UNCHANGED <<state, delivered, promised>>

(* A run may end long after the job was given to another, or given up.     *)
Deliver(id) ==
  /\ runs[id] > 0
  /\ delivered' = delivered \cup {id}
  /\ UNCHANGED <<state, runs, promised>>

Complete(id) ==
  /\ state[id] = "pending" /\ id \in delivered
  /\ state' = [state EXCEPT ![id] = "done"]
  /\ UNCHANGED <<runs, delivered, promised>>

GiveUp(id) ==
  /\ state[id] = "pending" /\ runs[id] >= MinRuns
  /\ state' = [state EXCEPT ![id] = "failed"]
  /\ UNCHANGED <<runs, delivered, promised>>

Next ==
  \E id \in Jobs :
    Accept(id) \/ Promise(id) \/ Run(id) \/ Deliver(id) \/ Complete(id) \/ GiveUp(id)

Spec == Init /\ [][Next]_queueVars

=============================================================================
