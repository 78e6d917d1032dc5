-------------------------- MODULE GracefulShutdown --------------------------
(***************************************************************************)
(* What both processes promise of their shutdown.  Work goes on only while *)
(* no resource has begun to close; then the resources close one at a time, *)
(* by descending priority, each of them once.  A process that is started   *)
(* again starts from the beginning.                                        *)
(***************************************************************************)
EXTENDS Integers

CONSTANTS Resources, Priority, Workers

VARIABLES
  stage,     \* serving, closing
  resource,  \* unused, open, closing, settled
  busy       \* the workers that have work in hand

shutdownVars == <<stage, resource, busy>>

Unused == [r \in Resources |-> "unused"]

Init ==
  /\ stage = "serving"
  /\ resource \in [Resources -> {"unused", "open"}]
  /\ busy = {}

Provide(S) ==
  /\ stage = "serving" /\ \A r \in S : resource[r] = "unused"
  /\ resource' = [r \in Resources |-> IF r \in S THEN "open" ELSE resource[r]]
  /\ UNCHANGED <<stage, busy>>

Begin(w) ==
  /\ stage = "serving"
  /\ busy' = busy \cup {w}
  /\ UNCHANGED <<stage, resource>>

End(S) == busy' = busy \ S /\ UNCHANGED <<stage, resource>>

BeginClosing ==
  /\ stage = "serving" /\ busy = {}
  /\ stage' = "closing"
  /\ UNCHANGED <<resource, busy>>

Close(r) ==
  /\ stage = "closing" /\ resource[r] = "open"
  /\ \A q \in Resources :
       /\ resource[q] # "closing"
       /\ resource[q] = "open" => Priority[q] <= Priority[r]
  /\ resource' = [resource EXCEPT ![r] = "closing"]
  /\ UNCHANGED <<stage, busy>>

Settle(r) ==
  /\ resource[r] = "closing"
  /\ resource' = [resource EXCEPT ![r] = "settled"]
  /\ UNCHANGED <<stage, busy>>

(* A crash or an exit, at any moment.                                      *)
Restart ==
  /\ stage' = "serving" /\ resource' = Unused /\ busy' = {}

Next ==
  \/ \E S \in SUBSET Resources : Provide(S)
  \/ \E w \in Workers : Begin(w)
  \/ \E S \in SUBSET Workers : End(S)
  \/ BeginClosing
  \/ \E r \in Resources : Close(r) \/ Settle(r)
  \/ Restart

Spec == Init /\ [][Next]_shutdownVars

=============================================================================
