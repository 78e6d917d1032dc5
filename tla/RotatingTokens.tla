--------------------------- MODULE RotatingTokens ---------------------------
(***************************************************************************)
(* What refresh-token rotation promises.  Every login opens a family; a    *)
(* family has at most one token that a refresh accepts.  A refresh takes   *)
(* that token away before it hands out the next one, and a token that has  *)
(* been taken away is never accepted again.                                *)
(***************************************************************************)
CONSTANTS Tokens, None

VARIABLES
  phase,    \* of the family that each token would open
  current,  \* the token of the family that a refresh accepts, if any
  spent     \* tokens that are never accepted again

rotationVars == <<phase, current, spent>>

Phases == {"new", "live", "rotating", "closed"}

RotationTypeOK ==
  /\ phase \in [Tokens -> Phases]
  /\ current \in [Tokens -> Tokens \cup {None}]
  /\ spent \subseteq Tokens

Init ==
  /\ phase = [f \in Tokens |-> "new"]
  /\ current = [f \in Tokens |-> None]
  /\ spent = {}

Fresh(t) == t \notin spent /\ \A f \in Tokens : current[f] # t

Open(f) ==
  /\ phase[f] = "new" /\ Fresh(f)
  /\ phase' = [phase EXCEPT ![f] = "live"]
  /\ current' = [current EXCEPT ![f] = f]
  /\ UNCHANGED spent

Begin(f) ==
  /\ phase[f] = "live"
  /\ phase' = [phase EXCEPT ![f] = "rotating"]
  /\ current' = [current EXCEPT ![f] = None]
  /\ spent' = spent \cup {current[f]}

End(f, t) ==
  /\ phase[f] = "rotating" /\ Fresh(t)
  /\ phase' = [phase EXCEPT ![f] = "live"]
  /\ current' = [current EXCEPT ![f] = t]
  /\ UNCHANGED spent

(* Logout, revocation, expiry, a failed refresh or a restart: any set of   *)
(* opened families closes for good.                                        *)
Close(F) ==
  /\ \A f \in F : phase[f] \in {"live", "rotating"}
  /\ phase' = [f \in Tokens |-> IF f \in F THEN "closed" ELSE phase[f]]
  /\ current' = [f \in Tokens |-> IF f \in F THEN None ELSE current[f]]
  /\ spent' = spent \cup {current[f] : f \in {g \in F : phase[g] = "live"}}

Next ==
  \/ \E f \in Tokens : Open(f) \/ Begin(f)
  \/ \E f, t \in Tokens : End(f, t)
  \/ \E F \in SUBSET Tokens : Close(F)

Spec == Init /\ [][Next]_rotationVars

=============================================================================
