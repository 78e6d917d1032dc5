---------------------------- MODULE AtomicUploads ----------------------------
(***************************************************************************)
(* What both storage providers promise of uploads that race on keys.  An   *)
(* upload takes effect at one moment between its call and its end, or      *)
(* never: only then is it what its key names.  It is answered only after   *)
(* it has taken effect; one that fails may have.                           *)
(***************************************************************************)
CONSTANTS Uploads, Keys, NoUpload

VARIABLES
  replaces,  \* an upload may take the place of another; never changes
  key,       \* of each upload
  phase,     \* new, pending, effective, answered, failed
  holds      \* the upload that each key names, all of it

uploadVars == <<replaces, key, phase, holds>>

Init ==
  /\ replaces \in BOOLEAN
  /\ key \in [Uploads -> Keys]
  /\ phase = [u \in Uploads |-> "new"]
  /\ holds = [k \in Keys |-> NoUpload]

Begin(u, k) ==
  /\ phase[u] = "new"
  /\ phase' = [phase EXCEPT ![u] = "pending"]
  /\ key' = [key EXCEPT ![u] = k]
  /\ UNCHANGED <<replaces, holds>>

TakeEffect(u) ==
  /\ phase[u] = "pending"
  /\ replaces \/ holds[key[u]] = NoUpload
  /\ phase' = [phase EXCEPT ![u] = "effective"]
  /\ holds' = [holds EXCEPT ![key[u]] = u]
  /\ UNCHANGED <<replaces, key>>

(* Where nothing is replaced, it may have been removed on its way.         *)
TakeNoEffect(u) ==
  /\ phase[u] = "pending" /\ ~replaces
  /\ phase' = [phase EXCEPT ![u] = "effective"]
  /\ UNCHANGED <<replaces, key, holds>>

Answer(u) ==
  /\ phase[u] = "effective"
  /\ phase' = [phase EXCEPT ![u] = "answered"]
  /\ UNCHANGED <<replaces, key, holds>>

(* Errors and crashes.                                                     *)
GiveUp(U) ==
  /\ \A u \in U : phase[u] \in {"pending", "effective"}
  /\ phase' = [u \in Uploads |-> IF u \in U THEN "failed" ELSE phase[u]]
  /\ UNCHANGED <<replaces, key, holds>>

Remove(k) ==
  /\ holds' = [holds EXCEPT ![k] = NoUpload]
  /\ UNCHANGED <<replaces, key, phase>>

Next ==
  \/ \E u \in Uploads, k \in Keys : Begin(u, k)
  \/ \E u \in Uploads : TakeEffect(u) \/ TakeNoEffect(u) \/ Answer(u)
  \/ \E U \in SUBSET Uploads : GiveUp(U)
  \/ \E k \in Keys : Remove(k)

Spec == Init /\ [][Next]_uploadVars

=============================================================================
