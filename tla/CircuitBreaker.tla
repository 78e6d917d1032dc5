--------------------------- MODULE CircuitBreaker ---------------------------
(***************************************************************************)
(* resilience/CircuitBreaker.ts: one breaker shared by concurrent callers  *)
(* of execute().  The operation is awaited between the admission and the   *)
(* recording of its outcome, so a call admitted in one state of the        *)
(* breaker may settle in another.                                          *)
(*                                                                         *)
(* The code keeps openedAt and reads now(); the model keeps the difference *)
(* of the two, which is all it compares, and stops counting once it is     *)
(* past the reset timeout.                                                 *)
(***************************************************************************)
EXTENDS Integers

CONSTANTS
  Callers,
  FailureThreshold,  \* options.failureThreshold
  SuccessThreshold,  \* options.successThreshold ?? 1
  ResetTimeout       \* options.resetTimeoutMs, in ticks

ASSUME ThresholdAssumption ==
  /\ FailureThreshold \in Nat \ {0}
  /\ SuccessThreshold \in Nat \ {0}
  /\ ResetTimeout \in Nat \ {0}

VARIABLES
  currentState,
  failures,
  halfOpenSuccesses,
  sinceOpened,   \* now() - openedAt
  running,       \* callers whose operation is pending
  sinceFailure   \* history: time since any operation failed

breaker == <<currentState, failures, halfOpenSuccesses, sinceOpened>>
breakerVars == <<breaker, running, sinceFailure>>

States == {"CLOSED", "OPEN", "HALF_OPEN"}
(* Bounds: times past the reset timeout are not told apart, nor are counts *)
(* of failures past the threshold.                                         *)
TimeCap == ResetTimeout + 1
FailureCap == FailureThreshold + 1
Counted(n) == IF n < FailureCap THEN n + 1 ELSE FailureCap
Later(time) == IF time < TimeCap THEN time + 1 ELSE TimeCap

BreakerInit ==
  /\ currentState = "CLOSED"
  /\ failures = 0 /\ halfOpenSuccesses = 0 /\ sinceOpened = TimeCap
  /\ running = {} /\ sinceFailure = TimeCap

-----------------------------------------------------------------------------
(* The state getter: reading an OPEN circuit may turn it HALF_OPEN.        *)

ResetElapsed == sinceOpened >= ResetTimeout

HalfOpens == currentState = "OPEN" /\ ResetElapsed

ReadState ==
  IF HalfOpens
    THEN /\ currentState' = "HALF_OPEN" /\ halfOpenSuccesses' = 0
         /\ UNCHANGED <<failures, sinceOpened>>
    ELSE UNCHANGED breaker

(* Somebody looks at breaker.state, as a health report would.              *)
InspectState ==
  /\ ReadState
  /\ UNCHANGED <<running, sinceFailure>>

(* execute, up to the call of the operation.                               *)
Admit(c) ==
  /\ c \notin running
  /\ ReadState
  /\ currentState' # "OPEN"
  /\ running' = running \cup {c}
  /\ UNCHANGED sinceFailure

(* recordSuccess: it does not ask when the operation was admitted.         *)
RecordSuccess ==
  \/ /\ currentState = "HALF_OPEN"
     /\ halfOpenSuccesses' = halfOpenSuccesses + 1
     /\ IF halfOpenSuccesses + 1 < SuccessThreshold
          THEN UNCHANGED <<currentState, failures>>
          ELSE currentState' = "CLOSED" /\ failures' = 0
     /\ UNCHANGED sinceOpened
  \/ /\ currentState # "HALF_OPEN"
     /\ currentState' = "CLOSED" /\ failures' = 0
     /\ UNCHANGED <<halfOpenSuccesses, sinceOpened>>

(* recordFailure: a failure that settles late, in OPEN, moves openedAt.    *)
FirstOpeningCounts == \* fault: openedAt is not moved once it is set
  /\ failures' = Counted(failures)
  /\ IF currentState = "HALF_OPEN" \/ failures + 1 >= FailureThreshold
       THEN /\ currentState' = "OPEN"
            /\ sinceOpened' = IF currentState = "CLOSED" THEN 0 ELSE sinceOpened
       ELSE UNCHANGED <<currentState, sinceOpened>>
  /\ UNCHANGED halfOpenSuccesses
RecordFailure ==
  /\ failures' = Counted(failures)
  /\ IF currentState = "HALF_OPEN" \/ failures + 1 >= FailureThreshold
       THEN currentState' = "OPEN" /\ sinceOpened' = 0
       ELSE UNCHANGED <<currentState, sinceOpened>>
  /\ UNCHANGED halfOpenSuccesses

(* A circuit that is OPEN throws CircuitOpenError before the try block.    *)
RejectionCounts(c) == \* fault: the check is inside the try block
  /\ c \notin running
  /\ currentState = "OPEN" /\ ~HalfOpens
  /\ RecordFailure /\ sinceFailure' = 0
  /\ UNCHANGED running
Reject(c) ==
  /\ c \notin running
  /\ currentState = "OPEN" /\ ~HalfOpens
  /\ UNCHANGED breakerVars

Succeed(c) ==
  /\ c \in running
  /\ running' = running \ {c}
  /\ RecordSuccess
  /\ UNCHANGED sinceFailure

Fail(c) ==
  /\ c \in running
  /\ running' = running \ {c}
  /\ RecordFailure
  /\ sinceFailure' = 0

Tick ==
  /\ sinceOpened' = Later(sinceOpened)
  /\ sinceFailure' = Later(sinceFailure)
  /\ UNCHANGED <<currentState, failures, halfOpenSuccesses, running>>

BreakerNext ==
  \/ InspectState
  \/ \E c \in Callers : Admit(c)
  \/ \E c \in Callers : Reject(c)
  \/ \E c \in Callers : Succeed(c)
  \/ \E c \in Callers : Fail(c)
  \/ Tick

BreakerSpec == BreakerInit /\ [][BreakerNext]_breakerVars

-----------------------------------------------------------------------------
(* Every variable holds a value of its type.                               *)
BreakerTypeOK ==
  /\ currentState \in States
  /\ failures \in 0 .. FailureCap
  /\ halfOpenSuccesses \in 0 .. SuccessThreshold
  /\ sinceOpened \in 0 .. TimeCap
  /\ running \subseteq Callers
  /\ sinceFailure \in 0 .. TimeCap

(* The state and the counter agree: the circuit is CLOSED exactly while    *)
(* the failures counted since it last closed are below the threshold,      *)
(* however late operations settle (recordSuccess, recordFailure).          *)
TrippedIffOverThreshold ==
  currentState = "CLOSED" <=> failures < FailureThreshold

(* A HALF_OPEN circuit still owes at least one success before it closes.   *)
ProbesOwed ==
  currentState = "HALF_OPEN" => halfOpenSuccesses < SuccessThreshold

(* The circuit lets probes through only after a whole reset timeout in     *)
(* which no operation failed, not even one admitted long before.           *)
HalfOpenIsQuiet ==
  currentState = "HALF_OPEN" => sinceFailure >= ResetTimeout

(* The inductive strengthening: an OPEN circuit measures the reset timeout *)
(* from the last failure of any operation.                                 *)
BreakerInv ==
  /\ BreakerTypeOK
  /\ TrippedIffOverThreshold
  /\ ProbesOwed
  /\ HalfOpenIsQuiet
  /\ currentState = "OPEN" => sinceOpened = sinceFailure

=============================================================================
