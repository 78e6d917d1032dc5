------------------------ MODULE ResilientFetchProofs ------------------------
(***************************************************************************)
(* Proofs about the breaker and the retry loop over it, for any set of     *)
(* callers, any thresholds and any reset timeout.  BreakerInv is           *)
(* inductive: the one fact the named invariants lack is that an OPEN       *)
(* circuit measures its reset timeout from the last failure of any         *)
(* operation.  The retry loop uses the breaker only through its own        *)
(* operations, so all that holds of the breaker holds under it, and the    *)
(* number of requests sent is bounded.                                     *)
(***************************************************************************)
EXTENDS ResilientFetch, TLAPS

USE ThresholdAssumption, AttemptsAssumption

-----------------------------------------------------------------------------
(* The breaker.                                                            *)

(* The initial state satisfies the invariant.                              *)
LEMMA BreakerInitInv == BreakerInit => BreakerInv
BY DEF BreakerInit, BreakerInv, BreakerTypeOK, TrippedIffOverThreshold,
       ProbesOwed, HalfOpenIsQuiet, States, TimeCap, FailureCap

(* Reading the state keeps the invariant's account of it.                  *)
LEMMA ReadStateInv ==
  ASSUME BreakerInv, ReadState, UNCHANGED sinceFailure,
         running' \subseteq Callers
  PROVE  BreakerInv'
<1>1. CASE HalfOpens
  <2>1. sinceFailure >= ResetTimeout
    BY <1>1 DEF BreakerInv, HalfOpens, ResetElapsed
  <2>. QED
    BY <1>1, <2>1 DEF ReadState, HalfOpens, BreakerInv, BreakerTypeOK, States,
       TrippedIffOverThreshold, ProbesOwed, HalfOpenIsQuiet, FailureCap, TimeCap
<1>2. CASE ~HalfOpens
  BY <1>2 DEF ReadState, breaker, BreakerInv, BreakerTypeOK,
     TrippedIffOverThreshold, ProbesOwed, HalfOpenIsQuiet, FailureCap, TimeCap
<1>. QED  BY <1>1, <1>2

(* Recording a success keeps the invariant: it closes the circuit only     *)
(* together with a reset of the failure count.                             *)
LEMMA SucceedInv ==
  ASSUME BreakerInv, NEW c \in Callers, Succeed(c)
  PROVE  BreakerInv'
<1>1. running' \subseteq Callers /\ UNCHANGED sinceFailure
  BY DEF Succeed, BreakerInv, BreakerTypeOK
<1>2. CASE currentState = "HALF_OPEN"
  BY <1>1, <1>2 DEF Succeed, RecordSuccess, BreakerInv, BreakerTypeOK, States,
     TrippedIffOverThreshold, ProbesOwed, HalfOpenIsQuiet, FailureCap, TimeCap
<1>3. CASE currentState # "HALF_OPEN"
  BY <1>1, <1>3 DEF Succeed, RecordSuccess, BreakerInv, BreakerTypeOK, States,
     TrippedIffOverThreshold, ProbesOwed, HalfOpenIsQuiet, FailureCap, TimeCap
<1>. QED  BY <1>2, <1>3

(* Recording a failure keeps the invariant: in OPEN and HALF_OPEN the      *)
(* count is already at the threshold, so every failure stamps openedAt.    *)
LEMMA FailInv ==
  ASSUME BreakerInv, NEW c \in Callers, Fail(c)
  PROVE  BreakerInv'
<1>1. /\ running' \subseteq Callers
      /\ sinceFailure' = 0 /\ failures' = Counted(failures)
      /\ UNCHANGED halfOpenSuccesses
  BY DEF Fail, RecordFailure, BreakerInv, BreakerTypeOK
<1>2. /\ failures' \in 0 .. FailureCap
      /\ failures + 1 >= FailureThreshold <=> failures' >= FailureThreshold
      /\ failures >= FailureThreshold => failures' >= FailureThreshold
  BY <1>1 DEF Counted, FailureCap, BreakerInv, BreakerTypeOK
<1>3. CASE currentState = "HALF_OPEN" \/ failures + 1 >= FailureThreshold
  <2>1. currentState' = "OPEN" /\ sinceOpened' = 0
    BY <1>3 DEF Fail, RecordFailure
  <2>2. failures' >= FailureThreshold
    BY <1>2, <1>3 DEF BreakerInv, TrippedIffOverThreshold, BreakerTypeOK, FailureCap
  <2>. QED
    BY <1>1, <1>2, <2>1, <2>2 DEF BreakerInv, BreakerTypeOK, States,
       TrippedIffOverThreshold, ProbesOwed, HalfOpenIsQuiet, TimeCap, FailureCap
<1>4. CASE ~(currentState = "HALF_OPEN" \/ failures + 1 >= FailureThreshold)
  <2>1. UNCHANGED <<currentState, sinceOpened>>
    BY <1>4 DEF Fail, RecordFailure
  <2>2. currentState = "CLOSED" /\ failures' < FailureThreshold
    BY <1>2, <1>4 DEF BreakerInv, TrippedIffOverThreshold, BreakerTypeOK, FailureCap
  <2>. QED
    BY <1>1, <1>2, <2>1, <2>2 DEF BreakerInv, BreakerTypeOK, States,
       TrippedIffOverThreshold, ProbesOwed, HalfOpenIsQuiet, TimeCap, FailureCap
<1>. QED  BY <1>3, <1>4

(* Time that passes keeps the invariant: both timers advance together.     *)
LEMMA TickInv ==
  ASSUME BreakerInv, Tick
  PROVE  BreakerInv'
BY DEF Tick, Later, TimeCap, FailureCap, BreakerInv, BreakerTypeOK,
       TrippedIffOverThreshold, ProbesOwed, HalfOpenIsQuiet

(* Every step, and a stuttering one, preserves the invariant.              *)
LEMMA BreakerNextInv == BreakerInv /\ [BreakerNext]_breakerVars => BreakerInv'
<1>. SUFFICES ASSUME BreakerInv, [BreakerNext]_breakerVars PROVE BreakerInv'
  OBVIOUS
<1>1. CASE UNCHANGED breakerVars
  BY <1>1 DEF breakerVars, breaker, BreakerInv, BreakerTypeOK,
     TrippedIffOverThreshold, ProbesOwed, HalfOpenIsQuiet
<1>2. CASE InspectState
  BY <1>2, ReadStateInv DEF InspectState, BreakerInv, BreakerTypeOK
<1>3. ASSUME NEW c \in Callers, Admit(c) PROVE BreakerInv'
  BY <1>3, ReadStateInv DEF Admit, BreakerInv, BreakerTypeOK
<1>4. ASSUME NEW c \in Callers, Reject(c) PROVE BreakerInv'
  BY <1>1, <1>4 DEF Reject
<1>. QED  BY <1>1, <1>2, <1>3, <1>4, SucceedInv, FailInv, TickInv DEF BreakerNext

(* The strengthened invariant holds in every reachable state.              *)
THEOREM BreakerInvariance == BreakerSpec => []BreakerInv
BY BreakerInitInv, BreakerNextInv, PTL DEF BreakerSpec

(* Every variable of the breaker keeps its type.                           *)
THEOREM BreakerTypeCorrectness == BreakerSpec => []BreakerTypeOK
<1>1. BreakerInv => BreakerTypeOK
  BY DEF BreakerInv
<1>. QED  BY <1>1, BreakerInvariance, PTL

(* The circuit is tripped exactly when the failure count is at the         *)
(* threshold, so the HALF_OPEN test of recordFailure never decides alone.  *)
THEOREM TrippedByCount == BreakerSpec => []TrippedIffOverThreshold
<1>1. BreakerInv => TrippedIffOverThreshold
  BY DEF BreakerInv
<1>. QED  BY <1>1, BreakerInvariance, PTL

(* Probing starts only after a reset timeout without any failure.          *)
THEOREM ProbingIsQuiet == BreakerSpec => []HalfOpenIsQuiet
<1>1. BreakerInv => HalfOpenIsQuiet
  BY DEF BreakerInv
<1>. QED  BY <1>1, BreakerInvariance, PTL

-----------------------------------------------------------------------------
(* The retry loop.                                                         *)

(* Every step of an outbound call is a step of the breaker or leaves it    *)
(* alone: the retry loop implements a caller of execute.                   *)
THEOREM FetchImplementsBreaker == FetchSpec => BreakerSpec
<1>1. FetchInit => BreakerInit
  BY DEF FetchInit
<1>2. [FetchNext]_fetchVars => [BreakerNext]_breakerVars
  BY DEF FetchNext, fetchVars, Begin, Proceed, Send, Blocked, Answered, Refused,
         Wake, Inspect, Passes, BreakerNext
<1>. QED  BY <1>1, <1>2, PTL DEF FetchSpec, BreakerSpec

(* Under the retry loop a circuit still probes only after a quiet reset    *)
(* timeout, and is tripped exactly by its failure count.                   *)
THEOREM BreakerSafeUnderRetries ==
  FetchSpec => [](HalfOpenIsQuiet /\ TrippedIffOverThreshold)
<1>1. BreakerInv => HalfOpenIsQuiet /\ TrippedIffOverThreshold
  BY DEF BreakerInv
<1>. QED  BY <1>1, FetchImplementsBreaker, BreakerInvariance, PTL

(* The initial state satisfies the invariant of the retry loop.            *)
LEMMA SendInitInv == FetchInit => SendInv
BY DEF FetchInit, BreakerInit, SendInv, IdleFetch, FetchSteps, FetchType, LoopShape

(* A caller that wakes for its next attempt is well typed.                 *)
LEMMA NextAttemptType ==
  ASSUME NEW g \in FetchType
  PROVE  [g EXCEPT !.pc = "calling", !.attempt = @ + 1] \in FetchType
<1>. DEFINE h == [g EXCEPT !.pc = "calling"]
<1>1. h \in FetchType
  BY DEF FetchType, FetchSteps
<1>2. [h EXCEPT !.attempt = @ + 1] \in FetchType
  <2>. HIDE DEF h
  <2>. QED  BY <1>1 DEF FetchType
<1>3. [h EXCEPT !.attempt = @ + 1]
        = [g EXCEPT !.pc = "calling", !.attempt = @ + 1]
  OBVIOUS
<1>. QED  BY <1>2, <1>3

(* A step of one caller preserves the invariant.                           *)
LEMMA SendStep ==
  ASSUME SendInv, NEW c \in Callers, NEW f \in FetchType,
         fetch' = [fetch EXCEPT ![c] = f],
         \A d \in Callers \ {c} : d \in running' <=> d \in running,
         LoopShape(f), f.pc = "waiting" <=> c \in running'
  PROVE  SendInv'
<1>1. /\ fetch' \in [Callers -> FetchType]
      /\ fetch'[c] = f /\ \A d \in Callers \ {c} : fetch'[d] = fetch[d]
  BY DEF SendInv
<1>. QED  BY <1>1 DEF SendInv

(* Every step, and a stuttering one, preserves the invariant.              *)
LEMMA SendNextInv == SendInv /\ [FetchNext]_fetchVars => SendInv'
<1>. SUFFICES ASSUME SendInv, [FetchNext]_fetchVars PROVE SendInv'
  OBVIOUS
<1>1. CASE UNCHANGED <<fetch, running>>
  BY <1>1 DEF SendInv
<1>2. ASSUME NEW c \in Callers, NEW idempotent \in BOOLEAN, Begin(c, idempotent)
      PROVE  SendInv'
  <2>. DEFINE f == [pc |-> "calling", idempotent |-> idempotent,
                    attempt |-> 1, sent |-> 0]
  <2>1. f \in FetchType /\ LoopShape(f) /\ f.pc # "waiting"
    BY DEF FetchType, FetchSteps, LoopShape
  <2>2. c \notin running /\ running' = running /\ fetch' = [fetch EXCEPT ![c] = f]
    BY <1>2 DEF Begin, breakerVars, SendInv
  <2>. HIDE DEF f
  <2>. QED  BY <2>1, <2>2, SendStep
<1>3. ASSUME NEW c \in Callers, Proceed(c) PROVE SendInv'
  <2>0. fetch[c] \in FetchType /\ LoopShape(fetch[c])
    BY DEF SendInv
  <2>1. CASE Send(c)
    <3>. DEFINE f == [fetch[c] EXCEPT !.pc = "waiting", !.sent = @ + 1]
    <3>1. f \in FetchType /\ LoopShape(f) /\ f.pc = "waiting"
      BY <2>0, <2>1 DEF Send, FetchType, FetchSteps, LoopShape
    <3>2. running' = running \cup {c} /\ fetch' = [fetch EXCEPT ![c] = f]
      BY <2>1 DEF Send, Admit, SendInv
    <3>. HIDE DEF f
    <3>. QED  BY <3>1, <3>2, SendStep
  <2>2. CASE Wake(c)
    <3>. DEFINE f == [fetch[c] EXCEPT !.pc = "calling", !.attempt = @ + 1]
    <3>a. /\ fetch[c].idempotent /\ fetch[c].attempt < Attempts
          /\ fetch[c].attempt = fetch[c].sent /\ fetch[c].sent \in Nat
      BY <2>0, <2>2 DEF Wake, FetchType, LoopShape
    <3>b. /\ f.pc = "calling" /\ f.idempotent = fetch[c].idempotent
          /\ f.attempt = fetch[c].attempt + 1 /\ f.sent = fetch[c].sent
      BY <2>0 DEF FetchType
    <3>c. f \in FetchType
      BY <2>0, NextAttemptType
    <3>1. f \in FetchType /\ LoopShape(f) /\ f.pc # "waiting"
      BY <3>a, <3>b, <3>c DEF LoopShape
    <3>2. /\ c \notin running /\ running' = running
          /\ fetch' = [fetch EXCEPT ![c] = f]
      BY <2>2 DEF Wake, breakerVars, SendInv
    <3>. HIDE DEF f
    <3>. QED  BY <3>1, <3>2, SendStep
  <2>3. IdleFetch \in FetchType /\ LoopShape(IdleFetch) /\ IdleFetch.pc # "waiting"
    BY DEF FetchType, FetchSteps, LoopShape, IdleFetch
  <2>4. CASE Blocked(c)
    <3>1. /\ c \notin running /\ running' = running
          /\ fetch' = [fetch EXCEPT ![c] = IdleFetch]
      BY <2>4 DEF Blocked, Reject, breakerVars
    <3>. QED  BY <2>3, <3>1, SendStep
  <2>5. CASE Answered(c)
    <3>1. running' = running \ {c} /\ fetch' = [fetch EXCEPT ![c] = IdleFetch]
      BY <2>5 DEF Answered, Succeed
    <3>. QED  BY <2>3, <3>1, SendStep
  <2>6. ASSUME NEW error \in Errors, Refused(c, error) PROVE SendInv'
    <3>. DEFINE f == [fetch[c] EXCEPT !.pc = "backoff"]
    <3>1. /\ running' = running \ {c} /\ fetch[c].pc = "waiting"
          /\ fetch' = [fetch EXCEPT ![c] =
               IF CanRetry(c, error) THEN f ELSE IdleFetch]
      BY <2>6 DEF Refused, Fail, SendInv
    <3>2. CASE CanRetry(c, error)
      <4>1. f \in FetchType /\ LoopShape(f) /\ f.pc # "waiting"
        BY <2>0, <3>1, <3>2 DEF CanRetry, FetchType, FetchSteps, LoopShape
      <4>2. fetch' = [fetch EXCEPT ![c] = f]
        BY <3>1, <3>2
      <4>. HIDE DEF f
      <4>. QED  BY <3>1, <4>1, <4>2, SendStep
    <3>3. CASE ~CanRetry(c, error)
      BY <2>3, <3>1, <3>3, SendStep
    <3>. QED  BY <3>2, <3>3
  <2>. QED  BY <1>3, <2>1, <2>2, <2>4, <2>5, <2>6 DEF Proceed
<1>. QED
  BY <1>1, <1>2, <1>3 
  DEF FetchNext, fetchVars, breakerVars, Inspect, InspectState, Passes, Tick

(* The breaker under its retrying callers, and every caller's loop, keep   *)
(* the invariant.                                                          *)
THEOREM FetchInvariance == FetchSpec => []FetchInv
<1>1. FetchSpec => []SendInv
  BY SendInitInv, SendNextInv, PTL DEF FetchSpec
<1>. QED  BY <1>1, FetchImplementsBreaker, BreakerInvariance, PTL DEF FetchInv

(* A request that is not idempotent is sent at most once, any other at     *)
(* most Attempts times, for any number of attempts and callers.            *)
THEOREM RequestsSentBounded == FetchSpec => []SendsBounded
<1>1. SendInv => SendsBounded
  <2>. SUFFICES ASSUME SendInv, NEW c \in Callers
                PROVE  fetch[c].sent <= IF fetch[c].idempotent THEN Attempts ELSE 1
    BY DEF SendsBounded
  <2>1. fetch[c] \in FetchType /\ LoopShape(fetch[c])
    BY DEF SendInv
  <2>. QED  BY <2>1 DEF FetchType, FetchSteps, LoopShape
<1>. QED  BY <1>1, SendInitInv, SendNextInv, PTL DEF FetchSpec

(* Attempts go through the breaker: none of them, first or repeated, sends *)
(* a request while the circuit is OPEN and its reset timeout is running.   *)
THEOREM OpenCircuitIsRespected == FetchSpec => NothingSentWhileOpen
<1>. DEFINE Held == currentState = "OPEN" /\ sinceOpened < ResetTimeout
            Quiet == \A c \in Callers : fetch'[c].sent > fetch[c].sent => ~Held
<1>1. BreakerTypeOK /\ SendInv /\ [FetchNext]_fetchVars => Quiet
  <2>. SUFFICES ASSUME BreakerTypeOK, SendInv, [FetchNext]_fetchVars,
                       NEW c \in Callers, fetch'[c].sent > fetch[c].sent
                PROVE  ~Held
    OBVIOUS
  <2>1. fetch[c].sent \in Nat /\ fetch \in [Callers -> FetchType]
    BY DEF SendInv, FetchType
  <2>2. PICK d \in Callers :
          Proceed(d) \/ \E idempotent \in BOOLEAN : Begin(d, idempotent)
    BY <2>1 DEF FetchNext, fetchVars, Inspect, Passes
  <2>3. CASE Send(d)
    BY <2>3, ThresholdAssumption
    DEF Send, Admit, ReadState, HalfOpens, ResetElapsed, breaker, BreakerTypeOK, TimeCap
  <2>4. ASSUME ~Send(d) PROVE fetch'[c].sent <= fetch[c].sent
    <3>1. CASE \E idempotent \in BOOLEAN : Begin(d, idempotent)
      BY <2>1, <3>1 DEF Begin
    <3>2. CASE Blocked(d) \/ Answered(d)
      BY <2>1, <3>2 DEF Blocked, Answered, IdleFetch
    <3>3. CASE \E error \in Errors : Refused(d, error)
      BY <2>1, <3>3 DEF Refused, IdleFetch, FetchType
    <3>4. CASE Wake(d)
      BY <2>1, <3>4 DEF Wake, FetchType
    <3>. QED  BY <2>2, <2>4, <3>1, <3>2, <3>3, <3>4 DEF Proceed
  <2>. QED
    <3>1. CASE Send(d) BY <2>3, <3>1
    <3>2. CASE ~Send(d)
      <4>1. fetch'[c].sent <= fetch[c].sent
        BY <2>4, <3>2
      <4>2. SendInv'
        BY SendNextInv
      <4>. QED  BY <2>1, <4>1, <4>2 DEF SendInv, FetchType
    <3>. QED  BY <3>1, <3>2
<1>2. FetchSpec => []BreakerTypeOK
  BY FetchImplementsBreaker, BreakerTypeCorrectness, PTL
<1>3. FetchSpec => []SendInv
  BY SendInitInv, SendNextInv, PTL DEF FetchSpec
<1>4. Quiet => [\A c \in Callers : fetch'[c].sent > fetch[c].sent =>
                  ~(currentState = "OPEN" /\ sinceOpened < ResetTimeout)]_fetchVars
  OBVIOUS
<1>. QED  BY <1>1, <1>2, <1>3, <1>4, PTL DEF FetchSpec, NothingSentWhileOpen

=============================================================================
