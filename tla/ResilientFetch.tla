--------------------------- MODULE ResilientFetch ---------------------------
(***************************************************************************)
(* resilience/resilientFetch.ts over resilience/retry.ts: concurrent       *)
(* outbound calls that share one circuit breaker, each with a timeout and, *)
(* when the request is idempotent, a bounded number of attempts.           *)
(***************************************************************************)
EXTENDS CircuitBreaker

CONSTANT Attempts  \* OUTBOUND_RETRY_ATTEMPTS

ASSUME AttemptsAssumption == Attempts \in Nat \ {0}

VARIABLE fetch  \* per caller: where it is in the retry loop

fetchVars == <<breakerVars, fetch>>

(* calling: about to enter execute; waiting: for fetch; backoff: for the   *)
(* timer between two attempts.                                             *)
FetchSteps == {"idle", "calling", "waiting", "backoff"}
IdleFetch == [pc |-> "idle", idempotent |-> FALSE, attempt |-> 0, sent |-> 0]

(* How an operation can fail: a 408, 429 or 5xx answer, the abort signal's *)
(* timeout, or anything else (no connection, no DNS).                      *)
Errors == {"status", "timeout", "network"}

ShouldRetry(error) == error \in {"status", "timeout"}

(* Only idempotent requests reach the retry loop.                          *)
RetriesPost(c, error) == \* fault: isIdempotent is not consulted
  fetch[c].attempt < Attempts /\ ShouldRetry(error)
OneAttemptTooMany(c, error) == \* fault: <= for <
  fetch[c].idempotent /\ fetch[c].attempt <= Attempts /\ ShouldRetry(error)
CanRetry(c, error) ==
  /\ fetch[c].idempotent
  /\ fetch[c].attempt < Attempts
  /\ ShouldRetry(error)

FetchInit == BreakerInit /\ fetch = [c \in Callers |-> IdleFetch]

Begin(c, idempotent) ==
  /\ fetch[c].pc = "idle"
  /\ fetch' = [fetch EXCEPT ![c] =
       [pc |-> "calling", idempotent |-> idempotent, attempt |-> 1, sent |-> 0]]
  /\ UNCHANGED breakerVars

RetryUnprotected(c) == \* fault: only the first attempt goes through the breaker
  /\ fetch[c].pc = "calling"
  /\ IF fetch[c].attempt = 1 THEN Admit(c)
     ELSE /\ running' = running \cup {c}
          /\ UNCHANGED <<breaker, sinceFailure>>
  /\ fetch' = [fetch EXCEPT ![c].pc = "waiting", ![c].sent = @ + 1]
Send(c) ==
  /\ fetch[c].pc = "calling"
  /\ Admit(c)
  /\ fetch' = [fetch EXCEPT ![c].pc = "waiting", ![c].sent = @ + 1]

(* CircuitOpenError is not an error the loop retries.                      *)
WaitsForCircuit(c) == \* fault: an OPEN circuit is waited for
  /\ fetch[c].pc = "calling"
  /\ Reject(c)
  /\ UNCHANGED fetch
Blocked(c) ==
  /\ fetch[c].pc = "calling"
  /\ Reject(c)
  /\ fetch' = [fetch EXCEPT ![c] = IdleFetch]

Answered(c) ==
  /\ fetch[c].pc = "waiting"
  /\ Succeed(c)
  /\ fetch' = [fetch EXCEPT ![c] = IdleFetch]

Refused(c, error) ==
  /\ fetch[c].pc = "waiting"
  /\ Fail(c)
  /\ fetch' = [fetch EXCEPT ![c] =
       IF CanRetry(c, error) THEN [@ EXCEPT !.pc = "backoff"] ELSE IdleFetch]

Wake(c) ==
  /\ fetch[c].pc = "backoff"
  /\ fetch' = [fetch EXCEPT ![c].pc = "calling", ![c].attempt = @ + 1]
  /\ UNCHANGED breakerVars

Proceed(c) ==
  \/ Send(c)
  \/ Blocked(c)
  \/ Answered(c)
  \/ \E error \in Errors : Refused(c, error)
  \/ Wake(c)

Inspect == InspectState /\ UNCHANGED fetch
Passes == Tick /\ UNCHANGED fetch

FetchNext ==
  \/ \E c \in Callers, idempotent \in BOOLEAN : Begin(c, idempotent)
  \/ \E c \in Callers : Proceed(c)
  \/ Inspect
  \/ Passes

FetchSpec == FetchInit /\ [][FetchNext]_fetchVars

(* Timers fire and fetch answers or is aborted.                            *)
FairFetchSpec == FetchSpec /\ \A c \in Callers : WF_fetchVars(Proceed(c))

-----------------------------------------------------------------------------
FetchType == [pc : FetchSteps, idempotent : BOOLEAN, attempt : Nat, sent : Nat]

(* The count of requests follows the attempt: equal while a request is     *)
(* pending or has failed, one behind before it is sent.                    *)
LoopShape(f) ==
  /\ f.pc = "idle" => f.attempt = 0 /\ f.sent = 0
  /\ f.pc = "calling" => f.attempt = f.sent + 1
  /\ f.pc \in {"waiting", "backoff"} => f.attempt = f.sent
  /\ f.pc = "backoff" => f.idempotent /\ f.attempt < Attempts
  /\ f.attempt <= IF f.idempotent THEN Attempts ELSE 1
SendInv ==
  /\ fetch \in [Callers -> FetchType]
  /\ \A c \in Callers :
       LoopShape(fetch[c]) /\ (fetch[c].pc = "waiting" <=> c \in running)

(* The breaker's invariant holds under the retry loops; every caller's     *)
(* operation is pending in the breaker exactly while it waits for fetch,   *)
(* and its attempts are counted.                                           *)
FetchInv == BreakerInv /\ SendInv

(* A request that is not idempotent is sent at most once, and any request  *)
(* at most Attempts times, whatever fails (OPERATIONS.md, Outbound         *)
(* resilience: automatic retries are limited to idempotent methods).       *)
SendsBounded ==
  \A c \in Callers : fetch[c].sent <= IF fetch[c].idempotent THEN Attempts ELSE 1

(* A retry is a new admission: while the circuit is OPEN and its reset     *)
(* timeout has not passed, nothing is sent, not even by a call that was    *)
(* already in its retry loop when the circuit opened.                      *)
NothingSentWhileOpen ==
  [][\A c \in Callers :
       fetch'[c].sent > fetch[c].sent =>
         ~(currentState = "OPEN" /\ sinceOpened < ResetTimeout)]_fetchVars

(* Every outbound call ends, with an answer or an error.                   *)
EveryFetchEnds == \A c \in Callers : fetch[c].pc # "idle" ~> fetch[c].pc = "idle"

(* A circuit does not stay OPEN: if time passes and callers keep coming it *)
(* is probed again, whatever stragglers and rejected calls do.             *)
CallersKeepComing == []<>(\E c \in Callers : fetch[c].pc = "calling")
OpenIsProbedAgain ==
  WF_fetchVars(Passes) /\ CallersKeepComing =>
    (currentState = "OPEN" ~> currentState # "OPEN")

=============================================================================
