------------------------------ MODULE JobQueue ------------------------------
(***************************************************************************)
(* The durable queue: BullMqQueueProvider.enqueue on the API's side, the   *)
(* job handler in BullMqWorkerRuntime on the worker's, and between them    *)
(* BullMQ on Redis, modelled from its use: a job is locked by the slot     *)
(* that runs it, a failure is retried, a job whose lock has expired is     *)
(* given out again.  Time is left out: a delayed job, one that backs off   *)
(* and one that is not picked up yet are all "waiting".                    *)
(***************************************************************************)
EXTENDS Integers

CONSTANTS
  Calls,      \* calls of enqueue (a bound)
  Keys,       \* idempotency keys; safeJobId is injective
  AutoIds,    \* the identifiers BullMQ draws for jobs without a key (a bound)
  Slots,      \* WORKER_CONCURRENCY handlers at a time
  Attempts,   \* 5 in enqueue
  MaxStalls,  \* maxStalledCount of BullMQ, 1 by default
  None

JobIds == Keys \cup AutoIds

ASSUME QueueAssumption ==
  /\ Attempts \in Nat \ {0} /\ MaxStalls \in Nat
  /\ Keys \cap AutoIds = {} /\ None \notin JobIds \cup Slots

VARIABLES
  call,  \* enqueue: adding, until Redis has run the command; added; answered
  job,   \* in Redis
  slot,  \* of the worker: settled once the handler's promise has
  sent   \* jobs of which the mail server has accepted an e-mail

queueVars == <<call, job, slot, sent>>

NoCall == [pc |-> "idle", key |-> None, known |-> FALSE, id |-> None]
FreeSlot == [pc |-> "free", job |-> None, ok |-> TRUE]
NewJob(key, known) ==
  [status |-> "waiting", key |-> key, known |-> known, started |-> 0,
   attempts |-> 0, stalls |-> 0, lock |-> None]
NoJob == [NewJob(None, FALSE) EXCEPT !.status = "absent"]

Final(id) == job[id].status \in {"done", "failed"}

QueueInit ==
  /\ call = [p \in Calls |-> NoCall]
  /\ job = [id \in JobIds |-> NoJob]
  /\ slot = [s \in Slots |-> FreeSlot]
  /\ sent = {}

-----------------------------------------------------------------------------
(* The API: enqueue, and the Redis connection below it, which sends a      *)
(* command again, without a limit, when the connection is lost before the  *)
(* reply.  A call whose process has died stays where it is.                *)

(* known: the worker has a handler for the type of the job.                *)
Enqueue(p, key, known) ==
  /\ call[p].pc = "idle"
  /\ call' = [call EXCEPT ![p] =
       [pc |-> "adding", key |-> key, known |-> known, id |-> None]]
  /\ UNCHANGED <<job, slot, sent>>

(* safeJobId of the key, or an identifier that was never used.             *)
IdsFor(key) ==
  IF key # None THEN {key} ELSE {id \in AutoIds : job[id].status = "absent"}

(* BullMQ adds nothing when the identifier is there, whatever its state.   *)
AddsAnew(p) == \* fault: the job of the same key is removed first
  /\ call[p].pc = "adding"
  /\ \E id \in IdsFor(call[p].key) :
       /\ job' = [job EXCEPT ![id] = NewJob(call[p].key, call[p].known)]
       /\ call' = [call EXCEPT ![p].pc = "added", ![p].id = id]
  /\ UNCHANGED <<slot, sent>>
Add(p) ==
  /\ call[p].pc = "adding"
  /\ \E id \in IdsFor(call[p].key) :
       /\ job' = IF job[id].status = "absent"
                   THEN [job EXCEPT ![id] = NewJob(call[p].key, call[p].known)]
                   ELSE job
       /\ call' = [call EXCEPT ![p].pc = "added", ![p].id = id]
  /\ UNCHANGED <<slot, sent>>

CallTurns(p, from, to) ==
  /\ call[p].pc = from
  /\ call' = [call EXCEPT ![p].pc = to]
  /\ UNCHANGED <<job, slot, sent>>

Answer(p) == CallTurns(p, "added", "answered")
Resend(p) == CallTurns(p, "added", "adding")

-----------------------------------------------------------------------------
(* The worker's slots.                                                     *)

Take(s, id) ==
  /\ slot[s].pc = "free" /\ job[id].status = "waiting"
  /\ slot' = [slot EXCEPT ![s] = [FreeSlot EXCEPT !.pc = "running", !.job = id]]
  /\ job' = [job EXCEPT ![id].status = "active", ![id].lock = s,
                        ![id].started = @ + 1]
  /\ UNCHANGED <<call, sent>>

HandlerSettles(s, ok) ==
  /\ slot[s].pc = "running"
  /\ slot' = [slot EXCEPT ![s].pc = "settled", ![s].ok = ok]
  /\ UNCHANGED <<call, job>>

(* email.send of the handler: a failure may come after the mail server has *)
(* accepted the message.                                                   *)
Deliver(s) ==
  /\ slot[s].pc = "running" /\ job[slot[s].job].known
  /\ \/ HandlerSettles(s, TRUE) /\ sent' = sent \cup {slot[s].job}
     \/ HandlerSettles(s, FALSE) /\ sent' = sent \cup {slot[s].job}
     \/ HandlerSettles(s, FALSE) /\ sent' = sent

(* process() throws for a type without a handler.                          *)
SkipsUnknown(s) == \* fault: it returns
  /\ slot[s].pc = "running" /\ ~job[slot[s].job].known
  /\ HandlerSettles(s, TRUE) /\ sent' = sent
HangsOnUnknown(s) == FALSE \* fault: its promise does not settle
RejectUnknown(s) ==
  /\ slot[s].pc = "running" /\ ~job[slot[s].job].known
  /\ HandlerSettles(s, FALSE) /\ sent' = sent

(* The processor of the BullMQ worker awaits process().                    *)
Processed(s) == slot[s].pc = "settled"

OneTooMany(old) == \* fault: > for >=
  [old EXCEPT !.lock = None, !.attempts = @ + 1,
     !.status = IF old.attempts + 1 > Attempts THEN "failed" ELSE "waiting"]
Failed(old) ==
  [old EXCEPT !.lock = None, !.attempts = @ + 1,
     !.status = IF old.attempts + 1 >= Attempts THEN "failed" ELSE "waiting"]

(* The outcome is written under the lock; a slot that lost its lock writes *)
(* nothing.                                                                *)
Report(s) ==
  /\ Processed(s)
  /\ slot' = [slot EXCEPT ![s] = FreeSlot]
  /\ LET id == slot[s].job IN
       job' = IF job[id].lock # s THEN job
              ELSE [job EXCEPT ![id] =
                IF slot[s].ok THEN [@ EXCEPT !.status = "done", !.lock = None]
                ELSE Failed(@)]
  /\ UNCHANGED <<call, sent>>

-----------------------------------------------------------------------------
(* Locks.                                                                  *)

(* A lock that is not renewed expires: its holder has died, or its event   *)
(* loop or its connection was blocked for too long.                        *)
LockExpires(id) ==
  /\ job[id].status = "active" /\ job[id].lock # None
  /\ job' = [job EXCEPT ![id].lock = None]
  /\ UNCHANGED <<call, slot, sent>>

Abandoned(id) == \A s \in Slots : job[id].lock = s => slot[s].job # id

(* The worker's periodic check.                                            *)
TakenBack(old) ==
  IF old.stalls < MaxStalls
    THEN [old EXCEPT !.status = "waiting", !.stalls = @ + 1]
    ELSE [old EXCEPT !.status = "failed"]
Stalled(id) ==
  /\ job[id].status = "active" /\ job[id].lock = None
  /\ job' = [job EXCEPT ![id] = TakenBack(@)]
  /\ UNCHANGED <<call, slot, sent>>

(* The worker process ends.                                                *)
AllSlotsFree == slot' = [s \in Slots |-> FreeSlot]

-----------------------------------------------------------------------------
CallType == [pc : {"idle", "adding", "added", "answered"},
             key : Keys \cup {None}, known : BOOLEAN, id : JobIds \cup {None}]
JobType == [status : {"absent", "waiting", "active", "done", "failed"},
            key : Keys \cup {None}, known : BOOLEAN, started : Nat,
            attempts : Nat, stalls : Nat, lock : Slots \cup {None}]
SlotType == [pc : {"free", "running", "settled"}, job : JobIds \cup {None},
             ok : BOOLEAN]

(* Every variable holds a value of its type.                               *)
QueueTypeOK ==
  /\ call \in [Calls -> CallType]
  /\ job \in [JobIds -> JobType]
  /\ slot \in [Slots -> SlotType]
  /\ sent \subseteq JobIds

(* At least once: a job counts as done only when an e-mail has gone out    *)
(* for it, whatever crashed, stalled or was delivered twice.               *)
DoneMeansSent == \A id \in JobIds : job[id].status = "done" => id \in sent

(* A job is run Attempts + MaxStalls times at most, and so is everything   *)
(* that was enqueued under one idempotency key, by however many calls and  *)
(* however often the connection resent them (ADAPTERS_AND_DEPLOYMENT.md,   *)
(* Switch queue providers: idempotency keys, bounded retry).               *)
RunsBounded ==
  \A id \in JobIds :
    /\ job[id].started <= Attempts + MaxStalls
    /\ job[id].key # None =>
         \A other \in JobIds : job[other].key = job[id].key => other = id

(* What a run of a job is counted as when it ends.                         *)
Ran(j) ==
  IF \/ j.status \in {"active", "done"}
     \/ j.status = "failed" /\ j.attempts < Attempts
    THEN 1 ELSE 0
JobShape(id, j) ==
  /\ j.status = "absent" => j = NoJob
  /\ j.status # "absent" => j.key = (IF id \in Keys THEN id ELSE None)
  /\ j.status # "active" => j.lock = None
  /\ j.started = j.attempts + j.stalls + Ran(j)
  /\ j.stalls <= MaxStalls
  /\ j.attempts <= IF j.status = "failed" THEN Attempts ELSE Attempts - 1
SlotShape(s) ==
  /\ slot[s].pc = "free" <=> slot[s].job = None
  /\ slot[s].job # None =>
       job[slot[s].job].status # "absent" /\ job[slot[s].job].started > 0
  /\ slot[s].pc = "settled" /\ slot[s].ok => slot[s].job \in sent
  /\ slot[s].pc = "running" => slot[s].ok
CallShape(p) ==
  call[p].pc \in {"added", "answered"} =>
    /\ call[p].id \in JobIds
    /\ job[call[p].id].status # "absent"
    /\ job[call[p].id].key = call[p].key

(* The inductive strengthening; an answered call's job is in the queue.    *)
QueueInv ==
  /\ QueueTypeOK
  /\ DoneMeansSent
  /\ \A id \in JobIds : JobShape(id, job[id])
  /\ \A s \in Slots : SlotShape(s)
  /\ \A p \in Calls : CallShape(p)

-----------------------------------------------------------------------------
(* The queue as an implementation of the abstract promise.                 *)

JobState == [id \in JobIds |->
  IF job[id].status \in {"waiting", "active"} THEN "pending" ELSE job[id].status]
JobRuns == [id \in JobIds |-> job[id].started]
Answered == {call[p].id : p \in {q \in Calls : call[q].pc = "answered"}}

Promise == INSTANCE AtLeastOnceQueue WITH
  Jobs <- JobIds, MaxRuns <- Attempts + MaxStalls,
  MinRuns <- IF Attempts <= MaxStalls THEN Attempts ELSE MaxStalls + 1,
  state <- JobState, runs <- JobRuns, delivered <- sent, promised <- Answered

(* Whatever is resent, crashes, stalls or is delivered twice, the queue    *)
(* and its worker do what an at-least-once queue may do, and nothing else: *)
(* a job that enqueue answered for is neither lost nor done without its    *)
(* e-mail, nor given up early, nor run again when it has ended             *)
(* (ADAPTERS_AND_DEPLOYMENT.md, Switch queue providers).                   *)
ImplementsQueue == Promise!Spec

=============================================================================
