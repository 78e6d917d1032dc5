----------------------- MODULE BackgroundWorkerProofs -----------------------
(***************************************************************************)
(* Proofs about BackgroundWorker: the inductive invariant of the queue and *)
(* of the process that serves it, and what follows from it.                *)
(***************************************************************************)
EXTENDS BackgroundWorker, CompositionRootProofs

(* The queue starts in its invariant.                                      *)
LEMMA QueueInitInv == QueueInit => QueueInv
<1>. SUFFICES ASSUME QueueInit PROVE QueueInv
  OBVIOUS
<1>1. NoCall \in CallType /\ FreeSlot \in SlotType
  BY DEF NoCall, CallType, FreeSlot, SlotType
<1>2. NoJob \in JobType /\ NoJob.status = "absent" /\ \A id \in JobIds : JobShape(id, NoJob)
  <2>1. NoJob = [status |-> "absent", key |-> None, known |-> FALSE, started |-> 0,
                 attempts |-> 0, stalls |-> 0, lock |-> None]
    <3>1. NoJob = [NewJob(None, FALSE) EXCEPT !["status"] = "absent"]
      BY DEF NoJob
    <3>. QED  BY <3>1 DEF NewJob
  <2>. QED  BY <2>1, QueueAssumption DEF JobType, JobShape, Ran
<1>3. QueueTypeOK
  BY <1>1, <1>2 DEF QueueInit, QueueTypeOK
<1>4. DoneMeansSent /\ \A id \in JobIds : JobShape(id, job[id])
  BY <1>2 DEF QueueInit, DoneMeansSent
<1>5. \A s \in Slots : SlotShape(s)
  BY DEF QueueInit, SlotShape, FreeSlot
<1>6. \A p \in Calls : CallShape(p)
  BY DEF QueueInit, CallShape, NoCall
<1>. QED  BY <1>3, <1>4, <1>5, <1>6 DEF QueueInv

(* A job that changes within its shape, keeps its key and is done only if  *)
(* its e-mail is sent, while the slots change in step, keeps the invariant.*)
LEMMA JobChanges ==
  ASSUME QueueInv, NEW id \in JobIds, job[id].status # "absent",
         NEW j \in JobType, job' = [job EXCEPT ![id] = j],
         JobShape(id, j), j.status # "absent", j.key = job[id].key,
         j.status = "done" => id \in sent,
         UNCHANGED <<call, sent>>,
         slot' \in [Slots -> SlotType], \A s \in Slots : SlotShape(s)'
  PROVE  QueueInv'
<1>1. QueueTypeOK' BY DEF QueueInv, QueueTypeOK
<1>2. DoneMeansSent' BY DEF QueueInv, QueueTypeOK, DoneMeansSent
<1>3. \A i \in JobIds : JobShape(i, job[i])' BY DEF QueueInv, QueueTypeOK, JobShape, Ran
<1>4. \A p \in Calls : CallShape(p)' BY DEF QueueInv, QueueTypeOK, CallShape
<1>. QED BY <1>1, <1>2, <1>3, <1>4 DEF QueueInv

(* Producers.                                                              *)
LEMMA ProduceInv ==
  ASSUME QueueInv, NEW p \in Calls,
         \/ \E key \in Keys \cup {None}, known \in BOOLEAN : Enqueue(p, key, known)
         \/ Add(p) \/ Answer(p) \/ Resend(p)
  PROVE  QueueInv'
<1>1. ASSUME NEW key \in Keys \cup {None}, NEW known \in BOOLEAN, Enqueue(p, key, known)
      PROVE  QueueInv'
  BY <1>1
  DEF Enqueue, QueueInv, QueueTypeOK, CallType, JobShape, SlotShape, CallShape, DoneMeansSent
<1>2. CASE Add(p)
  <2>1. PICK id \in IdsFor(call[p].key) :
          /\ job' = IF job[id].status = "absent"
                      THEN [job EXCEPT ![id] = NewJob(call[p].key, call[p].known)]
                      ELSE job
          /\ call' = [call EXCEPT ![p].pc = "added", ![p].id = id]
    BY <1>2 DEF Add
  <2>2. UNCHANGED <<slot, sent>> BY <1>2 DEF Add
  <2>3. call[p] \in CallType BY DEF QueueInv, QueueTypeOK
  <2>4. id \in JobIds /\ call[p].key = (IF id \in Keys THEN id ELSE None)
    BY <2>1, <2>3, QueueAssumption DEF IdsFor, JobIds, CallType
  <2>. DEFINE new == NewJob(call[p].key, call[p].known)
  <2>5. new \in JobType /\ new.status = "waiting" /\ new.key = call[p].key /\ JobShape(id, new)
    BY <2>3, <2>4, QueueAssumption DEF NewJob, JobType, CallType, JobShape, Ran
  <2>6. /\ job' \in [JobIds -> JobType]
        /\ \A i \in JobIds : i # id => job'[i] = job[i]
        /\ job'[id] = IF job[id].status = "absent" THEN new ELSE job[id]
    BY <2>1, <2>4, <2>5 DEF QueueInv, QueueTypeOK
  <2>. HIDE DEF new
  <2>7. QueueTypeOK'
    BY <2>1, <2>2, <2>3, <2>4, <2>6 DEF QueueInv, QueueTypeOK, CallType
  <2>8. DoneMeansSent'
    BY <2>2, <2>5, <2>6 DEF QueueInv, DoneMeansSent
  <2>9. \A i \in JobIds : JobShape(i, job'[i])
    BY <2>5, <2>6 DEF QueueInv
  <2>10. \A i \in JobIds : job[i].status # "absent" => job'[i] = job[i]
    BY <2>6
  <2>11. \A s \in Slots : SlotShape(s)'
    BY <2>2, <2>10 DEF QueueInv, QueueTypeOK, SlotType, SlotShape
  <2>12. job'[id].status # "absent" /\ job'[id].key = call[p].key
    BY <2>4, <2>5, <2>6 DEF QueueInv, JobShape
  <2>13. \A q \in Calls : CallShape(q)'
    BY <2>1, <2>3, <2>4, <2>10, <2>12 DEF QueueInv, QueueTypeOK, CallType, CallShape
  <2>. QED BY <2>7, <2>8, <2>9, <2>11, <2>13 DEF QueueInv
<1>3. CASE Answer(p) \/ Resend(p)
  <2>1. UNCHANGED <<job, slot, sent>> /\ call[p].pc = "added" /\ call[p] \in CallType
    BY <1>3 DEF Answer, Resend, CallTurns, QueueInv, QueueTypeOK
  <2>2. \/ call' = [call EXCEPT ![p].pc = "answered"]
        \/ call' = [call EXCEPT ![p].pc = "adding"]
    BY <1>3 DEF Answer, Resend, CallTurns
  <2>3. QueueTypeOK'
    BY <2>1, <2>2 DEF QueueInv, QueueTypeOK, CallType
  <2>4. \A q \in Calls : CallShape(q)'
    BY <2>1, <2>2 DEF QueueInv, QueueTypeOK, CallType, CallShape
  <2>5. DoneMeansSent' /\ (\A i \in JobIds : JobShape(i, job'[i]))
        /\ (\A s \in Slots : SlotShape(s)')
    BY <2>1 DEF QueueInv, DoneMeansSent, SlotShape
  <2>. QED  BY <2>3, <2>4, <2>5, <2>1 DEF QueueInv
<1>. QED BY <1>1, <1>2, <1>3


(* The worker takes a job.                                                 *)
LEMMA TakeInv ==
  ASSUME QueueInv, NEW s \in Slots, NEW id \in JobIds, Take(s, id)
  PROVE  QueueInv'
<1>. DEFINE j == [job[id] EXCEPT !.status = "active", !.lock = s, !.started = @ + 1]
<1>1. job[id] \in JobType /\ JobShape(id, job[id]) /\ job[id].status = "waiting"
  BY DEF QueueInv, QueueTypeOK, Take
<1>2. /\ j \in JobType /\ JobShape(id, j) /\ j.status = "active"
      /\ j.key = job[id].key /\ j.started = job[id].started + 1
  <2>1. /\ j \in JobType /\ j.status = "active" /\ j.key = job[id].key
        /\ j.started = job[id].started + 1
        /\ j.attempts = job[id].attempts /\ j.stalls = job[id].stalls
    <3>1. job[id].started + 1 \in Nat
      BY <1>1 DEF JobType
    <3>. QED  BY <1>1, <3>1 DEF JobType
  <2>. HIDE DEF j
  <2>. QED  BY <1>1, <2>1, QueueAssumption DEF JobShape, JobType, Ran
<1>3. job' = [job EXCEPT ![id] = j]
  BY <1>1 DEF Take, QueueInv, QueueTypeOK
<1>4. slot' \in [Slots -> SlotType] /\ UNCHANGED <<call, sent>>
  BY DEF Take, QueueInv, QueueTypeOK, SlotType, FreeSlot
<1>. HIDE DEF j
<1>5. \A i \in JobIds : /\ job'[i].status = "absent" <=> job[i].status = "absent"
                        /\ job'[i].started >= job[i].started
  BY <1>1, <1>2, <1>3 DEF QueueInv, QueueTypeOK, JobType
<1>6. \A u \in Slots : SlotShape(u)'
  <2>1. job'[id].started > 0 /\ job'[id].status # "absent"
    BY <1>1, <1>2, <1>3 DEF QueueInv, QueueTypeOK, JobType
  <2>2. \A i \in JobIds : job[i].started > 0 => job'[i].started > 0
    BY <1>2, <1>3, <1>5 DEF QueueInv, QueueTypeOK, JobType
  <2>3. slot'[s] = [FreeSlot EXCEPT !.pc = "running", !.job = id]
    BY DEF Take, QueueInv, QueueTypeOK
  <2>4. SlotShape(s)'
    BY <2>1, <2>3, QueueAssumption DEF SlotShape, FreeSlot
  <2>5. ASSUME NEW u \in Slots \ {s} PROVE SlotShape(u)'
    <3>1. slot'[u] = slot[u] /\ slot[u] \in SlotType /\ SlotShape(u)
      BY DEF Take, QueueInv, QueueTypeOK
    <3>. QED  BY <1>4, <1>5, <2>2, <3>1 DEF SlotShape, SlotType
  <2>. QED  BY <2>4, <2>5
<1>. QED  BY <1>1, <1>2, <1>3, <1>4, <1>6, JobChanges

(* A handler settles.                                                      *)
LEMMA HandlerInv ==
  ASSUME QueueInv, NEW s \in Slots, Deliver(s) \/ RejectUnknown(s)
  PROVE  QueueInv'
<1>1. PICK ok \in BOOLEAN :
        /\ HandlerSettles(s, ok)
        /\ sent' \in {sent, sent \cup {slot[s].job}}
        /\ ok => slot[s].job \in sent'
  BY DEF Deliver, RejectUnknown
<1>2. /\ slot[s] \in SlotType /\ slot[s].pc = "running" /\ SlotShape(s)
      /\ slot' = [slot EXCEPT ![s].pc = "settled", ![s].ok = ok]
      /\ UNCHANGED <<call, job>>
  BY <1>1 DEF HandlerSettles, QueueInv, QueueTypeOK
<1>3. slot[s].job \in JobIds
  BY <1>2 DEF SlotType, SlotShape
<1>4. QueueTypeOK'
  BY <1>1, <1>2, <1>3 DEF QueueInv, QueueTypeOK, SlotType
<1>5. DoneMeansSent'
  BY <1>1, <1>2 DEF QueueInv, DoneMeansSent
<1>6. \A u \in Slots : SlotShape(u)'
  BY <1>1, <1>2, <1>3 DEF QueueInv, QueueTypeOK, SlotType, SlotShape
<1>7. \A p \in Calls : CallShape(p)'
  BY <1>2 DEF QueueInv, CallShape
<1>. QED  BY <1>2, <1>4, <1>5, <1>6, <1>7 DEF QueueInv

(* Its outcome is written, or dropped.                                     *)
LEMMA ReportInv ==
  ASSUME QueueInv, NEW s \in Slots, Report(s)
  PROVE  QueueInv'
<1>. DEFINE id == slot[s].job
<1>1. slot[s] \in SlotType /\ SlotShape(s) /\ slot[s].pc = "settled"
  BY DEF QueueInv, QueueTypeOK, Report, Processed
<1>2. id \in JobIds
  BY <1>1 DEF SlotType, SlotShape
<1>3. job[id] \in JobType /\ JobShape(id, job[id]) /\ job[id].status # "absent"
  BY <1>1, <1>2 DEF QueueInv, QueueTypeOK, SlotShape
<1>4. slot' = [slot EXCEPT ![s] = FreeSlot] /\ UNCHANGED <<call, sent>>
  BY DEF Report
<1>5. slot' \in [Slots -> SlotType]
  BY <1>4 DEF QueueInv, QueueTypeOK, SlotType, FreeSlot
<1>6. ASSUME NEW j \in JobType, JobShape(id, j), j.status # "absent",
             j.key = job[id].key, j.started = job[id].started,
             j.status = "done" => id \in sent,
             job' = [job EXCEPT ![id] = j]
      PROVE  QueueInv'
  <2>1. \A i \in JobIds : /\ job'[i].status = "absent" <=> job[i].status = "absent"
                          /\ job'[i].started = job[i].started
    BY <1>2, <1>3, <1>6 DEF QueueInv, QueueTypeOK
  <2>2. \A u \in Slots : SlotShape(u)'
    BY <1>4, <2>1 DEF QueueInv, QueueTypeOK, SlotType, SlotShape, FreeSlot
  <2>. QED  BY <1>2, <1>3, <1>4, <1>5, <1>6, <2>2, JobChanges
<1>7. CASE job[id].lock # s
  <2>1. job' = [job EXCEPT ![id] = job[id]]
    BY <1>7, <1>2 DEF Report, QueueInv, QueueTypeOK
  <2>2. job[id].status = "done" => id \in sent
    BY <1>2 DEF QueueInv, DoneMeansSent
  <2>. QED  BY <1>3, <1>6, <2>1, <2>2
<1>8. CASE job[id].lock = s
  <2>1. job[id].status = "active"
    BY <1>3, <1>8, QueueAssumption DEF JobShape
  <2>2. CASE slot[s].ok
    <3>. DEFINE j == [job[id] EXCEPT !.status = "done", !.lock = None]
    <3>1. job' = [job EXCEPT ![id] = j]
      BY <1>8, <2>2 DEF Report
    <3>2. /\ j \in JobType /\ JobShape(id, j) /\ j.status = "done" /\ j.key = job[id].key
          /\ j.started = job[id].started
      BY <1>3, <2>1, QueueAssumption DEF JobType, JobShape, Ran
    <3>3. id \in sent
      BY <1>1, <2>2 DEF SlotShape
    <3>. HIDE DEF j
    <3>. QED  BY <1>6, <3>1, <3>2, <3>3
  <2>3. CASE ~slot[s].ok
    <3>. DEFINE j == Failed(job[id])
    <3>1. job' = [job EXCEPT ![id] = j]
      BY <1>8, <2>3 DEF Report
    <3>2. /\ j \in JobType /\ j.key = job[id].key /\ j.lock = None
          /\ j.started = job[id].started /\ j.stalls = job[id].stalls
          /\ j.attempts = job[id].attempts + 1
          /\ j.status = IF j.attempts >= Attempts THEN "failed" ELSE "waiting"
      <4>1. job[id].attempts + 1 \in Nat
        BY <1>3 DEF JobType
      <4>. QED  BY <1>3, <4>1 DEF Failed, JobType
    <3>. HIDE DEF j
    <3>3. JobShape(id, j)
      BY <1>3, <2>1, <3>2, QueueAssumption DEF JobShape, JobType, Ran
    <3>. QED  BY <1>6, <3>1, <3>2, <3>3
  <2>. QED  BY <2>2, <2>3
<1>. QED  BY <1>7, <1>8

(* A lock expires, or the job it protected is given out again.             *)
LEMMA LockInv ==
  ASSUME QueueInv, NEW id \in JobIds, LockExpires(id) \/ Stalled(id)
  PROVE  QueueInv'
<1>1. job[id] \in JobType /\ JobShape(id, job[id]) /\ job[id].status = "active"
  BY DEF QueueInv, QueueTypeOK, LockExpires, Stalled
<1>2. UNCHANGED <<call, slot, sent>>
  BY DEF LockExpires, Stalled
<1>3. ASSUME NEW j \in JobType, JobShape(id, j), j.status \notin {"absent", "done"},
             j.key = job[id].key, j.started = job[id].started, job' = [job EXCEPT ![id] = j]
      PROVE  QueueInv'
  <2>1. \A i \in JobIds : /\ job'[i].status = "absent" <=> job[i].status = "absent"
                          /\ job'[i].started = job[i].started
    BY <1>1, <1>3 DEF QueueInv, QueueTypeOK
  <2>2. slot' \in [Slots -> SlotType] /\ \A u \in Slots : SlotShape(u)'
    BY <1>2, <2>1 DEF QueueInv, QueueTypeOK, SlotType, SlotShape
  <2>. QED  BY <1>1, <1>2, <1>3, <2>2, JobChanges
<1>4. CASE LockExpires(id)
  <2>. DEFINE j == [job[id] EXCEPT !.lock = None]
  <2>1. job' = [job EXCEPT ![id] = j]
    BY <1>4, <1>1 DEF LockExpires, QueueInv, QueueTypeOK
  <2>2. /\ j \in JobType /\ JobShape(id, j) /\ j.status = "active"
        /\ j.key = job[id].key /\ j.started = job[id].started
    BY <1>1 DEF JobType, JobShape, Ran
  <2>. HIDE DEF j
  <2>. QED  BY <1>3, <2>1, <2>2
<1>5. CASE Stalled(id)
  <2>. DEFINE j == TakenBack(job[id])
  <2>1. job' = [job EXCEPT ![id] = j] /\ job[id].lock = None
    BY <1>5 DEF Stalled
  <2>2. /\ j \in JobType /\ j.key = job[id].key /\ j.lock = None
        /\ j.started = job[id].started /\ j.attempts = job[id].attempts
        /\ \/ j.status = "waiting" /\ j.stalls = job[id].stalls + 1 /\ j.stalls <= MaxStalls
           \/ j.status = "failed" /\ j.stalls = job[id].stalls
    <3>1. job[id].stalls + 1 \in Nat
      BY <1>1 DEF JobType
    <3>2. job[id].stalls < MaxStalls => job[id].stalls + 1 <= MaxStalls
      BY <1>1, QueueAssumption DEF JobType
    <3>. QED  BY <1>1, <2>1, <3>1, <3>2 DEF TakenBack, JobType
  <2>. HIDE DEF j
  <2>3. JobShape(id, j)
    BY <1>1, <2>2, QueueAssumption DEF JobShape, JobType, Ran
  <2>. QED  BY <1>3, <2>1, <2>2, <2>3
<1>. QED  BY <1>4, <1>5


(* The process around the queue: what WorkerInv adds to QueueInv.          *)
LEMMA WorkerInitInv == WorkerInit => WorkerInv
<1>. SUFFICES ASSUME WorkerInit PROVE WorkerInv
  OBVIOUS
<1>1. QueueInv
  BY QueueInitInv DEF WorkerInit
<1>2. WorkerTypeOK
  <2>1. lives \in 0..Lives
    BY RunnerAssumption DEF WorkerInit
  <2>2. task \in [Tasks -> TaskStates]
    BY DEF WorkerInit, TaskStates
  <2>. QED  BY <1>1, <2>1, <2>2 DEF QueueInv, WorkerInit, WorkerTypeOK, Events
<1>3. \A s \in Slots : slot[s].pc = "free"
  BY DEF WorkerInit, QueueInit, FreeSlot
<1>. QED  BY <1>1, <1>2, <1>3 DEF WorkerInv, WorkerInit, JobsKeepResources, Alive

(* The end of the process keeps the queue's invariant and frees the slots. *)
LEMMA ProcessEndsInv ==
  ASSUME WorkerInv, ProcessEnds
  PROVE  WorkerInv'
<1>1. slot' = [s \in Slots |-> FreeSlot] /\ UNCHANGED <<call, job, sent>>
  BY DEF ProcessEnds, AllSlotsFree
<1>2. QueueTypeOK'
  BY <1>1 DEF WorkerInv, QueueInv, QueueTypeOK, FreeSlot, SlotType
<1>3. QueueInv'
  BY <1>1, <1>2 DEF WorkerInv, QueueInv, DoneMeansSent, SlotShape, CallShape, FreeSlot
<1>4. \A s \in Slots : slot'[s].pc = "free"
  BY <1>1 DEF FreeSlot
<1>5. WorkerTypeOK'
  BY <1>2 DEF WorkerInv, WorkerTypeOK, ProcessEnds, TaskStates
<1>. QED  BY <1>3, <1>4, <1>5 DEF WorkerInv, ProcessEnds, JobsKeepResources, Alive

(* Producers, slots and locks.                                             *)
LEMMA QueueStepInv ==
  ASSUME WorkerInv,
         \/ \E p \in Calls : Produce(p)
         \/ \E s \in Slots : Work(s)
         \/ \E id \in JobIds : Check(id) \/ Expire(id)
  PROVE  WorkerInv'
<1>1. UNCHANGED <<registry, processVars>>
  BY DEF Produce, Work, Check, Expire
<1>2. QueueInv'
  BY ProduceInv, TakeInv, HandlerInv, ReportInv, LockInv
  DEF WorkerInv, Produce, Work, Check, Expire
<1>3. WorkerTypeOK'
  BY <1>1, <1>2 DEF WorkerInv, WorkerTypeOK, QueueInv, registry, processVars
<1>4. \/ \E s \in Slots, id \in JobIds : Serving /\ Take(s, id)
      \/ \A s \in Slots : slot'[s].pc # "free" => slot[s].pc # "free"
  <2>1. ASSUME NEW s \in Slots, Work(s), \A id \in JobIds : ~(Serving /\ Take(s, id))
        PROVE  \A u \in Slots : slot'[u].pc # "free" => slot[u].pc # "free"
    <3>1. slot \in [Slots -> SlotType]
      BY DEF WorkerInv, QueueInv, QueueTypeOK
    <3>2. CASE Deliver(s) \/ RejectUnknown(s)
      BY <3>1, <3>2 DEF Deliver, RejectUnknown, HandlerSettles, SlotType
    <3>3. CASE Report(s)
      BY <3>1, <3>3 DEF Report, FreeSlot, SlotType
    <3>. QED  BY <2>1, <3>2, <3>3 DEF Work
  <2>2. ASSUME ~(\E s \in Slots : Work(s)) PROVE slot' = slot
    BY <2>2
    DEF Produce, Enqueue, Add, Answer, Resend, CallTurns, Check, Stalled, Expire, LockExpires
  <2>. QED  BY <2>1, <2>2
<1>5. CASE \E s \in Slots, id \in JobIds : Serving /\ Take(s, id)
  <2>1. phase = "up" /\ Alive /\ \A t \in Tasks : task[t] = "open"
    BY <1>5 DEF Serving, WorkerInv
  <2>. QED
    BY <1>1, <1>2, <1>3, <2>1, RunnerAssumption
    DEF WorkerInv, JobsKeepResources, registry, processVars, Alive, Failures, Settled
<1>6. CASE \A s \in Slots : slot'[s].pc # "free" => slot[s].pc # "free"
  BY <1>1, <1>2, <1>3, <1>6
  DEF WorkerInv, JobsKeepResources, registry, processVars, Alive, Failures, Settled
<1>. QED  BY <1>4, <1>5, <1>6

(* The lifecycle: no resource of a job closes before the job has ended.    *)
LEMMA LifecycleInv ==
  ASSUME WorkerInv, Lifecycle
  PROVE  WorkerInv'
<1>1. CASE Die \/ BootFails \/ Exit
  BY <1>1, ProcessEndsInv DEF Die, BootFails, Exit
<1>. SUFFICES ASSUME ~(Die \/ BootFails \/ Exit)
              PROVE  WorkerInv'
  BY <1>1
<1>2. UNCHANGED queueVars
  BY DEF Lifecycle, Start, Boot, WaitUntilReady, Event, CloseTask, TaskSettles, Finish,
         RedisTurns
<1>3. QueueInv'
  BY <1>2
  DEF WorkerInv, queueVars, QueueInv, QueueTypeOK, DoneMeansSent, SlotShape, CallShape
<1>4. slot' = slot
  BY <1>2 DEF queueVars
<1>. USE <1>3, <1>4 DEF WorkerInv
<1>5. CASE Start
  <2>1. lives' \in 0..Lives
    BY <1>5, RunnerAssumption DEF Start, WorkerTypeOK
  <2>2. WorkerTypeOK'
    BY <1>5, <2>1 DEF Start, WorkerTypeOK, QueueInv, registry
  <2>. QED
    BY <1>5, <2>2 DEF Start, JobsKeepResources, Alive, registry, Failures, Settled
<1>6. CASE Boot
  BY <1>6 DEF Boot, WorkerTypeOK, QueueInv, JobsKeepResources, Alive, TaskStates, Events
<1>7. CASE WaitUntilReady
  BY <1>7
  DEF WaitUntilReady, WorkerTypeOK, QueueInv, JobsKeepResources, Alive, registry, Failures, Settled
<1>8. ASSUME NEW event \in Events, Event(event) PROVE WorkerInv'
  BY <1>8
  DEF Event, CloseAll, WorkerTypeOK, QueueInv, JobsKeepResources, Alive, registry, Failures, Settled
<1>9. ASSUME NEW t \in Tasks, CloseTask(t) PROVE WorkerInv'
  <2>1. /\ task' = [task EXCEPT ![t] = "closing"] /\ task[t] = "open" /\ shuttingDown
        /\ UNCHANGED <<shuttingDown, processVars>> /\ phase = "closing"
    BY <1>9 DEF CloseTask, CloseNext, WorkerTypeOK, Settled, Outcomes
  <2>2. t # Runner => task[Runner] \notin {"open", "closing"}
    <3>. SUFFICES ASSUME t # Runner, task[Runner] \in {"open", "closing"} PROVE FALSE
      OBVIOUS
    <3>1. ~Before(Runner, t)
      BY <1>9, RunnerAssumption DEF CloseTask, CloseNext
    <3>. QED  BY <3>1, RunnerAssumption DEF Before
  <2>3. WorkerTypeOK'
    BY <2>1 DEF WorkerTypeOK, QueueInv, TaskStates, processVars
  <2>4. \A s \in Slots : slot[s].pc # "free" => t = Runner
    BY <2>2
  <2>. QED
    BY <2>1, <2>3, <2>4, RunnerAssumption
    DEF WorkerTypeOK, JobsKeepResources, Alive, processVars, Failures, Settled
<1>10. ASSUME NEW t \in Tasks, TaskSettles(t) PROVE WorkerInv'
  <2>1. PICK outcome \in Outcomes : Settle(t, outcome)
    BY <1>10 DEF TaskSettles
  <2>2. /\ task' = [task EXCEPT ![t] = outcome] /\ task[t] = "closing"
        /\ UNCHANGED <<shuttingDown, processVars>>
        /\ t = Runner => \A s \in Slots : slot[s].pc = "free"
    BY <1>10, <2>1 DEF TaskSettles, Settle
  <2>3. phase = "closing"
    BY <2>2 DEF WorkerTypeOK, Settled, Outcomes, TaskStates
  <2>4. WorkerTypeOK'
    BY <2>2 DEF WorkerTypeOK, QueueInv, TaskStates, Outcomes, processVars
  <2>5. \A s \in Slots : slot[s].pc # "free" => t = Runner
    BY <2>2 DEF JobsKeepResources
  <2>. QED
    BY <2>2, <2>3, <2>4, <2>5, RunnerAssumption
    DEF WorkerTypeOK, JobsKeepResources, Alive, processVars, Failures, Settled, Outcomes
<1>11. CASE Finish
  <2>1. /\ UNCHANGED <<task, shuttingDown, process, listeners, ready, fatalError, lives,
                       reachable>>
        /\ phase = "closing" /\ phase' = "over"
        /\ exitCode' \in {1, exitCode}
        /\ exitCode' = 0 => Failures = {} /\ ~fatalError
    BY <1>11 DEF Finish, registry
  <2>2. \A t \in Tasks : Settled(t)
    BY <1>11, <2>1 DEF Finish, LoopEnds, WorkerTypeOK, TaskStates, Settled
  <2>3. WorkerTypeOK'
    BY <2>1 DEF WorkerTypeOK, QueueInv
  <2>4. \A s \in Slots : slot[s].pc = "free"
    BY <2>2, RunnerAssumption DEF Settled, Outcomes
  <2>. QED
    BY <2>1, <2>2, <2>3, <2>4 DEF JobsKeepResources, Alive, Failures, Settled
<1>12. CASE RedisTurns
  BY <1>12
  DEF RedisTurns, WorkerTypeOK, QueueInv, JobsKeepResources, Alive, registry, Failures, Settled
<1>. QED  BY <1>5, <1>6, <1>7, <1>8, <1>9, <1>10, <1>11, <1>12 DEF Lifecycle

(* The inductive invariant holds for every number of calls, keys, slots,   *)
(* attempts, signals and restarts.                                         *)
THEOREM WorkerInvariance == WorkerSpec => []WorkerInv
<1>1. WorkerInv /\ [WorkerNext]_workerVars => WorkerInv'
  <2>. SUFFICES ASSUME WorkerInv, [WorkerNext]_workerVars PROVE WorkerInv'
    OBVIOUS
  <2>1. CASE WorkerNext
    BY <2>1, QueueStepInv, LifecycleInv DEF WorkerNext
  <2>2. CASE UNCHANGED workerVars
    BY <2>2
    DEF workerVars, queueVars, registry, processVars, WorkerInv, WorkerTypeOK, QueueInv,
        QueueTypeOK, DoneMeansSent, SlotShape, CallShape, JobsKeepResources, Alive,
        Failures, Settled
  <2>. QED  BY <2>1, <2>2
<1>. QED  BY <1>1, WorkerInitInv, PTL DEF WorkerSpec

(* A running job has Redis, the mail transport and telemetry.              *)
THEOREM ResourcesOutliveJobs == WorkerSpec => []JobsKeepResources
  BY WorkerInvariance, PTL DEF WorkerInv

(* At-least-once delivery: done means that an e-mail was accepted.         *)
THEOREM DeliveredAtLeastOnce == WorkerSpec => []DoneMeansSent
  BY WorkerInvariance, PTL DEF WorkerInv, QueueInv

(* Retries and redeliveries are bounded, for a job and for a key.          *)
THEOREM DeliveriesBounded == WorkerSpec => []RunsBounded
<1>1. WorkerInv => RunsBounded
  <2>. SUFFICES ASSUME QueueInv, NEW id \in JobIds
                PROVE  /\ job[id].started <= Attempts + MaxStalls
                       /\ job[id].key # None =>
                            \A other \in JobIds : job[other].key = job[id].key => other = id
    BY DEF WorkerInv, RunsBounded
  <2>1. \A i \in JobIds : job[i] \in JobType /\ JobShape(i, job[i])
    BY DEF QueueInv, QueueTypeOK
  <2>2. job[id].started <= Attempts + MaxStalls
    BY <2>1, QueueAssumption DEF JobShape, JobType, Ran
  <2>3. \A i \in JobIds : job[i].key \in {i, None}
    BY <2>1 DEF JobShape, NoJob, NewJob
  <2>. QED  BY <2>2, <2>3
<1>. QED  BY <1>1, WorkerInvariance, PTL

(* A finished job is never run again.                                      *)
THEOREM FinishedJobsStay == WorkerSpec => FinalIsFinal
<1>. DEFINE Stays(id) == job'[id].status = job[id].status /\ job'[id].started = job[id].started
<1>1. WorkerInv /\ [WorkerNext]_workerVars =>
        [\A id \in JobIds : Final(id) => Stays(id)]_workerVars
  <2>. SUFFICES ASSUME WorkerInv, [WorkerNext]_workerVars, NEW id \in JobIds, Final(id)
                PROVE  Stays(id)
    OBVIOUS
  <2>1. job \in [JobIds -> JobType] /\ job[id].lock = None
        /\ job[id].status \notin {"absent", "waiting", "active"}
    BY DEF WorkerInv, QueueInv, QueueTypeOK, Final, JobShape
  <2>2. ASSUME NEW p \in Calls, Produce(p) PROVE Stays(id)
    BY <2>1, <2>2 DEF Produce, Enqueue, Add, Answer, Resend, CallTurns
  <2>3. ASSUME NEW s \in Slots, Work(s) PROVE Stays(id)
    BY <2>1, <2>3, QueueAssumption
    DEF Work, Take, Deliver, RejectUnknown, HandlerSettles, Report
  <2>4. ASSUME NEW i \in JobIds, Check(i) \/ Expire(i) PROVE Stays(id)
    BY <2>1, <2>4 DEF Check, Expire, Stalled, LockExpires
  <2>5. CASE Lifecycle
    BY <2>5
    DEF Lifecycle, Start, Die, Boot, BootFails, WaitUntilReady, Event, CloseTask,
        TaskSettles, Finish, Exit, RedisTurns, ProcessEnds, queueVars
  <2>6. CASE UNCHANGED workerVars
    BY <2>6 DEF workerVars, queueVars
  <2>. QED  BY <2>2, <2>3, <2>4, <2>5, <2>6 DEF WorkerNext
<1>2. [\A id \in JobIds : Final(id) => Stays(id)]_workerVars =>
        [\A id \in JobIds : Final(id) => job'[id].status = job[id].status
                              /\ job'[id].started = job[id].started]_workerVars
  OBVIOUS
<1>. QED  BY <1>1, <1>2, WorkerInvariance, PTL DEF WorkerSpec, FinalIsFinal

-----------------------------------------------------------------------------
(* The queue implements AtLeastOnceQueue.                                  *)

(* A step that changes one job changes that job's abstract state.          *)
LEMMA StateMoves ==
  ASSUME QueueInv, NEW id \in JobIds, NEW j \in JobType,
         job' = [job EXCEPT ![id] = j]
  PROVE  /\ JobState' = [JobState EXCEPT ![id] =
              IF j.status \in {"waiting", "active"} THEN "pending" ELSE j.status]
         /\ JobRuns' = [JobRuns EXCEPT ![id] = j.started]
<1>1. job'[id] = j /\ \A i \in JobIds \ {id} : job'[i] = job[i]
  BY DEF QueueInv, QueueTypeOK
<1>. DEFINE state == IF j.status \in {"waiting", "active"} THEN "pending" ELSE j.status
<1>2. \A i \in JobIds : JobState'[i] = IF i = id THEN state ELSE JobState[i]
  BY <1>1 DEF JobState
<1>3. \A i \in JobIds : JobRuns'[i] = IF i = id THEN j.started ELSE JobRuns[i]
  BY <1>1 DEF JobRuns
<1>4. /\ JobState = [i \in JobIds |-> JobState[i]] /\ JobState' = [i \in JobIds |-> JobState'[i]]
      /\ JobRuns = [i \in JobIds |-> JobRuns[i]] /\ JobRuns' = [i \in JobIds |-> JobRuns'[i]]
  BY DEF JobState, JobRuns
<1>. HIDE DEF state
<1>5. JobState' = [JobState EXCEPT ![id] = state]
  BY <1>2, <1>4
<1>6. JobRuns' = [JobRuns EXCEPT ![id] = j.started]
  BY <1>3, <1>4
<1>. QED  BY <1>5, <1>6 DEF state

(* A job that keeps its abstract state leaves the queue's as it is.        *)
LEMMA StateStays ==
  ASSUME QueueInv, NEW id \in JobIds, NEW j \in JobType,
         job' = [job EXCEPT ![id] = j], j.started = job[id].started,
         \/ j.status = job[id].status
         \/ {j.status, job[id].status} \subseteq {"waiting", "active"}
  PROVE  UNCHANGED <<JobState, JobRuns>>
<1>1. /\ JobState[id] = IF j.status \in {"waiting", "active"} THEN "pending" ELSE j.status
      /\ JobRuns[id] = j.started
  BY DEF JobState, JobRuns
<1>2. /\ JobState' = [JobState EXCEPT ![id] = JobState[id]]
      /\ JobRuns' = [JobRuns EXCEPT ![id] = JobRuns[id]]
  BY <1>1, StateMoves
<1>. QED  BY <1>2 DEF JobState, JobRuns

(* What a caller sees of enqueue.                                          *)
LEMMA ProduceImplements ==
  ASSUME QueueInv, NEW p \in Calls,
         \/ \E key \in Keys \cup {None}, known \in BOOLEAN : Enqueue(p, key, known)
         \/ Add(p) \/ Answer(p) \/ Resend(p)
  PROVE  Promise!Next \/ UNCHANGED Promise!queueVars
<1>1. call \in [Calls -> CallType] /\ UNCHANGED sent
  BY DEF QueueInv, QueueTypeOK, Enqueue, Add, Answer, Resend, CallTurns
<1>2. CASE Answer(p)
  <2>. DEFINE id == call[p].id
  <2>1. id \in JobIds /\ job[id].status # "absent"
    BY <1>2 DEF Answer, CallTurns, QueueInv, CallShape
  <2>2. \A q \in Calls : /\ call'[q].id = call[q].id
                         /\ call'[q].pc = "answered" <=> q = p \/ call[q].pc = "answered"
    BY <1>1, <1>2 DEF Answer, CallTurns, CallType
  <2>3. Answered' = Answered \cup {id}
    BY <2>2 DEF Answered
  <2>4. JobState[id] # "absent" /\ UNCHANGED <<JobState, JobRuns>>
    BY <1>2, <2>1 DEF Answer, CallTurns, JobState, JobRuns
  <2>. HIDE DEF id
  <2>. QED  BY <1>1, <2>1, <2>3, <2>4 DEF Promise!Next, Promise!Promise
<1>3. CASE ~Answer(p)
  <2>1. \A q \in Calls :
          /\ call'[q].pc = "answered" <=> call[q].pc = "answered"
          /\ call[q].pc = "answered" => call'[q].id = call[q].id
    BY <1>1, <1>3 DEF Enqueue, Add, Resend, CallTurns, CallType
  <2>2. Answered' = Answered
    BY <2>1 DEF Answered
  <2>3. CASE UNCHANGED job
    BY <1>1, <2>2, <2>3 DEF Promise!queueVars, JobState, JobRuns
  <2>4. CASE ~UNCHANGED job
    <3>1. PICK id \in JobIds : /\ job[id].status = "absent"
                               /\ job' = [job EXCEPT ![id] = NewJob(call[p].key, call[p].known)]
      BY <1>1, <1>3, <2>4 DEF Enqueue, Add, Resend, CallTurns, IdsFor, JobIds, CallType
    <3>. DEFINE j == NewJob(call[p].key, call[p].known)
    <3>2. j \in JobType /\ j.status = "waiting" /\ j.started = 0
      BY <1>1 DEF NewJob, JobType, CallType
    <3>3. job[id].started = 0
      BY <3>1 DEF QueueInv, JobShape, NoJob, NewJob
    <3>4. job' = [job EXCEPT ![id] = j]
      BY <3>1
    <3>. HIDE DEF j
    <3>5. /\ JobState' = [JobState EXCEPT ![id] = "pending"]
          /\ JobRuns' = [JobRuns EXCEPT ![id] = 0]
      BY <3>2, <3>4, StateMoves
    <3>6. JobState[id] = "absent" /\ JobRuns' = JobRuns
      BY <3>1, <3>3, <3>5 DEF JobState, JobRuns
    <3>. QED  BY <1>1, <2>2, <3>5, <3>6 DEF Promise!Next, Promise!Accept
  <2>. QED  BY <2>3, <2>4
<1>. QED  BY <1>2, <1>3

(* A job that is given to a slot is begun once more, within its bound.     *)
LEMMA TakeImplements ==
  ASSUME QueueInv, NEW s \in Slots, NEW id \in JobIds, Take(s, id)
  PROVE  Promise!Next
<1>. DEFINE j == [job[id] EXCEPT !.status = "active", !.lock = s, !.started = @ + 1]
<1>1. job[id] \in JobType /\ JobShape(id, job[id]) /\ job[id].status = "waiting"
  BY DEF QueueInv, QueueTypeOK, Take
<1>2. job[id].started + 1 \in Nat
  BY <1>1 DEF JobType
<1>3. /\ j \in JobType /\ j.status = "active" /\ j.started = job[id].started + 1
      /\ job' = [job EXCEPT ![id] = j]
  BY <1>1, <1>2 DEF JobType, Take, QueueInv, QueueTypeOK
<1>. HIDE DEF j
<1>4. /\ JobState' = [JobState EXCEPT ![id] = "pending"]
      /\ JobRuns' = [JobRuns EXCEPT ![id] = job[id].started + 1]
  BY <1>3, StateMoves
<1>5. JobState[id] = "pending" /\ JobRuns[id] = job[id].started /\ JobState' = JobState
  BY <1>1, <1>4 DEF JobState, JobRuns
<1>6. job[id].started < Attempts + MaxStalls
  BY <1>1, QueueAssumption DEF JobShape, JobType, Ran
<1>7. Answered' = Answered /\ UNCHANGED sent
  BY DEF Take, Answered
<1>. QED  BY <1>4, <1>5, <1>6, <1>7 DEF Promise!Next, Promise!Run

(* A handler that settles may have delivered.                              *)
LEMMA HandlerImplements ==
  ASSUME QueueInv, NEW s \in Slots, Deliver(s) \/ RejectUnknown(s)
  PROVE  Promise!Next \/ UNCHANGED Promise!queueVars
<1>. DEFINE id == slot[s].job
<1>1. slot[s] \in SlotType /\ slot[s].pc = "running" /\ SlotShape(s)
  BY DEF QueueInv, QueueTypeOK, Deliver, RejectUnknown
<1>2. id \in JobIds /\ job[id].started > 0
  BY <1>1 DEF SlotType, SlotShape
<1>3. UNCHANGED <<JobState, JobRuns, Answered>>
  BY DEF Deliver, RejectUnknown, HandlerSettles, JobState, JobRuns, Answered
<1>4. sent' = sent \/ sent' = sent \cup {id}
  BY DEF Deliver, RejectUnknown
<1>5. JobRuns[id] > 0
  BY <1>2 DEF JobRuns
<1>. QED  BY <1>2, <1>3, <1>4, <1>5 DEF Promise!Next, Promise!Deliver, Promise!queueVars

(* Its outcome completes the job, or gives it up after enough runs.        *)
LEMMA ReportImplements ==
  ASSUME QueueInv, NEW s \in Slots, Report(s)
  PROVE  Promise!Next \/ UNCHANGED Promise!queueVars
<1>. DEFINE id == slot[s].job
<1>1. slot[s] \in SlotType /\ SlotShape(s) /\ slot[s].pc = "settled"
  BY DEF QueueInv, QueueTypeOK, Report, Processed
<1>2. id \in JobIds
  BY <1>1 DEF SlotType, SlotShape
<1>3. job[id] \in JobType /\ JobShape(id, job[id])
  BY <1>2 DEF QueueInv, QueueTypeOK
<1>4. Answered' = Answered /\ UNCHANGED sent
  BY DEF Report, Answered
<1>5. CASE job[id].lock # s
  BY <1>4, <1>5 DEF Report, JobState, JobRuns, Promise!queueVars
<1>6. CASE job[id].lock = s
  <2>1. job[id].status = "active" /\ JobState[id] = "pending" /\ JobRuns[id] = job[id].started
    BY <1>2, <1>3, <1>6, QueueAssumption DEF JobShape, JobState, JobRuns
  <2>2. CASE slot[s].ok
    <3>. DEFINE j == [job[id] EXCEPT !.status = "done", !.lock = None]
    <3>1. /\ job' = [job EXCEPT ![id] = j] /\ j \in JobType
          /\ j.status = "done" /\ j.started = job[id].started
      BY <1>3, <1>6, <2>2 DEF Report, JobType
    <3>2. id \in sent
      BY <1>1, <2>2 DEF SlotShape
    <3>. HIDE DEF j, id
    <3>3. /\ JobState' = [JobState EXCEPT ![id] = "done"]
          /\ JobRuns' = [JobRuns EXCEPT ![id] = JobRuns[id]]
      BY <1>2, <2>1, <3>1, StateMoves
    <3>4. JobRuns' = JobRuns
      BY <3>3 DEF JobRuns
    <3>. QED  BY <1>2, <1>4, <2>1, <3>2, <3>3, <3>4 DEF Promise!Next, Promise!Complete
  <2>3. CASE ~slot[s].ok
    <3>. DEFINE j == Failed(job[id])
    <3>1. job[id].attempts + 1 \in Nat
      BY <1>3 DEF JobType
    <3>2. /\ job' = [job EXCEPT ![id] = j] /\ j \in JobType
          /\ j.started = job[id].started /\ j.attempts = job[id].attempts + 1
          /\ j.status = IF j.attempts >= Attempts THEN "failed" ELSE "waiting"
      BY <1>3, <1>6, <2>3, <3>1 DEF Report, Failed, JobType
    <3>. HIDE DEF j, id
    <3>3. CASE j.status = "waiting"
      <4>1. UNCHANGED <<JobState, JobRuns>>
        BY <1>2, <2>1, <3>2, <3>3, StateStays
      <4>. QED  BY <1>4, <4>1 DEF Promise!queueVars
    <3>4. CASE j.status = "failed"
      <4>1. /\ JobState' = [JobState EXCEPT ![id] = "failed"]
            /\ JobRuns' = [JobRuns EXCEPT ![id] = JobRuns[id]]
        BY <1>2, <2>1, <3>2, <3>4, StateMoves, ZenonT(40)
      <4>2. JobRuns' = JobRuns
        BY <4>1 DEF JobRuns
      <4>3. job[id].started >= IF Attempts <= MaxStalls THEN Attempts ELSE MaxStalls + 1
        BY <1>3, <2>1, <3>2, <3>4, QueueAssumption DEF JobShape, JobType, Ran
      <4>. QED  BY <1>2, <1>4, <2>1, <4>1, <4>2, <4>3 DEF Promise!Next, Promise!GiveUp
    <3>. QED  BY <3>2, <3>3, <3>4
  <2>. QED  BY <2>2, <2>3
<1>. QED  BY <1>5, <1>6

(* A stalled job is given out again, or given up after enough runs.        *)
LEMMA LockImplements ==
  ASSUME QueueInv, NEW id \in JobIds, LockExpires(id) \/ Stalled(id)
  PROVE  Promise!Next \/ UNCHANGED Promise!queueVars
<1>1. /\ job[id] \in JobType /\ JobShape(id, job[id]) /\ job[id].status = "active"
      /\ JobState[id] = "pending" /\ JobRuns[id] = job[id].started
  BY DEF QueueInv, QueueTypeOK, LockExpires, Stalled, JobState, JobRuns
<1>2. Answered' = Answered /\ UNCHANGED sent
  BY DEF LockExpires, Stalled, Answered
<1>3. ASSUME NEW j \in JobType, j.status \in {"waiting", "active"},
             j.started = job[id].started, job' = [job EXCEPT ![id] = j]
      PROVE  UNCHANGED Promise!queueVars
  <2>1. UNCHANGED <<JobState, JobRuns>>
    BY <1>1, <1>3, StateStays
  <2>. QED  BY <1>2, <2>1 DEF Promise!queueVars
<1>4. CASE LockExpires(id)
  <2>. DEFINE j == [job[id] EXCEPT !.lock = None]
  <2>1. /\ j \in JobType /\ j.status = "active" /\ j.started = job[id].started
        /\ job' = [job EXCEPT ![id] = j]
    BY <1>1, <1>4 DEF LockExpires, JobType, QueueInv, QueueTypeOK
  <2>. HIDE DEF j
  <2>. QED  BY <1>3, <2>1
<1>5. CASE Stalled(id)
  <2>. DEFINE j == TakenBack(job[id])
  <2>1. job[id].stalls + 1 \in Nat
    BY <1>1 DEF JobType
  <2>2. /\ j \in JobType /\ j.started = job[id].started
        /\ job' = [job EXCEPT ![id] = j]
        /\ \/ j.status = "waiting"
           \/ j.status = "failed" /\ job[id].stalls >= MaxStalls
    <3>1. job' = [job EXCEPT ![id] = j]
      BY <1>5 DEF Stalled
    <3>2. job[id].stalls < MaxStalls \/ job[id].stalls >= MaxStalls
      BY <1>1, QueueAssumption DEF JobType
    <3>3. ASSUME job[id].stalls < MaxStalls
          PROVE  j \in JobType /\ j.started = job[id].started /\ j.status = "waiting"
      BY <1>1, <2>1, <3>3 DEF TakenBack, JobType
    <3>4. ASSUME ~(job[id].stalls < MaxStalls)
          PROVE  j \in JobType /\ j.started = job[id].started /\ j.status = "failed"
      BY <1>1, <3>4 DEF TakenBack, JobType
    <3>. QED  BY <3>1, <3>2, <3>3, <3>4
  <2>. HIDE DEF j
  <2>3. CASE j.status = "waiting"
    BY <1>3, <2>2, <2>3
  <2>4. CASE j.status = "failed" /\ job[id].stalls >= MaxStalls
    <3>1. /\ JobState' = [JobState EXCEPT ![id] = "failed"]
          /\ JobRuns' = [JobRuns EXCEPT ![id] = JobRuns[id]]
      BY <1>1, <2>2, <2>4, StateMoves, ZenonT(40)
    <3>2. JobRuns' = JobRuns
      BY <3>1 DEF JobRuns
    <3>3. job[id].started >= IF Attempts <= MaxStalls THEN Attempts ELSE MaxStalls + 1
      BY <1>1, <2>4, QueueAssumption DEF JobShape, JobType, Ran
    <3>. QED  BY <1>1, <1>2, <3>1, <3>2, <3>3 DEF Promise!Next, Promise!GiveUp
  <2>. QED  BY <2>2, <2>3, <2>4
<1>. QED  BY <1>4, <1>5

(* The queue and its worker implement the queue that AtLeastOnceQueue      *)
(* promises, for every number of calls, keys, slots, attempts and restarts.*)
THEOREM QueueIsImplemented == WorkerSpec => ImplementsQueue
<1>1. WorkerInit => Promise!Init
  <2>. SUFFICES ASSUME WorkerInit PROVE Promise!Init
    OBVIOUS
  <2>1. \A id \in JobIds : job[id].status = "absent" /\ job[id].started = 0
    BY DEF WorkerInit, QueueInit, NoJob, NewJob
  <2>2. Answered = {}
    BY DEF WorkerInit, QueueInit, NoCall, Answered
  <2>. QED  BY <2>1, <2>2 DEF WorkerInit, QueueInit, JobState, JobRuns, Promise!Init
<1>2. WorkerInv /\ [WorkerNext]_workerVars => [Promise!Next]_(Promise!queueVars)
  <2>. SUFFICES ASSUME WorkerInv, [WorkerNext]_workerVars
                PROVE  Promise!Next \/ UNCHANGED Promise!queueVars
    OBVIOUS
  <2>1. QueueInv
    BY DEF WorkerInv
  <2>2. ASSUME UNCHANGED <<call, job, sent>> PROVE UNCHANGED Promise!queueVars
    BY <2>2 DEF Promise!queueVars, JobState, JobRuns, Answered
  <2>3. ASSUME NEW p \in Calls, Produce(p)
        PROVE  Promise!Next \/ UNCHANGED Promise!queueVars
    BY <2>1, <2>3, ProduceImplements DEF Produce
  <2>4. ASSUME NEW s \in Slots, Work(s)
        PROVE  Promise!Next \/ UNCHANGED Promise!queueVars
    BY <2>1, <2>4, TakeImplements, HandlerImplements, ReportImplements DEF Work
  <2>5. ASSUME NEW id \in JobIds, Check(id) \/ Expire(id)
        PROVE  Promise!Next \/ UNCHANGED Promise!queueVars
    BY <2>1, <2>5, LockImplements DEF Check, Expire
  <2>6. CASE Lifecycle
    BY <2>2, <2>6
    DEF Lifecycle, Start, Die, Boot, BootFails, WaitUntilReady, Event, CloseTask,
        TaskSettles, Finish, Exit, RedisTurns, ProcessEnds, queueVars
  <2>7. CASE UNCHANGED workerVars
    BY <2>2, <2>7 DEF workerVars, queueVars
  <2>. QED  BY <2>3, <2>4, <2>5, <2>6, <2>7 DEF WorkerNext
<1>. QED  BY <1>1, <1>2, WorkerInvariance, PTL
     DEF WorkerSpec, ImplementsQueue, Promise!Spec

-----------------------------------------------------------------------------
(* The worker implements GracefulShutdown.                                 *)

(* Tasks that do not change keep the stages of the shutdown.               *)
LEMMA StagesStay ==
  ASSUME UNCHANGED task
  PROVE  UNCHANGED <<JobsStage, ResourceStages>>
BY DEF JobsStage, ResourceStages, Stage, Settled

(* A task that moves on moves its resource.                                *)
LEMMA StageMoves ==
  ASSUME WorkerTypeOK, NEW t \in Tasks \ {Runner}, NEW state \in TaskStates,
         task' = [task EXCEPT ![t] = state]
  PROVE  /\ UNCHANGED JobsStage
         /\ ResourceStages' = [ResourceStages EXCEPT ![t] =
              IF state \in Outcomes THEN "settled"
              ELSE IF state = "unregistered" THEN "unused" ELSE state]
<1>1. task'[t] = state /\ \A u \in Tasks \ {t} : task'[u] = task[u]
  BY DEF WorkerTypeOK
<1>2. Settled(Runner)' <=> Settled(Runner)
  BY <1>1, RunnerAssumption DEF Settled
<1>. DEFINE stage == IF state \in Outcomes THEN "settled"
                     ELSE IF state = "unregistered" THEN "unused" ELSE state
<1>3. Stage(t)' = stage /\ \A u \in Tasks \ {t} : Stage(u)' = Stage(u)
  BY <1>1 DEF Stage, Settled
<1>. HIDE DEF stage
<1>4. ResourceStages' = [ResourceStages EXCEPT ![t] = stage]
  BY <1>3 DEF ResourceStages
<1>. QED  BY <1>2, <1>4 DEF JobsStage, stage

(* Jobs: a slot that takes one begins, one that reports ends.              *)
LEMMA WorkImplements ==
  ASSUME WorkerInv, NEW s \in Slots, Work(s)
  PROVE  Shutdown!Next \/ UNCHANGED Shutdown!shutdownVars
<1>1. slot \in [Slots -> SlotType] /\ UNCHANGED task
  BY DEF WorkerInv, QueueInv, QueueTypeOK, Work, registry
<1>2. UNCHANGED <<JobsStage, ResourceStages>>
  BY <1>1, StagesStay
<1>3. ASSUME NEW id \in JobIds, Serving, Take(s, id) PROVE Shutdown!Next
  <2>1. slot'[s].pc = "running" /\ \A u \in Slots \ {s} : slot'[u] = slot[u]
    BY <1>1, <1>3 DEF Take, FreeSlot
  <2>2. BusySlots' = BusySlots \cup {s}
    BY <2>1 DEF BusySlots
  <2>3. JobsStage = "serving"
    BY <1>3, RunnerAssumption DEF WorkerInv, Serving, JobsStage, Settled, Outcomes
  <2>. QED  BY <1>2, <2>2, <2>3 DEF Shutdown!Next, Shutdown!Begin
<1>4. CASE Deliver(s) \/ RejectUnknown(s)
  <2>1. \A u \in Slots : slot'[u].pc = "free" <=> slot[u].pc = "free"
    BY <1>1, <1>4 DEF Deliver, RejectUnknown, HandlerSettles, SlotType
  <2>2. BusySlots' = BusySlots
    BY <2>1 DEF BusySlots
  <2>. QED  BY <1>2, <2>2 DEF Shutdown!shutdownVars
<1>5. CASE Report(s)
  <2>1. slot'[s].pc = "free" /\ \A u \in Slots \ {s} : slot'[u] = slot[u]
    BY <1>1, <1>5 DEF Report, FreeSlot
  <2>2. BusySlots' = BusySlots \ {s}
    BY <2>1 DEF BusySlots
  <2>. QED  BY <1>2, <2>2 DEF Shutdown!Next, Shutdown!End
<1>. QED  BY <1>3, <1>4, <1>5 DEF Work

(* The end of the process, by itself or not, takes the shutdown back.      *)
LEMMA EndImplements ==
  ASSUME WorkerInv, ProcessEnds
  PROVE  Shutdown!Next
<1>1. BusySlots' = {}
  BY DEF ProcessEnds, AllSlotsFree, FreeSlot, BusySlots
<1>2. \A t \in Tasks : task'[t] = "unregistered"
  BY DEF ProcessEnds
<1>3. JobsStage' = "serving"
  BY <1>2, RunnerAssumption DEF JobsStage, Settled, Outcomes
<1>4. ResourceStages' = [t \in Tasks \ {Runner} |-> "unused"]
  BY <1>2 DEF ResourceStages, Stage, Settled, Outcomes
<1>. QED  BY <1>1, <1>3, <1>4 DEF Shutdown!Next, Shutdown!Restart, Shutdown!Unused

(* The start provides all resources.                                       *)
LEMMA BootImplements ==
  ASSUME WorkerInv, Boot
  PROVE  Shutdown!Next
<1>1. \A t \in Tasks : task[t] = "unregistered" /\ task'[t] = "open"
  BY DEF Boot, WorkerInv
<1>2. JobsStage = "serving" /\ JobsStage' = "serving"
  BY <1>1, RunnerAssumption DEF JobsStage, Settled, Outcomes
<1>3. \A t \in Tasks \ {Runner} : Stage(t) = "unused" /\ Stage(t)' = "open"
  BY <1>1 DEF Stage, Settled, Outcomes
<1>4. UNCHANGED BusySlots
  BY DEF Boot, queueVars, BusySlots
<1>. QED
  BY <1>2, <1>3, <1>4 DEF ResourceStages, Shutdown!Next, Shutdown!Provide

(* closeAll: the task `worker' comes first, and its end is the end of the  *)
(* work; each of the others closes when none before it is left.            *)
LEMMA CloseImplements ==
  ASSUME WorkerInv, NEW t \in Tasks, CloseTask(t)
  PROVE  Shutdown!Next \/ UNCHANGED Shutdown!shutdownVars
<1>1. /\ task' = [task EXCEPT ![t] = "closing"] /\ task[t] = "open" /\ shuttingDown
      /\ \A u \in Tasks : task[u] # "closing" /\ (task[u] = "open" => ~Before(u, t))
  BY DEF CloseTask, CloseNext
<1>2. UNCHANGED BusySlots
  BY DEF CloseTask, queueVars, BusySlots
<1>3. CASE t = Runner
  <2>1. /\ \A u \in Tasks \ {Runner} : task'[u] = task[u]
        /\ ~Settled(Runner) /\ ~Settled(Runner)'
    BY <1>1, <1>3 DEF WorkerInv, WorkerTypeOK, Settled, Outcomes
  <2>2. UNCHANGED <<JobsStage, ResourceStages>>
    BY <2>1 DEF JobsStage, ResourceStages, Stage, Settled
  <2>. QED  BY <1>2, <2>2 DEF Shutdown!shutdownVars
<1>4. CASE t # Runner
  <2>1. /\ UNCHANGED JobsStage
        /\ ResourceStages' = [ResourceStages EXCEPT ![t] = "closing"]
    <3>1. "closing" \in TaskStates /\ "closing" \notin Outcomes
      BY DEF TaskStates, Outcomes
    <3>. QED  BY <1>1, <1>4, <3>1, StageMoves, ZenonT(40) DEF WorkerInv
  <2>2. task[Runner] # "open"
    BY <1>1, <1>4, RunnerAssumption DEF Before
  <2>3. \A u \in Tasks : task[u] # "unregistered"
    BY <1>1 DEF WorkerInv
  <2>4. JobsStage = "closing"
    BY <1>1, <2>2, <2>3, RunnerAssumption
    DEF WorkerInv, WorkerTypeOK, TaskStates, JobsStage, Settled
  <2>5. \A u \in Tasks \ {Runner} :
          ResourceStages[u] # "closing" /\ (ResourceStages[u] = "open" => task[u] = "open")
    BY <1>1, <2>3 DEF ResourceStages, Stage, WorkerInv, WorkerTypeOK
  <2>6. \A u \in Tasks \ {Runner} : ResourceStages[u] = "open" => Priority[u] <= Priority[t]
    <3>1. \A u \in Tasks : Priority[u] \in Int /\ Priority[t] \in Int
      BY TaskAssumption
    <3>. QED  BY <1>1, <2>5, <3>1 DEF Before
  <2>7. ResourceStages[t] = "open"
    BY <1>1, <1>4 DEF ResourceStages, Stage, Settled, Outcomes
  <2>. QED
    BY <1>2, <1>4, <2>1, <2>4, <2>5, <2>6, <2>7 DEF Shutdown!Next, Shutdown!Close
<1>. QED  BY <1>3, <1>4

(* A close() settles: the jobs have ended when it is the one of `worker',  *)
(* so the work is over; any other is a resource that has been tried.       *)
LEMMA SettleImplements ==
  ASSUME WorkerInv, NEW t \in Tasks, TaskSettles(t)
  PROVE  Shutdown!Next
<1>1. PICK outcome \in Outcomes :
        task' = [task EXCEPT ![t] = outcome] /\ task[t] = "closing"
  BY DEF TaskSettles, Settle
<1>2. UNCHANGED BusySlots
  BY DEF TaskSettles, queueVars, BusySlots
<1>3. CASE t = Runner
  <2>1. /\ \A u \in Tasks \ {Runner} : task'[u] = task[u]
        /\ ~Settled(Runner) /\ Settled(Runner)'
    BY <1>1, <1>3 DEF WorkerInv, WorkerTypeOK, Settled, Outcomes
  <2>2. JobsStage = "serving" /\ JobsStage' = "closing" /\ UNCHANGED ResourceStages
    BY <2>1 DEF JobsStage, ResourceStages, Stage, Settled
  <2>3. BusySlots = {}
    BY <1>3 DEF TaskSettles, BusySlots
  <2>. QED  BY <1>2, <2>2, <2>3 DEF Shutdown!Next, Shutdown!BeginClosing
<1>4. CASE t # Runner
  <2>1. /\ UNCHANGED JobsStage
        /\ ResourceStages' = [ResourceStages EXCEPT ![t] = "settled"]
    BY <1>1, <1>4, StageMoves DEF WorkerInv, TaskStates
  <2>2. ResourceStages[t] = "closing"
    BY <1>1, <1>4 DEF ResourceStages, Stage, Settled, Outcomes
  <2>. QED  BY <1>2, <1>4, <2>1, <2>2 DEF Shutdown!Next, Shutdown!Settle
<1>. QED  BY <1>3, <1>4

(* The worker implements the shutdown that GracefulShutdown promises, for  *)
(* any tasks and priorities of which that of `worker' is the highest.      *)
THEOREM WorkerShutsDownGracefully == WorkerSpec => ImplementsShutdown
<1>1. WorkerInit => Shutdown!Init
  <2>. SUFFICES ASSUME WorkerInit PROVE Shutdown!Init
    OBVIOUS
  <2>1. \A t \in Tasks : task[t] = "unregistered"
    BY DEF WorkerInit
  <2>2. JobsStage = "serving" /\ \A t \in Tasks : Stage(t) = "unused"
    BY <2>1, RunnerAssumption DEF JobsStage, Stage, Settled, Outcomes
  <2>3. BusySlots = {}
    BY DEF WorkerInit, QueueInit, FreeSlot, BusySlots
  <2>. QED  BY <2>2, <2>3 DEF Shutdown!Init, ResourceStages
<1>2. WorkerInv /\ [WorkerNext]_workerVars => [Shutdown!Next]_(Shutdown!shutdownVars)
  <2>. SUFFICES ASSUME WorkerInv, [WorkerNext]_workerVars
                PROVE  Shutdown!Next \/ UNCHANGED Shutdown!shutdownVars
    OBVIOUS
  <2>1. ASSUME UNCHANGED <<task, slot>> PROVE UNCHANGED Shutdown!shutdownVars
    BY <2>1, StagesStay DEF Shutdown!shutdownVars, BusySlots
  <2>2. ASSUME NEW p \in Calls, Produce(p) PROVE UNCHANGED Shutdown!shutdownVars
    BY <2>1, <2>2 DEF Produce, Enqueue, Add, Answer, Resend, CallTurns, registry
  <2>3. ASSUME NEW id \in JobIds, Check(id) \/ Expire(id)
        PROVE  UNCHANGED Shutdown!shutdownVars
    BY <2>1, <2>3 DEF Check, Expire, Stalled, LockExpires, registry
  <2>4. CASE \/ Start \/ WaitUntilReady \/ Finish \/ RedisTurns
             \/ \E event \in Events : Event(event)
    BY <2>1, <2>4
    DEF Start, WaitUntilReady, Finish, RedisTurns, Event, CloseAll, queueVars, registry
  <2>5. CASE Die \/ BootFails \/ Exit
    BY <2>5, EndImplements DEF Die, BootFails, Exit
  <2>6. CASE UNCHANGED workerVars
    BY <2>1, <2>6 DEF workerVars, queueVars, registry
  <2>. QED
    BY <2>2, <2>3, <2>4, <2>5, <2>6, WorkImplements, BootImplements, CloseImplements,
       SettleImplements DEF WorkerNext, Lifecycle
<1>. QED  BY <1>1, <1>2, WorkerInvariance, PTL
     DEF WorkerSpec, ImplementsShutdown, Shutdown!Spec

-----------------------------------------------------------------------------
(* The process that startWorker puts together.                             *)

(* The worker's tasks keep to their priorities too, through restarts.      *)
LEMMA WorkerClosesInOrder == WorkerSpec => []ClosedInOrder
<1>1. WorkerInit => ClosedInOrder
  BY DEF WorkerInit, ClosedInOrder
<1>2. WorkerInv /\ ClosedInOrder /\ [WorkerNext]_workerVars => ClosedInOrder'
  <2>. SUFFICES ASSUME WorkerInv, ClosedInOrder, [WorkerNext]_workerVars
                PROVE  ClosedInOrder'
    OBVIOUS
  <2>1. CASE UNCHANGED task
    BY <2>1 DEF ClosedInOrder
  <2>2. CASE Boot \/ ProcessEnds
    BY <2>2 DEF Boot, ProcessEnds, ClosedInOrder
  <2>3. ASSUME NEW t \in Tasks, CloseTask(t) PROVE ClosedInOrder'
    <3>1. /\ task'[t] = "closing" /\ \A s \in Tasks \ {t} : task'[s] = task[s]
          /\ \A s \in Tasks : task[s] # "closing" /\ (task[s] = "open" => ~Before(s, t))
      BY <2>3 DEF CloseTask, CloseNext, WorkerInv, WorkerTypeOK
    <3>2. task[t] = "open"
      BY <2>3 DEF CloseTask, CloseNext
    <3>. QED  BY <3>1, <3>2, TaskAssumption DEF ClosedInOrder, Before
  <2>4. ASSUME NEW t \in Tasks, TaskSettles(t) PROVE ClosedInOrder'
    <3>1. /\ task'[t] \in Outcomes /\ \A s \in Tasks \ {t} : task'[s] = task[s]
          /\ task[t] = "closing"
      BY <2>4 DEF TaskSettles, Settle, WorkerInv, WorkerTypeOK
    <3>. QED  BY <3>1, TaskAssumption DEF ClosedInOrder, Outcomes
  <2>. QED
    BY <2>1, <2>2, <2>3, <2>4
    DEF WorkerNext, Lifecycle, Start, Die, BootFails, WaitUntilReady, Event, CloseAll,
        Finish, Exit, RedisTurns, Produce, Work, Check, Expire, registry, workerVars
<1>. QED  BY <1>1, <1>2, WorkerInvariance, PTL DEF WorkerSpec

(* For every setting of the environment: while a job runs, or a resource   *)
(* is open or closing, all it works with is open, through crashes,         *)
(* restarts, signals and failing close().                                  *)
THEOREM NeededByWorkerIsOpen ==
  ASSUME NEW v \in Settings, NEW name \in [Tasks -> WorkerTasks(v)],
         \A t \in Tasks : Priority[t] = WorkerPriority(name[t])
  PROVE  WorkerSpec =>
    [](\A t \in Tasks :
         \/ t # Runner /\ \E s \in Slots : slot[s].pc # "free"
         \/ \E s \in Tasks :
              Needs(name[s], name[t]) /\ task[s] \in {"open", "closing"}
         => task[t] = "open")
<1>1. \A s, t \in Tasks : Needs(name[s], name[t]) => Priority[s] > Priority[t]
  <2>1. NoOptions \in Options
    BY DEF NoOptions, Options
  <2>. QED  BY <2>1, DependentsCloseFirst
<1>2. WorkerInv /\ ClosedInOrder =>
        \A t \in Tasks :
          \/ t # Runner /\ \E s \in Slots : slot[s].pc # "free"
          \/ \E s \in Tasks :
               Needs(name[s], name[t]) /\ task[s] \in {"open", "closing"}
          => task[t] = "open"
  <2>. SUFFICES ASSUME WorkerInv, ClosedInOrder, NEW t \in Tasks, NEW s \in Tasks,
                       Needs(name[s], name[t]), task[s] \in {"open", "closing"}
                PROVE  task[t] = "open"
    BY DEF WorkerInv, JobsKeepResources
  <2>1. task[t] # "unregistered"
    BY DEF WorkerInv
  <2>. QED  BY <1>1, <2>1 DEF ClosedInOrder
<1>. QED  BY <1>2, WorkerInvariance, WorkerClosesInOrder, PTL

=============================================================================
