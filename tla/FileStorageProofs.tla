------------------------- MODULE FileStorageProofs --------------------------
(***************************************************************************)
(* Proofs about FileStorage, for any number of uploads and keys and bodies *)
(* of any length: a successful answer is true of the store, and part of a  *)
(* body is never what a successful upload left.                            *)
(***************************************************************************)
EXTENDS FileStorage, TLAPS

USE NoUploadAssumption, ProviderAssumption, ChunkAssumption, KeyAssumption

(* Changing one field of a call by a value of its type keeps the type.     *)
LEMMA CallTypes ==
  ASSUME NEW c \in CallType
  PROVE  /\ \A pc \in {"idle"} \cup Running \cup Ended :
              [c EXCEPT !.pc = pc] \in CallType
         /\ \A n \in 0 .. MaxChunks : [c EXCEPT !.written = n] \in CallType
         /\ [c EXCEPT !.displaced = TRUE] \in CallType
BY DEF CallType

(* The initial state satisfies the invariant.                              *)
LEMMA StorageInitInv == StorageInit => StorageInv
<1>. SUFFICES ASSUME StorageInit PROVE StorageInv
  OBVIOUS
<1>1. Idle \in CallType
  BY DEF Idle, CallType, Running, Ended, NoSize
<1>2. StorageTypeOK
  BY <1>1 DEF StorageTypeOK, StorageInit
<1>3. \A u \in Uploads : call[u].pc = "idle" /\ ~call[u].displaced
  BY DEF StorageInit, Idle
<1>. QED
  BY <1>2, <1>3 DEF StorageInv, CallShape, FileShape, Stored, StorageInit, Local

(* A step of one call that leaves the files alone preserves the invariant  *)
(* when what the call becomes has its shape.                               *)
LEMMA CallStep ==
  ASSUME StorageInv, NEW u \in Uploads, NEW c \in CallType,
         call' = [call EXCEPT ![u] = c], UNCHANGED <<provider, file>>,
         c.displaced = call[u].displaced,
         CallShape(u)',
         \A k \in Keys : file[k] = u =>
           /\ c.key = call[u].key /\ c.pc \notin {"idle", "opening"}
           /\ ~Local => c.pc # "writing" /\ c.written = c.size
  PROVE  StorageInv'
<1>1. /\ call' \in [Uploads -> CallType]
      /\ call'[u] = c /\ \A v \in Uploads \ {u} : call'[v] = call[v]
  BY DEF StorageInv, StorageTypeOK
<1>2. StorageTypeOK'
  BY <1>1 DEF StorageInv, StorageTypeOK
<1>3. \A v \in Uploads \ {u} : CallShape(v)'
  BY <1>1 DEF StorageInv, CallShape, Stored, Local
<1>4. ASSUME NEW k \in Keys PROVE FileShape(k)'
  BY <1>1, FileShape(k) DEF StorageInv, StorageTypeOK, FileShape, Local
<1>. QED  BY <1>2, <1>3, <1>4 DEF StorageInv

(* So does one that only changes the step of the call.                     *)
LEMMA GotoStep ==
  ASSUME StorageInv, NEW u \in Uploads, NEW pc \in Running \cup Ended, Goto(u, pc),
         UNCHANGED <<provider, file>>,
         pc # "opening", ~Local => pc # "writing",
         pc \in Stored(u) => call[u].pc \in Stored(u),
         pc \in {"closing", "answered"} => call[u].written = call[u].size,
         Local => pc # "answered"
  PROVE  StorageInv'
<1>. DEFINE c == [call[u] EXCEPT !.pc = pc]
<1>1. c \in CallType
  BY CallTypes DEF StorageInv, StorageTypeOK
<1>2. call' = [call EXCEPT ![u] = c]
  BY DEF Goto
<1>3. /\ c.pc = pc /\ c.key = call[u].key /\ c.size = call[u].size
      /\ c.written = call[u].written /\ c.displaced = call[u].displaced
  BY DEF StorageInv, StorageTypeOK, CallType
<1>4. call'[u] = c
  BY <1>2 DEF StorageInv, StorageTypeOK
<1>. HIDE DEF c
<1>5. CallShape(u)'
  BY <1>3, <1>4, CallShape(u) DEF StorageInv, CallShape, Stored, Local, Running, Ended
<1>6. ASSUME NEW k \in Keys, file[k] = u
      PROVE  /\ c.key = call[u].key /\ c.pc \notin {"idle", "opening"}
             /\ ~Local => c.pc # "writing" /\ c.written = c.size
  BY <1>3, <1>6, FileShape(k) DEF StorageInv, StorageTypeOK, FileShape, Running, Ended
<1>. QED  BY <1>1, <1>2, <1>3, <1>5, <1>6, CallStep

(* A key is given to an upload, or to none, and the one it named before is *)
(* displaced: the invariant is preserved when the new one has its shape.   *)
LEMMA KeyStep ==
  ASSUME StorageInv, NEW k \in Keys, NEW w \in Uploads \cup {NoUpload},
         file[k] # w, file' = [file EXCEPT ![k] = w], UNCHANGED provider,
         call' \in [Uploads -> CallType],
         \A u \in Uploads \ {file[k], w} : call'[u] = call[u],
         file[k] # NoUpload =>
           call'[file[k]] = [call[file[k]] EXCEPT !.displaced = TRUE],
         w # NoUpload =>
           /\ call'[w].key = k /\ ~call'[w].displaced /\ CallShape(w)'
           /\ call'[w].pc \notin {"idle", "opening"}
           /\ ~Local => call'[w].pc # "writing" /\ call'[w].written = call'[w].size
           /\ \A j \in Keys : file[j] # w
  PROVE  StorageInv'
<1>1. /\ file' \in [Keys -> Uploads \cup {NoUpload}] /\ file'[k] = w
      /\ \A j \in Keys \ {k} : file'[j] = file[j]
  BY DEF StorageInv, StorageTypeOK
<1>2. StorageTypeOK'
  BY <1>1 DEF StorageInv, StorageTypeOK
<1>3. \A u \in Uploads : u # w => 
        /\ call'[u].pc = call[u].pc /\ call'[u].key = call[u].key
        /\ call'[u].size = call[u].size /\ call'[u].written = call[u].written
        /\ call'[u].told = call[u].told
        /\ u # file[k] => call'[u].displaced = call[u].displaced
        /\ u = file[k] => call'[u].displaced
  BY DEF StorageInv, StorageTypeOK, CallType
<1>4. ASSUME NEW u \in Uploads, u # w PROVE CallShape(u)'
  <2>1. CallShape(u)
    BY DEF StorageInv
  <2>2. u # file[k] /\ file[call[u].key] = u => file'[call[u].key] = u
    BY <1>1, NoUploadAssumption DEF StorageInv, StorageTypeOK, CallType
  <2>3. u = file[k] => call[u].pc \in Stored(u) \cup {"failed", "died"}
    <3>1. u = file[k] => FileShape(k) /\ call[u].pc \in {"idle"} \cup Running \cup Ended
      BY DEF StorageInv, StorageTypeOK, CallType
    <3>. QED  BY <3>1, NoUploadAssumption DEF FileShape, Stored, Running, Ended
  <2>. QED  BY <1>3, <1>4, <2>1, <2>2, <2>3 DEF CallShape, Stored, Local
<1>5. CallShape(w)' \/ w = NoUpload
  OBVIOUS
<1>6. FileShape(k)'
  BY <1>1 DEF FileShape, Local
<1>7. ASSUME NEW j \in Keys \ {k} PROVE FileShape(j)'
  <2>1. FileShape(j) /\ FileShape(k)
    BY DEF StorageInv
  <2>2. file[j] # NoUpload => file[j] \in Uploads /\ file[j] # file[k] /\ file[j] # w
    BY <2>1 DEF FileShape, StorageInv, StorageTypeOK
  <2>. QED  BY <1>1, <1>3, <2>1, <2>2 DEF FileShape, Local
<1>. QED  BY <1>2, <1>4, <1>5, <1>6, <1>7 DEF StorageInv

(* The actions of one call that leave the files alone.                     *)
LEMMA CallActions ==
  ASSUME StorageInv, NEW u \in Uploads,
         \/ \E k \in Keys, n \in 0 .. MaxChunks : Upload(u, k, n)
         \/ WriteChunk(u) \/ Breaks(u) \/ Stat(u) \/ Completed(u)
  PROVE  StorageInv'
<1>0. /\ call[u] \in CallType /\ CallShape(u)
      /\ \A k \in Keys : FileShape(k)
      /\ call \in [Uploads -> CallType]
      /\ file \in [Keys -> Uploads \cup {NoUpload}]
  BY DEF StorageInv, StorageTypeOK
<1>1. ASSUME NEW k \in Keys, NEW n \in 0 .. MaxChunks, Upload(u, k, n)
      PROVE  StorageInv'
  <2>. DEFINE pc == IF Local THEN "opening" ELSE "writing"
              c == [call[u] EXCEPT !.pc = pc, !.key = k, !.size = n]
  <2>1. call' = [call EXCEPT ![u] = c]
    BY <1>0, <1>1 DEF Upload
  <2>2. /\ c \in CallType /\ c.pc = pc /\ c.displaced = call[u].displaced
    BY <1>0 DEF CallType, Running
  <2>3. call'[u] = c
    BY <1>0, <2>1
  <2>0. call[u].pc = "idle"
    BY <1>1 DEF Upload
  <2>4. \A j \in Keys : file[j] # u
    BY <1>0, <2>0, NoUploadAssumption DEF FileShape
  <2>5. UNCHANGED <<provider, file>>
    BY <1>1 DEF Upload
  <2>. HIDE DEF c
  <2>6. CallShape(u)'
    BY <1>0, <2>0, <2>2, <2>3, <2>5 DEF CallShape, Stored, Local
  <2>. QED  BY <2>1, <2>2, <2>4, <2>5, <2>6, CallStep
<1>2. CASE WriteChunk(u)
  <2>. DEFINE c == [call[u] EXCEPT !.written = @ + 1]
  <2>1. call' = [call EXCEPT ![u] = c]
    BY <1>0, <1>2 DEF WriteChunk
  <2>2. call[u].written + 1 \in 0 .. MaxChunks
    BY <1>0, <1>2 DEF WriteChunk, CallType
  <2>3. c \in CallType
    BY <1>0, <2>2, CallTypes
  <2>4. /\ c.pc = "writing" /\ c.displaced = call[u].displaced
        /\ c.key = call[u].key
    BY <1>0, <1>2 DEF WriteChunk, CallType
  <2>5. call'[u] = c
    BY <1>0, <2>1
  <2>6. UNCHANGED <<provider, file>>
    BY <1>2 DEF WriteChunk
  <2>7. ASSUME NEW k \in Keys, file[k] = u PROVE Local
    BY <1>0, <1>2, <2>7, NoUploadAssumption DEF FileShape, WriteChunk
  <2>. HIDE DEF c
  <2>8. CallShape(u)'
    BY <1>0, <1>2, <2>4, <2>5, <2>6 DEF CallShape, Stored, Local, WriteChunk
  <2>. QED  BY <2>1, <2>3, <2>4, <2>6, <2>7, <2>8, CallStep
<1>3. CASE Breaks(u)
  BY <1>3, GotoStep DEF Breaks, Ended, Stored
<1>4. CASE Stat(u)
  <2>1. CASE file[call[u].key] = NoUpload
    BY <1>4, <2>1, <1>0, GotoStep DEF Stat, Ended, Stored
  <2>2. CASE file[call[u].key] # NoUpload
    <3>. DEFINE told == call[file[call[u].key]].written
                c == [call[u] EXCEPT !.pc = "answered", !.told = told]
    <3>1. call' = [call EXCEPT ![u] = c]
      BY <1>0, <1>4, <2>2 DEF Stat
    <3>2. told \in 0 .. MaxChunks
      BY <1>0, <2>2 DEF CallType
    <3>3. /\ c \in CallType /\ c.pc = "answered" /\ c.told = told
          /\ c.displaced = call[u].displaced /\ c.key = call[u].key
          /\ c.size = call[u].size /\ c.written = call[u].written
      BY <1>0, <3>2 DEF CallType, Ended
    <3>4. call'[u] = c
      BY <1>0, <3>1
    <3>5. UNCHANGED <<provider, file>> /\ Local /\ call[u].pc = "closing"
      BY <1>4 DEF Stat
    <3>6. ~call[u].displaced => told = call[u].size
      BY <1>0, <3>5 DEF CallShape, Stored
    <3>. HIDE DEF c, told
    <3>7. CallShape(u)'
      BY <1>0, <3>3, <3>4, <3>5, <3>6 DEF CallShape, Stored, Local
    <3>. QED  BY <3>1, <3>3, <3>5, <3>7, CallStep
  <2>. QED  BY <2>1, <2>2
<1>5. CASE Completed(u)
  <2>1. Goto(u, "answered") => StorageInv'
    BY <1>5, <1>0, GotoStep DEF Completed, CallShape, Ended, Stored
  <2>2. Goto(u, "failed") => StorageInv'
    BY <1>5, GotoStep DEF Completed, Ended, Stored
  <2>. QED  BY <1>5, <2>1, <2>2 DEF Completed
<1>. QED  BY <1>1, <1>2, <1>3, <1>4, <1>5

(* open with `wx' makes a file that was not there.                         *)
LEMMA OpenStep ==
  ASSUME StorageInv, NEW u \in Uploads, Open(u)
  PROVE  StorageInv'
<1>0. /\ call[u] \in CallType /\ CallShape(u)
      /\ \A k \in Keys : FileShape(k)
      /\ call \in [Uploads -> CallType]
      /\ file \in [Keys -> Uploads \cup {NoUpload}]
  BY DEF StorageInv, StorageTypeOK
<1>. DEFINE k == call[u].key
<1>1. CASE file[k] = NoUpload
  <2>1. /\ call[u].pc = "opening" /\ file' = [file EXCEPT ![k] = u]
        /\ Goto(u, "writing") /\ UNCHANGED provider
    BY <1>1 DEF Open
  <2>2. Local /\ ~call[u].displaced
    BY <1>0, <2>1 DEF CallShape, Stored
  <2>. DEFINE c == [call[u] EXCEPT !.pc = "writing"]
  <2>3. call' = [call EXCEPT ![u] = c]
    BY <1>0, <2>1 DEF Goto
  <2>4. /\ c \in CallType /\ c.pc = "writing" /\ c.key = k
        /\ ~c.displaced
    BY <1>0, <2>2 DEF CallType, Running
  <2>. HIDE DEF c
  <2>5. /\ call' \in [Uploads -> CallType] /\ call'[u] = c
        /\ \A v \in Uploads \ {u} : call'[v] = call[v]
    BY <1>0, <2>3, <2>4
  <2>6. k \in Keys /\ file'[k] = u /\ Local'
    BY <1>0, <2>1, <2>2 DEF CallType, Local
  <2>7. CallShape(u)'
    BY <2>4, <2>5, <2>6 DEF CallShape, Stored
  <2>8. \A j \in Keys : file[j] # u
    BY <1>0, <2>1, NoUploadAssumption DEF FileShape
  <2>. HIDE DEF k
  <2>. QED
    BY <1>1, <2>1, <2>2, <2>4, <2>5, <2>6, <2>7, <2>8, KeyStep, NoUploadAssumption,
       ZenonT(40)
<1>2. CASE file[k] # NoUpload
  BY <1>0, <1>2, GotoStep DEF Open, Ended, Stored
<1>. QED  BY <1>1, <1>2

(* Finish: a local body is complete; an object replaces the one before.    *)
LEMMA FinishStep ==
  ASSUME StorageInv, NEW u \in Uploads, Finish(u)
  PROVE  StorageInv'
<1>0. /\ call[u] \in CallType /\ CallShape(u)
      /\ \A k \in Keys : FileShape(k)
      /\ call \in [Uploads -> CallType]
      /\ file \in [Keys -> Uploads \cup {NoUpload}]
      /\ call[u].pc = "writing" /\ call[u].written = call[u].size
  BY DEF StorageInv, StorageTypeOK, Finish
<1>1. CASE Local
  BY <1>0, <1>1, GotoStep DEF Finish, Running, Stored
<1>2. CASE ~Local
  <2>. DEFINE k == call[u].key
              c == [call[u] EXCEPT !.pc = "closing"]
              d == [call EXCEPT ![u] = c]
  <2>1. /\ file' = [file EXCEPT ![k] = u] /\ UNCHANGED provider
        /\ call' = Displaced(k, d)
    <3>1. [call EXCEPT ![u].pc = "closing"] = d
      BY <1>0
    <3>. QED  BY <1>2, <3>1 DEF Finish
  <2>2. \A j \in Keys : file[j] # u
    BY <1>0, <1>2, NoUploadAssumption DEF FileShape
  <2>3. /\ c \in CallType /\ c.pc = "closing" /\ c.key = k /\ ~c.displaced
        /\ c.size = call[u].size /\ c.written = call[u].written
    BY <1>0, <1>2 DEF CallType, Running, CallShape, Stored
  <2>4. k \in Keys /\ file[k] # u
    BY <1>0, <2>2 DEF CallType
  <2>. HIDE DEF c, k
  <2>5. /\ d \in [Uploads -> CallType] /\ d[u] = c
        /\ \A v \in Uploads \ {u} : d[v] = call[v]
    BY <1>0, <2>3
  <2>. HIDE DEF d
  <2>6. /\ call' \in [Uploads -> CallType] /\ call'[u] = c
        /\ \A v \in Uploads \ {file[k], u} : call'[v] = call[v]
        /\ file[k] # NoUpload => call'[file[k]] = [call[file[k]] EXCEPT !.displaced = TRUE]
    <3>1. \A v \in Uploads : [d[v] EXCEPT !.displaced = TRUE] \in CallType
      BY <2>5, CallTypes
    <3>2. file[k] # NoUpload => file[k] \in Uploads
      BY <1>0, <2>4
    <3>. QED  BY <2>1, <2>4, <2>5, <3>1, <3>2 DEF Displaced
  <2>7. file'[k] = u /\ ~Local'
    BY <1>0, <1>2, <2>1, <2>4 DEF Local
  <2>8. CallShape(u)'
    BY <1>0, <2>3, <2>6, <2>7 DEF CallShape, Stored
  <2>9. /\ call'[u].key = k /\ ~call'[u].displaced
        /\ call'[u].pc \notin {"idle", "opening"}
        /\ call'[u].pc # "writing" /\ call'[u].written = call'[u].size
    BY <1>0, <2>3, <2>6
  <2>. QED  BY <2>1, <2>2, <2>4, <2>6, <2>8, <2>9, KeyStep
<1>. QED  BY <1>1, <1>2

(* Delete: the key names nothing.                                          *)
LEMMA DeleteStep ==
  ASSUME StorageInv, NEW k \in Keys, Delete(k)
  PROVE  StorageInv'
<1>1. /\ call \in [Uploads -> CallType] /\ file[k] \in Uploads
      /\ file[k] # NoUpload
  BY DEF StorageInv, StorageTypeOK, Delete
<1>2. /\ call' \in [Uploads -> CallType]
      /\ \A v \in Uploads \ {file[k]} : call'[v] = call[v]
      /\ call'[file[k]] = [call[file[k]] EXCEPT !.displaced = TRUE]
  <2>1. \A v \in Uploads : [call[v] EXCEPT !.displaced = TRUE] \in CallType
    BY <1>1, CallTypes
  <2>. QED  BY <1>1, <2>1 DEF Delete, Displaced
<1>3. file' = [file EXCEPT ![k] = NoUpload] /\ UNCHANGED provider
  BY DEF Delete
<1>. QED  BY <1>1, <1>2, <1>3, KeyStep

(* Crash: files and objects stay as the dead calls left them.              *)
LEMMA CrashStep ==
  ASSUME StorageInv, Crash
  PROVE  StorageInv'
<1>1. /\ call \in [Uploads -> CallType] /\ UNCHANGED <<provider, file>>
      /\ \A u \in Uploads : CallShape(u)
      /\ \A k \in Keys : FileShape(k)
  BY DEF StorageInv, StorageTypeOK, Crash
<1>2. \A u \in Uploads : [call[u] EXCEPT !.pc = "died"] \in CallType
  BY <1>1, CallTypes DEF Ended
<1>3. call' \in [Uploads -> CallType]
  BY <1>1, <1>2 DEF Crash
<1>4. \A u \in Uploads :
        /\ call'[u].key = call[u].key /\ call'[u].size = call[u].size
        /\ call'[u].written = call[u].written /\ call'[u].told = call[u].told
        /\ call'[u].displaced = call[u].displaced
        /\ call'[u].pc = IF call[u].pc \in Running THEN "died" ELSE call[u].pc
  BY <1>1 DEF Crash, CallType
<1>5. ASSUME NEW u \in Uploads PROVE CallShape(u)'
  BY <1>1, <1>4 DEF CallShape, Stored, Local, Running
<1>6. ASSUME NEW k \in Keys PROVE FileShape(k)'
  <2>1. file[k] # NoUpload => file[k] \in Uploads
    BY DEF StorageInv, StorageTypeOK
  <2>. QED  BY <1>1, <1>4, <2>1 DEF FileShape, Local, Running
<1>7. StorageTypeOK'
  BY <1>1, <1>3 DEF StorageInv, StorageTypeOK
<1>. QED  BY <1>5, <1>6, <1>7 DEF StorageInv

-----------------------------------------------------------------------------
(* Every file and every object is under the key of the upload that made    *)
(* it, from its creation until it is displaced, however uploads, deletes   *)
(* and crashes interleave.                                                 *)
THEOREM StorageInvariance == StorageSpec => []StorageInv
<1>1. StorageInv /\ [StorageNext]_storageVars => StorageInv'
  <2>. SUFFICES ASSUME StorageInv, [StorageNext]_storageVars
                PROVE  StorageInv'
    OBVIOUS
  <2>1. CASE UNCHANGED storageVars
    BY <2>1 DEF storageVars, StorageInv, StorageTypeOK, CallShape, FileShape,
                Stored, Local
  <2>. QED
    BY <2>1, CallActions, OpenStep, FinishStep, DeleteStep, CrashStep
       DEF StorageNext
<1>. QED  BY <1>1, StorageInitInv, PTL DEF StorageSpec

(* What upload answers is true, whatever other uploads, deletes, failures  *)
(* and crashes happened meanwhile, for bodies of any length.               *)
THEOREM AnswersAreTrue == StorageSpec => []AnsweredIsStored
<1>1. StorageInv => AnsweredIsStored
  BY DEF StorageInv, AnsweredIsStored, AnswerInv, CallShape, Stored
<1>. QED  BY <1>1, StorageInvariance, PTL

(* Only a local upload that has not ended, failed or died shows part of    *)
(* its body; an object of S3 is whole.                                     *)
THEOREM PartsAreUnanswered == StorageSpec => []PartialIsUnanswered
<1>1. ASSUME StorageInv, NEW k \in Keys PROVE PartialInv(k)
  <2>1. /\ file[k] # NoUpload => file[k] \in Uploads /\ call[file[k]] \in CallType
        /\ file[k] # NoUpload => CallShape(file[k])
        /\ FileShape(k)
    BY <1>1 DEF StorageInv, StorageTypeOK
  <2>. QED
    BY <2>1 DEF PartialInv, FileShape, CallShape, Stored, CallType, Running, Ended
<1>2. StorageInv => PartialIsUnanswered
  BY <1>1 DEF PartialIsUnanswered
<1>. QED  BY <1>2, StorageInvariance, PTL

-----------------------------------------------------------------------------
(* Storage implements AtomicUploads.                                       *)

(* The phase of a call at each of its steps.                               *)
LEMMA Phases ==
  ASSUME NEW c \in CallType, NEW local \in BOOLEAN
  PROVE  /\ c.pc = "idle" => PhaseOf(c, local) = "new"
         /\ c.pc = "answered" => PhaseOf(c, local) = "answered"
         /\ c.pc \in {"failed", "died"} => PhaseOf(c, local) = "failed"
         /\ c.pc = "opening" => PhaseOf(c, local) = "pending"
         /\ c.pc = "writing" => PhaseOf(c, local) =
              IF Whole(c) /\ local THEN "effective" ELSE "pending"
         /\ c.pc = "closing" => PhaseOf(c, local) =
              IF Whole(c) THEN "effective" ELSE "pending"
BY DEF PhaseOf

(* A call that moves moves its own phase; of another, only its being       *)
(* displaced may change, which is history.                                 *)
LEMMA PhaseMoves ==
  ASSUME NEW u \in Uploads, NEW c, call'[u] = c, UNCHANGED provider,
         \A v \in Uploads \ {u} :
           /\ call'[v].pc = call[v].pc /\ call'[v].key = call[v].key
           /\ call'[v].size = call[v].size /\ call'[v].written = call[v].written
  PROVE  /\ UploadPhase' = [UploadPhase EXCEPT ![u] = PhaseOf(c, Local)]
         /\ UploadKey' = [UploadKey EXCEPT ![u] = c.key]
<1>1. \A v \in Uploads \ {u} : PhaseOf(call'[v], Local') = PhaseOf(call[v], Local)
  BY DEF PhaseOf, Whole, Local
<1>2. PhaseOf(call'[u], Local') = PhaseOf(c, Local)
  BY DEF Local
<1>. QED  BY <1>1, <1>2 DEF UploadPhase, UploadKey

(* What a key names stays when the files do, and no call with a file gets  *)
(* whole.                                                                  *)
LEMMA WholeFileStays ==
  ASSUME UNCHANGED file,
         \A k \in Keys : file[k] # NoUpload =>
           (Whole(call'[file[k]]) <=> Whole(call[file[k]]))
  PROVE  UNCHANGED WholeFile
BY DEF WholeFile

(* When a key is given to another upload, or to none, what it names is     *)
(* that one if it is whole.                                                *)
LEMMA WholeFileMoves ==
  ASSUME NEW k \in Keys, NEW w, file'[k] = w,
         \A j \in Keys \ {k} :
           /\ file'[j] = file[j]
           /\ file[j] # NoUpload => (Whole(call'[file[j]]) <=> Whole(call[file[j]]))
  PROVE  WholeFile' = [WholeFile EXCEPT ![k] =
           IF w # NoUpload /\ Whole(call'[w]) THEN w ELSE NoUpload]
BY DEF WholeFile

(* An upload that fails has not been answered.                             *)
LEMMA FailureImplements ==
  ASSUME StorageInv, NEW u \in Uploads, call[u].pc \in Running,
         Goto(u, "failed"), UNCHANGED <<provider, file>>
  PROVE  Store!Next
<1>. DEFINE c == [call[u] EXCEPT !.pc = "failed"]
<1>1. call \in [Uploads -> CallType] /\ call[u] \in CallType /\ Local \in BOOLEAN
  BY DEF StorageInv, StorageTypeOK, Local
<1>2. /\ c \in CallType /\ c.pc = "failed" /\ c.key = call[u].key
      /\ c.size = call[u].size /\ c.written = call[u].written
  BY <1>1 DEF CallType, Ended
<1>3. call'[u] = c /\ \A v \in Uploads \ {u} : call'[v] = call[v]
  BY <1>1 DEF Goto
<1>. HIDE DEF c
<1>4. /\ UploadPhase' = [UploadPhase EXCEPT ![u] = "failed"]
      /\ UploadKey' = [UploadKey EXCEPT ![u] = call[u].key]
  BY <1>1, <1>2, <1>3, PhaseMoves, Phases
<1>5. UploadPhase[u] \in {"pending", "effective"}
  BY <1>1, Phases DEF UploadPhase, Running
<1>6. UNCHANGED WholeFile
  BY <1>2, <1>3, WholeFileStays DEF Whole, StorageInv, StorageTypeOK
<1>7. UNCHANGED UploadKey
  BY <1>4 DEF UploadKey
<1>8. UploadPhase' = [v \in Uploads |-> IF v \in {u} THEN "failed" ELSE UploadPhase[v]]
  BY <1>4 DEF UploadPhase
<1>9. Store!GiveUp({u})
  BY <1>5, <1>6, <1>7, <1>8 DEF Store!GiveUp, Local
<1>. QED  BY <1>9 DEF Store!Next

(* A call begins.                                                          *)
LEMMA UploadImplements ==
  ASSUME StorageInv, NEW u \in Uploads, NEW k \in Keys, NEW n \in 0 .. MaxChunks,
         Upload(u, k, n)
  PROVE  Store!Next
<1>. DEFINE c == [call[u] EXCEPT !.pc = IF Local THEN "opening" ELSE "writing",
                                 !.key = k, !.size = n]
<1>1. call \in [Uploads -> CallType] /\ call[u] \in CallType /\ Local \in BOOLEAN
  BY DEF StorageInv, StorageTypeOK, Local
<1>2. /\ c \in CallType /\ c.key = k
      /\ c.pc = IF Local THEN "opening" ELSE "writing"
  BY <1>1 DEF CallType, Running
<1>3. /\ call'[u] = c /\ \A v \in Uploads \ {u} : call'[v] = call[v]
      /\ call[u].pc = "idle" /\ UNCHANGED <<provider, file>>
  BY <1>1 DEF Upload
<1>. HIDE DEF c
<1>4. /\ UploadPhase' = [UploadPhase EXCEPT ![u] = "pending"]
      /\ UploadKey' = [UploadKey EXCEPT ![u] = k]
  BY <1>1, <1>2, <1>3, PhaseMoves, Phases
<1>5. UploadPhase[u] = "new"
  BY <1>1, <1>3, Phases DEF UploadPhase
<1>6. \A j \in Keys : file[j] # NoUpload => file[j] \in Uploads \ {u}
  BY <1>3 DEF StorageInv, StorageTypeOK, FileShape
<1>7. UNCHANGED WholeFile
  BY <1>3, <1>6, WholeFileStays DEF Whole
<1>8. Store!Begin(u, k)
  BY <1>3, <1>4, <1>5, <1>7 DEF Store!Begin, Local
<1>. QED  BY <1>8 DEF Store!Next

(* open: an empty file is whole at once, and there was none; any other     *)
(* file shows nothing yet.                                                 *)
LEMMA OpenImplements ==
  ASSUME StorageInv, NEW u \in Uploads, Open(u)
  PROVE  Store!Next \/ UNCHANGED Store!uploadVars
<1>. DEFINE c == [call[u] EXCEPT !.pc = "writing"]
            k == call[u].key
<1>0. /\ call \in [Uploads -> CallType] /\ call[u] \in CallType
      /\ Local \in BOOLEAN /\ file \in [Keys -> Uploads \cup {NoUpload}]
      /\ call[u].pc = "opening" /\ UNCHANGED provider /\ k \in Keys
  BY DEF StorageInv, StorageTypeOK, Open, CallType, Local
<1>1. CASE file[k] # NoUpload
  BY <1>0, <1>1, FailureImplements DEF Open, Running
<1>2. CASE file[k] = NoUpload
  <2>1. /\ c \in CallType /\ c.pc = "writing" /\ c.key = k
        /\ c.size = call[u].size /\ c.written = call[u].written
    BY <1>0 DEF CallType, Running
  <2>2. call'[u] = c /\ \A v \in Uploads \ {u} : call'[v] = call[v]
    BY <1>0, <1>2 DEF Open, Goto
  <2>3. file'[k] = u /\ \A j \in Keys \ {k} : file'[j] = file[j]
    BY <1>0, <1>2 DEF Open
  <2>4. UploadPhase[u] = "pending" /\ UploadKey[u] = k
    BY <1>0, Phases DEF UploadPhase, UploadKey
  <2>. HIDE DEF c, k
  <2>5. \A j \in Keys : file[j] # NoUpload => file[j] \in Uploads \ {u}
    BY <1>0 DEF StorageInv, FileShape
  <2>6. /\ UploadPhase' = [UploadPhase EXCEPT ![u] =
             IF Whole(c) /\ Local THEN "effective" ELSE "pending"]
        /\ UploadKey' = [UploadKey EXCEPT ![u] = k]
    BY <1>0, <2>1, <2>2, PhaseMoves, Phases
  <2>7. UNCHANGED <<Local, UploadKey>>
    BY <1>0, <2>4, <2>6 DEF UploadKey, Local
  <2>8. WholeFile[k] = NoUpload
    BY <1>0, <1>2 DEF WholeFile
  <2>9. WholeFile' = [WholeFile EXCEPT ![k] = IF Whole(c) THEN u ELSE NoUpload]
    BY <1>0, <2>2, <2>3, <2>5, WholeFileMoves
  <2>10. Local
    BY <1>0 DEF StorageInv, CallShape
  <2>11. CASE Whole(c)
    <3>1. Store!TakeEffect(u)
      BY <2>4, <2>6, <2>7, <2>8, <2>9, <2>10, <2>11 DEF Store!TakeEffect
    <3>. QED  BY <3>1 DEF Store!Next
  <2>12. CASE ~Whole(c)
    <3>1. UNCHANGED WholeFile
      BY <2>8, <2>9, <2>12 DEF WholeFile
    <3>2. UNCHANGED UploadPhase
      BY <2>4, <2>6, <2>12 DEF UploadPhase
    <3>. QED  BY <2>7, <3>1, <3>2 DEF Store!uploadVars
  <2>. QED  BY <2>11, <2>12
<1>. QED  BY <1>1, <1>2

(* The last chunk of a local body makes the file whole, under its key or,  *)
(* deleted meanwhile, under none; an object is not there yet.              *)
LEMMA WriteImplements ==
  ASSUME StorageInv, NEW u \in Uploads, WriteChunk(u)
  PROVE  Store!Next \/ UNCHANGED Store!uploadVars
<1>. DEFINE c == [call[u] EXCEPT !.written = @ + 1]
            k == call[u].key
<1>0. /\ call \in [Uploads -> CallType] /\ call[u] \in CallType
      /\ Local \in BOOLEAN /\ file \in [Keys -> Uploads \cup {NoUpload}]
      /\ call[u].pc = "writing" /\ UNCHANGED <<provider, file>> /\ k \in Keys
      /\ call[u].written < call[u].size
  BY DEF StorageInv, StorageTypeOK, CallShape, WriteChunk, CallType, Local
<1>1. /\ c \in CallType /\ c.pc = "writing" /\ c.key = k
  <2>1. call[u].written + 1 \in 0 .. MaxChunks
    BY <1>0 DEF CallType
  <2>. QED  BY <1>0, <2>1, CallTypes DEF CallType
<1>2. call'[u] = c /\ \A v \in Uploads \ {u} : call'[v] = call[v]
  BY <1>0 DEF WriteChunk
<1>3. UploadPhase[u] = "pending" /\ UploadKey[u] = k /\ ~Whole(call[u])
  <2>1. ~Whole(call[u])
    BY <1>0 DEF Whole, CallType
  <2>. QED  BY <1>0, <2>1, Phases DEF UploadPhase, UploadKey
<1>. HIDE DEF c
<1>4. /\ UploadPhase' = [UploadPhase EXCEPT ![u] =
           IF Whole(c) /\ Local THEN "effective" ELSE "pending"]
      /\ UploadKey' = [UploadKey EXCEPT ![u] = k]
  BY <1>0, <1>1, <1>2, PhaseMoves, Phases
<1>5. UNCHANGED <<Local, UploadKey>>
  BY <1>0, <1>3, <1>4 DEF UploadKey, Local
<1>. HIDE DEF k
<1>6. \A j \in Keys : file[j] = u => j = k
  BY DEF StorageInv, FileShape, k
<1>7. CASE file[k] = u
  <2>1. Local
    BY <1>0, <1>7 DEF StorageInv, FileShape
  <2>2. WholeFile[k] = NoUpload
    BY <1>0, <1>3, <1>7 DEF WholeFile
  <2>3. WholeFile' = [WholeFile EXCEPT ![k] = IF Whole(c) THEN u ELSE NoUpload]
    <3>1. \A j \in Keys \ {k} : file[j] # NoUpload => file[j] \in Uploads \ {u}
      BY <1>0, <1>6
    <3>2. file'[k] = u
      BY <1>0, <1>7
    <3>. QED  BY <1>0, <1>2, <3>1, <3>2, WholeFileMoves
  <2>4. CASE Whole(c)
    <3>1. Store!TakeEffect(u)
      BY <1>3, <1>4, <1>5, <2>1, <2>2, <2>3, <2>4 DEF Store!TakeEffect
    <3>. QED  BY <3>1 DEF Store!Next
  <2>5. CASE ~Whole(c)
    <3>1. UNCHANGED WholeFile
      BY <2>2, <2>3, <2>5 DEF WholeFile
    <3>2. UNCHANGED UploadPhase
      BY <1>3, <1>4, <2>5 DEF UploadPhase
    <3>. QED  BY <1>5, <3>1, <3>2 DEF Store!uploadVars
  <2>. QED  BY <2>4, <2>5
<1>8. CASE file[k] # u
  <2>1. UNCHANGED WholeFile
    <3>1. \A j \in Keys : file[j] # NoUpload => file[j] \in Uploads \ {u}
      BY <1>0, <1>6, <1>8
    <3>. QED  BY <1>0, <1>2, <3>1, WholeFileStays
  <2>2. CASE Whole(c) /\ Local
    <3>1. Store!TakeNoEffect(u)
      BY <1>3, <1>4, <1>5, <2>1, <2>2 DEF Store!TakeNoEffect
    <3>. QED  BY <3>1 DEF Store!Next
  <2>3. CASE ~(Whole(c) /\ Local)
    <3>1. UNCHANGED UploadPhase
      BY <1>3, <1>4, <2>3 DEF UploadPhase
    <3>. QED  BY <1>5, <2>1, <3>1 DEF Store!uploadVars
  <2>. QED  BY <2>2, <2>3
<1>. QED  BY <1>7, <1>8

(* The body is complete: a local file has been whole already, an object    *)
(* becomes what its key names.                                             *)
LEMMA FinishImplements ==
  ASSUME StorageInv, NEW u \in Uploads, Finish(u)
  PROVE  Store!Next \/ UNCHANGED Store!uploadVars
<1>. DEFINE c == [call[u] EXCEPT !.pc = "closing"]
            k == call[u].key
            d == [call EXCEPT ![u] = c]
<1>0. /\ call \in [Uploads -> CallType] /\ call[u] \in CallType
      /\ Local \in BOOLEAN /\ file \in [Keys -> Uploads \cup {NoUpload}]
      /\ call[u].pc = "writing" /\ UNCHANGED provider /\ k \in Keys
      /\ call[u].written = call[u].size
  BY DEF StorageInv, StorageTypeOK, Finish, CallType, Local
<1>1. /\ c \in CallType /\ c.pc = "closing" /\ c.key = k
      /\ c.size = call[u].size /\ c.written = call[u].written
  BY <1>0 DEF CallType, Running
<1>2. /\ IF Local THEN call' = d /\ UNCHANGED file
                  ELSE call' = Displaced(k, d) /\ file' = [file EXCEPT ![k] = u]
      /\ d[u] = c /\ d \in [Uploads -> CallType]
      /\ \A v \in Uploads \ {u} : d[v] = call[v]
  <2>1. [call EXCEPT ![u].pc = "closing"] = d
    BY <1>0
  <2>2. d[u] = c /\ d \in [Uploads -> CallType] /\ \A v \in Uploads \ {u} : d[v] = call[v]
    BY <1>0, <1>1
  <2>. QED  BY <2>1, <2>2 DEF Finish, Goto
<1>3. UploadKey[u] = k /\ Whole(c) /\ Whole(call[u])
  BY <1>0, <1>1 DEF UploadKey, Whole
<1>. HIDE DEF c, d, k
<1>4. CASE Local
  <2>1. UploadPhase[u] = "effective"
    BY <1>0, <1>3, <1>4, Phases DEF UploadPhase
  <2>2. /\ call'[u] = c /\ \A v \in Uploads \ {u} : call'[v] = call[v]
        /\ UNCHANGED file
    BY <1>2, <1>4
  <2>3. /\ UploadPhase' = [UploadPhase EXCEPT ![u] = "effective"]
        /\ UploadKey' = [UploadKey EXCEPT ![u] = k]
    BY <1>0, <1>1, <1>3, <2>2, PhaseMoves, Phases
  <2>4. UNCHANGED <<UploadPhase, UploadKey>>
    BY <1>3, <2>1, <2>3 DEF UploadPhase, UploadKey
  <2>5. UNCHANGED WholeFile
    BY <1>0, <1>3, <2>2, WholeFileStays
  <2>. QED  BY <1>0, <2>4, <2>5 DEF Store!uploadVars, Local
<1>5. CASE ~Local
  <2>1. \A j \in Keys : file[j] # u
    BY <1>0, <1>5 DEF StorageInv, FileShape
  <2>2. call'[u] = c
    BY <1>0, <1>2, <1>5, <2>1 DEF Displaced
  <2>3. \A v \in Uploads \ {u} :
          /\ call'[v].pc = call[v].pc /\ call'[v].key = call[v].key
          /\ call'[v].size = call[v].size /\ call'[v].written = call[v].written
    BY <1>0, <1>2, <1>5 DEF Displaced, CallType
  <2>4. UploadPhase[u] = "pending"
    BY <1>0, <1>5, Phases DEF UploadPhase
  <2>5. /\ UploadPhase' = [UploadPhase EXCEPT ![u] = "effective"]
        /\ UploadKey' = [UploadKey EXCEPT ![u] = k]
    BY <1>0, <1>1, <1>3, <2>2, <2>3, PhaseMoves, Phases
  <2>6. WholeFile' = [WholeFile EXCEPT ![k] = u]
    <3>1. file'[k] = u /\ \A j \in Keys \ {k} : file'[j] = file[j]
      BY <1>0, <1>2, <1>5
    <3>2. \A j \in Keys : file[j] # NoUpload => file[j] \in Uploads \ {u}
      BY <1>0, <2>1
    <3>3. \A v \in Uploads \ {u} : Whole(call'[v]) <=> Whole(call[v])
      BY <2>3 DEF Whole
    <3>4. WholeFile' = [WholeFile EXCEPT ![k] =
             IF u # NoUpload /\ Whole(call'[u]) THEN u ELSE NoUpload]
      BY <1>0, <3>1, <3>2, <3>3, WholeFileMoves
    <3>. QED  BY <1>3, <2>2, <3>4
  <2>7. UNCHANGED <<Local, UploadKey>>
    BY <1>0, <1>3, <2>5 DEF UploadKey, Local
  <2>8. Store!TakeEffect(u)
    BY <1>3, <1>5, <2>4, <2>5, <2>6, <2>7 DEF Store!TakeEffect
  <2>. QED  BY <2>8 DEF Store!Next
<1>. QED  BY <1>4, <1>5

(* An answer: the upload has taken effect.                                 *)
LEMMA AnswerImplements ==
  ASSUME StorageInv, NEW u \in Uploads, Stat(u) \/ Completed(u)
  PROVE  Store!Next
<1>0. /\ call \in [Uploads -> CallType] /\ call[u] \in CallType
      /\ Local \in BOOLEAN /\ call[u].pc = "closing" /\ UNCHANGED <<provider, file>>
      /\ Whole(call[u]) /\ file \in [Keys -> Uploads \cup {NoUpload}]
  BY DEF StorageInv, StorageTypeOK, CallShape, Stat, Completed, Local, Whole
<1>1. CASE Goto(u, "failed")
  BY <1>0, <1>1, FailureImplements DEF Running
<1>2. CASE ~Goto(u, "failed")
  <2>1. PICK told : call' = [call EXCEPT ![u].pc = "answered", ![u].told = told]
    <3>1. CASE Stat(u)
      BY <1>2, <3>1 DEF Stat
    <3>2. CASE Completed(u)
      <4>1. call' = [call EXCEPT ![u].pc = "answered"]
        BY <1>2, <3>2 DEF Completed, Goto
      <4>2. [call EXCEPT ![u].pc = "answered"] =
              [call EXCEPT ![u].pc = "answered", ![u].told = call[u].told]
        BY <1>0 DEF CallType
      <4>. QED  BY <4>1, <4>2
    <3>. QED  BY <3>1, <3>2
  <2>. DEFINE c == [call[u] EXCEPT !.pc = "answered", !.told = told]
  <2>2. call'[u] = c /\ \A v \in Uploads \ {u} : call'[v] = call[v]
    BY <1>0, <2>1
  <2>3. /\ c.pc = "answered" /\ c.key = call[u].key
        /\ c.size = call[u].size /\ c.written = call[u].written
    BY <1>0 DEF CallType
  <2>. HIDE DEF c
  <2>4. PhaseOf(c, Local) = "answered"
    BY <2>3 DEF PhaseOf
  <2>5. /\ UploadPhase' = [UploadPhase EXCEPT ![u] = "answered"]
        /\ UploadKey' = [UploadKey EXCEPT ![u] = call[u].key]
    BY <1>0, <2>2, <2>3, <2>4, PhaseMoves
  <2>6. UploadPhase[u] = "effective"
    BY <1>0, Phases DEF UploadPhase
  <2>7. UNCHANGED <<Local, UploadKey>>
    BY <1>0, <2>5 DEF UploadKey, Local
  <2>8. UNCHANGED WholeFile
    BY <1>0, <2>2, <2>3, WholeFileStays DEF Whole
  <2>9. Store!Answer(u)
    BY <2>5, <2>6, <2>7, <2>8 DEF Store!Answer
  <2>. QED  BY <2>9 DEF Store!Next
<1>. QED  BY <1>1, <1>2

(* A deletion takes away what a key names; part of a body is not.          *)
LEMMA DeleteImplements ==
  ASSUME StorageInv, NEW k \in Keys, Delete(k)
  PROVE  Store!Next
<1>1. /\ call \in [Uploads -> CallType] /\ UNCHANGED provider
      /\ file \in [Keys -> Uploads \cup {NoUpload}]
      /\ file'[k] = NoUpload /\ \A j \in Keys \ {k} : file'[j] = file[j]
  BY DEF StorageInv, StorageTypeOK, Delete
<1>2. \A v \in Uploads :
        /\ call'[v].pc = call[v].pc /\ call'[v].key = call[v].key
        /\ call'[v].size = call[v].size /\ call'[v].written = call[v].written
  BY <1>1 DEF Delete, Displaced, CallType
<1>3. UNCHANGED <<Local, UploadKey, UploadPhase>>
  BY <1>1, <1>2 DEF UploadKey, UploadPhase, PhaseOf, Whole, Local
<1>4. \A v \in Uploads : Whole(call'[v]) <=> Whole(call[v])
  BY <1>2 DEF Whole
<1>5. WholeFile' = [WholeFile EXCEPT ![k] = NoUpload]
  BY <1>1, <1>4, WholeFileMoves
<1>6. Store!Remove(k)
  BY <1>3, <1>5 DEF Store!Remove
<1>. QED  BY <1>6 DEF Store!Next

(* A crash gives up what runs; what is whole stays.                        *)
LEMMA CrashImplements ==
  ASSUME StorageInv, Crash
  PROVE  Store!Next
<1>. DEFINE U == {u \in Uploads : call[u].pc \in Running}
<1>1. /\ call \in [Uploads -> CallType] /\ UNCHANGED <<provider, file>>
      /\ file \in [Keys -> Uploads \cup {NoUpload}] /\ Local \in BOOLEAN
  BY DEF StorageInv, StorageTypeOK, Crash, Local
<1>2. \A u \in Uploads :
        /\ call'[u].key = call[u].key /\ call'[u].size = call[u].size
        /\ call'[u].written = call[u].written
        /\ call'[u].pc = IF u \in U THEN "died" ELSE call[u].pc
  BY <1>1 DEF Crash, CallType
<1>3. \A u \in U : UploadPhase[u] \in {"pending", "effective"}
  BY <1>1, Phases DEF UploadPhase, Running
<1>4. UploadPhase' = [u \in Uploads |-> IF u \in U THEN "failed" ELSE UploadPhase[u]]
  <2>1. \A u \in Uploads : PhaseOf(call'[u], Local') =
          IF u \in U THEN "failed" ELSE PhaseOf(call[u], Local)
    BY <1>1, <1>2 DEF PhaseOf, Whole, Local
  <2>. QED  BY <2>1 DEF UploadPhase
<1>5. UNCHANGED <<Local, UploadKey>>
  BY <1>1, <1>2 DEF UploadKey, Local
<1>6. UNCHANGED WholeFile
  BY <1>1, <1>2, WholeFileStays DEF Whole
<1>. HIDE DEF U
<1>7. U \in SUBSET Uploads
  BY DEF U
<1>8. Store!GiveUp(U)
  BY <1>3, <1>4, <1>5, <1>6 DEF Store!GiveUp
<1>. QED  BY <1>7, <1>8 DEF Store!Next

(* Either provider implements uploads that take effect at one moment, for  *)
(* any number of uploads and keys and bodies of any length.                *)
THEOREM UploadsAreAtomic == StorageSpec => ImplementsStore
<1>1. StorageInit => Store!Init
  <2>. SUFFICES ASSUME StorageInit PROVE Store!Init
    OBVIOUS
  <2>1. \A u \in Uploads : call[u] = Idle /\ Idle.pc = "idle" /\ Idle.key \in Keys
    BY DEF StorageInit, Idle
  <2>2. PhaseOf(Idle, Local) = "new"
    BY DEF PhaseOf, Idle
  <2>3. UploadKey \in [Uploads -> Keys] /\ UploadPhase = [u \in Uploads |-> "new"]
    BY <2>1, <2>2 DEF UploadKey, UploadPhase
  <2>4. WholeFile = [k \in Keys |-> NoUpload]
    BY DEF WholeFile, StorageInit
  <2>5. (~Local) \in BOOLEAN
    BY DEF Local
  <2>. QED  BY <2>3, <2>4, <2>5 DEF Store!Init
<1>2. StorageInv /\ [StorageNext]_storageVars => [Store!Next]_(Store!uploadVars)
  <2>. SUFFICES ASSUME StorageInv, [StorageNext]_storageVars
                PROVE  Store!Next \/ UNCHANGED Store!uploadVars
    OBVIOUS
  <2>1. CASE UNCHANGED storageVars
    BY <2>1 DEF storageVars, Store!uploadVars, UploadKey, UploadPhase, WholeFile, Local
  <2>2. ASSUME NEW u \in Uploads, Breaks(u) PROVE Store!Next
    BY <2>2, FailureImplements DEF Breaks, Running
  <2>. QED
    BY <2>1, <2>2, UploadImplements, OpenImplements, WriteImplements,
       FinishImplements, AnswerImplements, DeleteImplements, CrashImplements
       DEF StorageNext
<1>. QED
  BY <1>1, <1>2, StorageInvariance, PTL DEF StorageSpec, ImplementsStore, Store!Spec

=============================================================================
