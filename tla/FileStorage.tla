----------------------------- MODULE FileStorage -----------------------------
(***************************************************************************)
(* infrastructure/storage: concurrent uploads and deletes of keys through  *)
(* one of the two storage providers.  The local provider opens a file with *)
(* `wx', writes it chunk by chunk and then asks for the size of whatever   *)
(* the path names; the S3 provider sends parts and completes them into an  *)
(* object at once, in place of the one before.  Keys are inside the root.  *)
(***************************************************************************)
EXTENDS Integers

CONSTANTS
  Uploads,    \* calls of upload, each of them made once
  Keys,
  Providers,  \* which providers the process may be configured with
  MaxChunks,  \* bound on the length of a body
  NoUpload

VARIABLES
  provider,  \* constant once the process runs
  file,      \* the upload whose file, or object, each key names
  call       \* the state of each upload, and of the file it opened

storageVars == <<provider, file, call>>

ASSUME NoUploadAssumption == NoUpload \notin Uploads
ASSUME ProviderAssumption == Providers \subseteq {"local", "s3"}
ASSUME ChunkAssumption == MaxChunks \in Nat
ASSUME KeyAssumption == Keys # {}

(* "opening": awaits mkdir and open; "writing": the pipeline runs;         *)
(* "closing": awaits stat, or the answer to the completed upload.          *)
Running == {"opening", "writing", "closing"}
Ended == {"answered", "failed", "died"}

NoSize == -1
(* `size' is what the source will deliver, `told' the size in the answer;  *)
(* `displaced' is history: the file was there and has been deleted, or     *)
(* replaced, since.                                                        *)
CallType ==
  [pc : {"idle"} \cup Running \cup Ended, key : Keys, size : 0 .. MaxChunks,
   written : 0 .. MaxChunks, told : {NoSize} \cup 0 .. MaxChunks,
   displaced : BOOLEAN]

Idle == [pc |-> "idle", key |-> CHOOSE k \in Keys : TRUE, size |-> 0,
         written |-> 0, told |-> NoSize, displaced |-> FALSE]

StorageInit ==
  /\ provider \in Providers
  /\ file = [k \in Keys |-> NoUpload]
  /\ call = [u \in Uploads |-> Idle]

Local == provider = "local"

-----------------------------------------------------------------------------
Goto(u, pc) == call' = [call EXCEPT ![u].pc = pc]

(* The file of a key goes; c: what else becomes of the calls.              *)
Displaced(k, c) ==
  [u \in Uploads |-> IF u = file[k] THEN [c[u] EXCEPT !.displaced = TRUE]
                                    ELSE c[u]]

Upload(u, k, n) ==
  /\ call[u].pc = "idle"
  /\ call' = [call EXCEPT ![u].pc = IF Local THEN "opening" ELSE "writing",
                          ![u].key = k, ![u].size = n]
  /\ UNCHANGED <<provider, file>>

Truncating(u) == \* fault: flags 'w'
  /\ call[u].pc = "opening"
  /\ file' = [file EXCEPT ![call[u].key] = u]
  /\ Goto(u, "writing")
  /\ UNCHANGED provider

(* O_CREAT and O_EXCL: the file is there already, or becomes this call's.  *)
Open(u) ==
  LET k == call[u].key IN
  /\ call[u].pc = "opening"
  /\ IF file[k] = NoUpload
       THEN file' = [file EXCEPT ![k] = u] /\ Goto(u, "writing")
       ELSE Goto(u, "failed") /\ UNCHANGED file
  /\ UNCHANGED provider

WriteChunk(u) ==
  /\ call[u].pc = "writing" /\ call[u].written < call[u].size
  /\ call' = [call EXCEPT ![u].written = @ + 1]
  /\ UNCHANGED <<provider, file>>

(* The directory, the source, the disk or the service fails: the local     *)
(* file stays as it is, the parts of a multipart upload are discarded.     *)
Swallows(u) == \* fault: upload does not await the pipeline
  /\ call[u].pc \in {"opening", "writing"}
  /\ Goto(u, "closing")
  /\ UNCHANGED <<provider, file>>

Breaks(u) ==
  /\ call[u].pc \in {"opening", "writing"}
  /\ Goto(u, "failed")
  /\ UNCHANGED <<provider, file>>

Finish(u) ==
  LET k == call[u].key IN
  /\ call[u].pc = "writing" /\ call[u].written = call[u].size
  /\ IF Local
       THEN Goto(u, "closing") /\ UNCHANGED file
       ELSE /\ file' = [file EXCEPT ![k] = u]
            /\ call' = Displaced(k, [call EXCEPT ![u].pc = "closing"])
  /\ UNCHANGED provider

(* stat, of whatever file has the path now.                                *)
Stat(u) ==
  LET f == file[call[u].key] IN
  /\ Local /\ call[u].pc = "closing"
  /\ IF f = NoUpload
       THEN Goto(u, "failed")
       ELSE call' = [call EXCEPT ![u].pc = "answered",
                                 ![u].told = call[f].written]
  /\ UNCHANGED <<provider, file>>

(* The answer of S3 to a completed upload, which can be lost.              *)
Completed(u) ==
  /\ ~Local /\ call[u].pc = "closing"
  /\ Goto(u, "answered") \/ Goto(u, "failed")
  /\ UNCHANGED <<provider, file>>

(* unlink, or DeleteObject: a local upload that still writes goes on.      *)
Delete(k) ==
  /\ file[k] # NoUpload
  /\ file' = [file EXCEPT ![k] = NoUpload]
  /\ call' = Displaced(k, call)
  /\ UNCHANGED provider

(* The process dies and starts again; the disk and the bucket remain.      *)
Crash ==
  /\ \E u \in Uploads : call[u].pc \in Running
  /\ call' = [u \in Uploads |->
       IF call[u].pc \in Running THEN [call[u] EXCEPT !.pc = "died"]
                                 ELSE call[u]]
  /\ UNCHANGED <<provider, file>>

StorageNext ==
  \/ \E u \in Uploads, k \in Keys, n \in 0 .. MaxChunks : Upload(u, k, n)
  \/ \E u \in Uploads :
       \/ Open(u)
       \/ WriteChunk(u)
       \/ Breaks(u)
       \/ Finish(u)
       \/ Stat(u)
       \/ Completed(u)
  \/ \E k \in Keys : Delete(k)
  \/ Crash

StorageSpec == StorageInit /\ [][StorageNext]_storageVars

-----------------------------------------------------------------------------
(* Every variable holds a value of its type.                               *)
StorageTypeOK ==
  /\ provider \in Providers
  /\ file \in [Keys -> Uploads \cup {NoUpload}]
  /\ call \in [Uploads -> CallType]

(* The file of an upload is under its key from the moment it is opened (or *)
(* the object completed) until it is displaced, and an upload that got to  *)
(* its end has written all it was given.                                   *)
Stored(u) == IF Local THEN {"writing", "closing", "answered"}
                      ELSE {"closing", "answered"}
CallShape(u) ==
  /\ call[u].pc \in Stored(u) => file[call[u].key] = u \/ call[u].displaced
  /\ call[u].displaced => call[u].pc \in Stored(u) \cup {"failed", "died"}
  /\ call[u].pc = "opening" => Local
  /\ call[u].pc \in {"closing", "answered"} => call[u].written = call[u].size
  /\ Local /\ call[u].pc = "answered" /\ ~call[u].displaced =>
       call[u].told = call[u].size
FileShape(k) ==
  LET u == file[k] IN
  u # NoUpload =>
    /\ call[u].key = k /\ ~call[u].displaced
    /\ call[u].pc \notin {"idle", "opening"}
    /\ ~Local => call[u].pc # "writing" /\ call[u].written = call[u].size

(* The inductive strengthening: which calls have a file or an object, and  *)
(* how far each call is that a key names.                                  *)
StorageInv ==
  /\ StorageTypeOK
  /\ \A u \in Uploads : CallShape(u)
  /\ \A k \in Keys : FileShape(k)

(* What upload answers is true: the key names the whole body, and a local  *)
(* answer gives its size, unless the file has been deleted, or an object   *)
(* replaced, since it was there (LocalStorageProvider.ts:26-32).           *)
AnswerInv(u) ==
  call[u].pc = "answered" /\ ~call[u].displaced =>
    /\ file[call[u].key] = u
    /\ call[u].written = call[u].size
    /\ Local => call[u].told = call[u].size
AnsweredIsStored == \A u \in Uploads : AnswerInv(u)

(* Part of a body is seen under a key only of the local provider, and only *)
(* while its upload writes or after it failed or died; the file of an      *)
(* upload that failed stays, and refuses the next upload of its key.       *)
PartialInv(k) ==
  LET u == file[k] IN
  u # NoUpload /\ call[u].written < call[u].size =>
    Local /\ call[u].pc \in {"writing", "failed", "died"}
PartialIsUnanswered == \A k \in Keys : PartialInv(k)

-----------------------------------------------------------------------------
(* Storage as an implementation of the abstract promise: an upload takes   *)
(* effect when its file, or its object, is whole.                          *)
Whole(c) == c.written = c.size
PhaseOf(c, local) ==
  CASE c.pc = "idle"                           -> "new"
    [] c.pc = "answered"                       -> "answered"
    [] c.pc \in {"failed", "died"}             -> "failed"
    [] c.pc = "closing" /\ Whole(c)            -> "effective"
    [] c.pc = "writing" /\ Whole(c) /\ local   -> "effective"
    [] OTHER                                   -> "pending"

UploadKey == [u \in Uploads |-> call[u].key]
UploadPhase == [u \in Uploads |-> PhaseOf(call[u], Local)]
WholeFile == [k \in Keys |->
  IF file[k] # NoUpload /\ Whole(call[file[k]]) THEN file[k] ELSE NoUpload]

Store == INSTANCE AtomicUploads WITH
  replaces <- ~Local, key <- UploadKey, phase <- UploadPhase, holds <- WholeFile

(* However uploads, deletes, failures and crashes race, an upload that is  *)
(* answered has taken effect at one moment, all of it, and it never takes  *)
(* the place of another with the local provider, whose open asks for `wx'. *)
ImplementsStore == Store!Spec

=============================================================================
