----------------------------- MODULE UploadJobs -----------------------------
(***************************************************************************)
(* The life of an upload in pkd-management: the HTTP handlers that accept, *)
(* retry and delete a file, the uploaded_file row they keep, the slots of  *)
(* the processing threads, and the threads themselves.                     *)
(*                                                                         *)
(* What a thread does with the entries of its file is LdifBatch; here it   *)
(* parses, works and ends in a verdict.  What matters here of its work is  *)
(* the batch: while a thread has the query executor in batch mode, every   *)
(* executeCommand of the process goes through the batch's transaction, and *)
(* with it the rows of all the other uploads.  executeQuery never does.    *)
(***************************************************************************)
EXTENDS Integers, FiniteSets

CONSTANTS LdifFile, MlFile, CertFile,  \* the contents (hashes) that may be uploaded
          Upload,      \* the ids generateUploadId() may return
          Client,      \* the HTTP threads
          Uploader,    \* bound: the ones that files are uploaded on
          Worker,      \* the detached threads there may be at a time
          Slots,       \* MAX_CONCURRENT_PROCESSING
          MaxCrashes,  \* bound: crashes of the process in a behaviour
          None

File == LdifFile \cup MlFile \cup CertFile

ASSUME SlotsAssumption == Slots \in Nat \ {0}
ASSUME NoneAssumption == None \notin Upload \cup File
ASSUME UploaderAssumption == Uploader \subseteq Client
ASSUME WorkerAssumption == IsFiniteSet(Worker)
ASSUME CrashesAssumption == MaxCrashes \in Nat

VARIABLES row,         \* uploaded_file.status, committed; "none", "deleted" without a row
          view,        \* the same as the batch's transaction sees it
          batch,       \* batchMode_ and the state of its transaction
          file,        \* uploaded_file.file_hash
          disk,        \* the uploads whose file is under /app/uploads
          processing,  \* s_processingUploads
          active,      \* s_activeProcessingCount
          worker,      \* the processing threads that hold a slot
          loose,       \* the uploads a master list thread without a slot works on
          req,         \* where each HTTP thread is
          abandoned,   \* history: uploads nobody is going to finish
          crashes

store == <<row, view, batch, file, disk>>
slots == <<processing, active, worker>>
vars == <<store, slots, loose, req, abandoned, crashes>>

Status == {"PENDING", "PROCESSING", "COMPLETED", "FAILED"}
Stored(u) == row[u] \in Status
Open == {"PENDING", "PROCESSING"}

Idle == [pc |-> "idle", up |-> None, file |-> None]
Resting == [pc |-> "none", up |-> None]
Live(w) == worker[w].pc # "none"

Goto(c, l) == req' = [req EXCEPT ![c].pc = l]
Return(c) == req' = [req EXCEPT ![c] = Idle]

\* History: the uploads of S lost a write nobody repeats.
Lose(S) == abandoned' = {u \in abandoned \cup S : row'[u] \in Open \/ view'[u] \in Open}

\* executeCommand("UPDATE uploaded_file ..."), whose exceptions updateStatus
\* swallows. An aborted transaction refuses it; a deleted row is not there.
Put(u, s) ==
    LET written(r) == IF r[u] \in Status THEN [r EXCEPT ![u] = s] ELSE r IN
    /\ view' = IF batch = "aborted" THEN view ELSE written(view)
    /\ row' = IF batch = "off" THEN written(row) ELSE row
    /\ Lose(IF batch = "aborted" THEN {u} ELSE {})

findByFileHash(f) == {u \in Upload : Stored(u) /\ file[u] = f}

Init ==
    /\ row = [u \in Upload |-> "none"]
    /\ view = row
    /\ batch = "off"
    /\ file = [u \in Upload |-> None]
    /\ disk = {} /\ processing = {} /\ active = 0
    /\ worker = [w \in Worker |-> Resting]
    /\ loose = {}
    /\ req = [c \in Client |-> Idle]
    /\ abandoned = {}
    /\ crashes = 0

-----------------------------------------------------------------------------
(* Starting a processing thread, under s_processingMutex.                  *)

Skip(u) ==
    /\ u \in processing
    /\ abandoned' = IF view[u] = "PENDING" /\ \E w \in Worker : worker[w] = [pc |-> "leaving", up |-> u]
                    THEN abandoned \cup {u} ELSE abandoned
    /\ UNCHANGED <<row, view, slots>>

Busy(u) ==
    /\ u \notin processing
    /\ active >= Slots
    /\ Put(u, "FAILED")
    /\ UNCHANGED slots

\* Mutant of Take: one too many.
TakeOneMore(u) ==
    /\ u \notin processing
    /\ active <= Slots
    /\ processing' = processing \cup {u}
    /\ active' = active + 1
    /\ \E w \in Worker : ~Live(w)
    /\ worker' = [worker EXCEPT ![CHOOSE w \in Worker : ~Live(w)] = [pc |-> "parse", up |-> u]]
    /\ UNCHANGED <<row, view, abandoned>>

Take(u) ==
    /\ u \notin processing
    /\ active < Slots
    /\ processing' = processing \cup {u}
    /\ active' = active + 1
    /\ \E w \in Worker : ~Live(w)
    /\ worker' = [worker EXCEPT ![CHOOSE w \in Worker : ~Live(w)] = [pc |-> "parse", up |-> u]]
    /\ UNCHANGED <<row, view, abandoned>>

Trigger(u) == Skip(u) \/ Busy(u) \/ Take(u)

-----------------------------------------------------------------------------
(* POST /api/upload/ldif, /masterlist and /certificate.                    *)

\* The file is new, or its upload FAILED and the request says FORCE. Clearing
\* the old row's file_hash fails: "" is NULL to the executor and the column is
\* NOT NULL; updateFileHash only logs that.
Accept(c, f) ==
    /\ req[c] = Idle
    /\ \/ findByFileHash(f) = {}
       \/ f \notin CertFile /\ \E u \in findByFileHash(f) : row[u] = "FAILED"
    /\ req' = [req EXCEPT ![c] = [pc |-> "insert", up |-> None, file |-> f]]
    /\ UNCHANGED <<store, slots, loose, abandoned, crashes>>

\* An id nobody had before.
generateUploadId == CHOOSE u \in Upload : file[u] = None

Insert(c) ==
    LET f == req[c].file
        u == generateUploadId
    IN
    /\ req[c].pc = "insert"
    /\ \/ /\ \E v \in Upload : file[v] = None
          /\ batch # "aborted"
          /\ view' = [view EXCEPT ![u] = IF f \in CertFile THEN "PROCESSING" ELSE "PENDING"]
          /\ row' = IF batch = "off" THEN view' ELSE row
          /\ file' = [file EXCEPT ![u] = f]
          /\ req' = [req EXCEPT ![c] =
                      [pc |-> IF f \in CertFile THEN "certify" ELSE "save", up |-> u, file |-> f]]
       \/ Return(c) /\ UNCHANGED <<row, view, file>>
    /\ UNCHANGED <<batch, disk, slots, loose, abandoned, crashes>>

\* The certificate path works on the HTTP thread and stores no file.
Certify(c) ==
    LET u == req[c].up IN
    /\ req[c].pc = "certify"
    /\ \E s \in {"COMPLETED", "FAILED"} : Put(u, s)
    /\ Return(c)
    /\ UNCHANGED <<batch, file, disk, slots, loose, crashes>>

\* An LDIF is triggered by uploadLdif and once more by handleUploadLdif.
Save(c) ==
    LET u == req[c].up IN
    /\ req[c].pc = "save"
    /\ \/ /\ disk' = disk \cup {u}
          /\ Goto(c, IF req[c].file \in LdifFile THEN "trigger" ELSE "spawn")
          /\ UNCHANGED <<row, view, abandoned>>
       \/ /\ Put(u, "FAILED")
          /\ Return(c)
          /\ UNCHANGED disk
    /\ UNCHANGED <<batch, file, slots, loose, crashes>>

FirstTrigger(c) ==
    /\ req[c].pc = "trigger"
    /\ Trigger(req[c].up)
    /\ Goto(c, "again")
    /\ UNCHANGED <<batch, file, disk, loose, crashes>>

SecondTrigger(c) ==
    /\ req[c].pc = "again"
    /\ Trigger(req[c].up)
    /\ Return(c)
    /\ UNCHANGED <<batch, file, disk, loose, crashes>>

\* A master list gets a thread of its own, outside the slots.
Spawn(c) ==
    /\ req[c].pc = "spawn"
    /\ loose' = loose \cup {req[c].up}
    /\ Return(c)
    /\ UNCHANGED <<store, slots, abandoned, crashes>>

LooseDone(u) ==
    /\ u \in loose
    /\ loose' = loose \ {u}
    /\ Put(u, "COMPLETED")
    /\ UNCHANGED <<batch, file, disk, slots, req, crashes>>

\* The handler only reports the failure to the browser.
LooseFails(u) ==
    /\ u \in loose
    /\ loose' = loose \ {u}
    /\ UNCHANGED <<store, slots, req, crashes>>
    /\ Lose({u})

-----------------------------------------------------------------------------
(* POST /api/upload/{id}/retry and DELETE /api/upload/{id}.                *)

\* Mutant of Retry: an upload in any state.
RetryAny(c, u) ==
    /\ req[c] = Idle
    /\ Stored(u) /\ u \in disk
    /\ req' = [req EXCEPT ![c] = [pc |-> "reset", up |-> u, file |-> file[u]]]
    /\ UNCHANGED <<store, slots, loose, abandoned, crashes>>

Retry(c, u) ==
    /\ req[c] = Idle
    /\ row[u] = "FAILED" /\ u \in disk
    /\ req' = [req EXCEPT ![c] = [pc |-> "reset", up |-> u, file |-> file[u]]]
    /\ UNCHANGED <<store, slots, loose, abandoned, crashes>>

Reset(c) ==
    /\ req[c].pc = "reset"
    /\ Put(req[c].up, "PENDING")
    /\ Goto(c, "retrigger")
    /\ UNCHANGED <<batch, file, disk, slots, loose, crashes>>

Retrigger(c) ==
    /\ req[c].pc = "retrigger"
    /\ Trigger(req[c].up)
    /\ Return(c)
    /\ UNCHANGED <<batch, file, disk, loose, crashes>>

\* Neither the status nor the thread is looked at, and the file stays.
Delete(c, u) ==
    /\ req[c] = Idle
    /\ view[u] \in Status
    /\ Put(u, "deleted")
    /\ UNCHANGED <<batch, file, disk, slots, loose, req, crashes>>

-----------------------------------------------------------------------------
(* The processing threads.                                                 *)

WorkerGoto(w, l) == worker' = [worker EXCEPT ![w].pc = l]

workerRest == <<file, disk, processing, active, loose, req, crashes>>

Parse(w) ==
    /\ worker[w].pc = "parse"
    /\ Put(worker[w].up, "PROCESSING")
    /\ WorkerGoto(w, "begin")
    /\ UNCHANGED <<batch, workerRest>>

\* beginBatch: nothing when somebody is in batch mode, and nothing without a
\* connection.
Begin(w) ==
    /\ worker[w].pc = "begin"
    /\ \/ batch = "off" /\ batch' = "on"
       \/ batch' = batch
    /\ WorkerGoto(w, "work")
    /\ UNCHANGED <<row, view, abandoned, workerRest>>

\* A statement fails and the transaction with it: what was pending is void.
Abort ==
    /\ batch = "on"
    /\ batch' = "aborted"
    /\ view' = row
    /\ row' = row
    /\ Lose({u \in Upload : view[u] # row[u]})
    /\ UNCHANGED <<slots, workerRest>>

\* endBatch, whoever began the batch. COMMIT of an aborted transaction is a
\* rollback the code takes for a success.
End(w, l) ==
    /\ worker[w].pc = "work"
    /\ row' = view
    /\ view' = view
    /\ batch' = "off"
    /\ Lose({})
    /\ WorkerGoto(w, l)
    /\ UNCHANGED workerRest

\* Mutant of Verdict: a catch block that only reports.
VerdictReported(w, s) ==
    /\ <<worker[w].pc, s>> \in
            {<<"parse", "FAILED">>, <<"begin", "FAILED">>, <<"ended", "COMPLETED">>}
    /\ IF s = "FAILED" THEN UNCHANGED <<row, view, abandoned>> ELSE Put(worker[w].up, s)
    /\ WorkerGoto(w, "leaving")
    /\ UNCHANGED <<batch, workerRest>>

\* The last thing written: COMPLETED by the strategy, FAILED by the catch block
\* when the file does not parse or a batch does not begin.
Verdict(w, s) ==
    /\ <<worker[w].pc, s>> \in
            {<<"parse", "FAILED">>, <<"begin", "FAILED">>, <<"ended", "COMPLETED">>}
    /\ Put(worker[w].up, s)
    /\ WorkerGoto(w, "leaving")
    /\ UNCHANGED <<batch, workerRest>>

\* Mutant of Release: half of the guard's destructor.
ReleaseListed(w) ==
    /\ worker[w].pc = "leaving"
    /\ active' = active - 1
    /\ worker' = [worker EXCEPT ![w] = Resting]
    /\ UNCHANGED <<processing, store, loose, req, abandoned, crashes>>

\* ~ProcessingSlotGuard, after the verdict and clearProgress.
Release(w) ==
    /\ worker[w].pc = "leaving"
    /\ processing' = processing \ {worker[w].up}
    /\ active' = active - 1
    /\ worker' = [worker EXCEPT ![w] = Resting]
    /\ UNCHANGED <<store, loose, req, abandoned, crashes>>

\* The process dies; nothing looks for half-done uploads when it comes back.
Crash ==
    /\ crashes < MaxCrashes
    /\ crashes' = crashes + 1
    /\ processing' = {} /\ active' = 0
    /\ worker' = [w \in Worker |-> Resting]
    /\ loose' = {}
    /\ req' = [c \in Client |-> Idle]
    /\ row' = row /\ view' = row /\ batch' = "off"
    /\ Lose(Upload)
    /\ UNCHANGED <<file, disk>>

-----------------------------------------------------------------------------

ClientStep(c) ==
    Insert(c) \/ Certify(c) \/ Save(c) \/ FirstTrigger(c) \/ SecondTrigger(c)
              \/ Spawn(c) \/ Reset(c) \/ Retrigger(c)

\* Every 500 entries the batch is ended and begun again.
Finish(w) == End(w, "ended")
WorkerStep(w) ==
    \/ Parse(w) \/ Begin(w) \/ End(w, "begin") \/ Finish(w) \/ Release(w)
    \/ \E s \in {"COMPLETED", "FAILED"} : Verdict(w, s)

LooseStep(u) == LooseDone(u) \/ LooseFails(u)

Next ==
    \/ \E c \in Uploader, f \in File : Accept(c, f)
    \/ \E c \in Client, u \in Upload : Retry(c, u) \/ Delete(c, u)
    \/ \E c \in Client : ClientStep(c)
    \/ \E w \in Worker : WorkerStep(w)
    \/ \E u \in Upload : LooseStep(u)
    \/ Abort \/ Crash

\* A request that was accepted and a thread that runs go on, and a file has an
\* end; nobody need retry.
Fairness ==
    /\ \A c \in Client : WF_vars(ClientStep(c))
    /\ \A w \in Worker : WF_vars(WorkerStep(w)) /\ SF_vars(Finish(w))
    /\ \A u \in Upload : WF_vars(LooseStep(u))

Spec == Init /\ [][Next]_vars /\ Fairness

-----------------------------------------------------------------------------

TypeOK ==
    /\ row \in [Upload -> Status \cup {"none", "deleted"}]
    /\ view \in [Upload -> Status \cup {"none", "deleted"}]
    /\ batch \in {"off", "on", "aborted"}
    /\ batch # "on" => view = row
    /\ file \in [Upload -> File \cup {None}]
    /\ disk \subseteq Upload /\ processing \subseteq Upload
    /\ active \in Nat
    /\ worker \in [Worker -> [pc : {"none", "parse", "begin", "work", "ended", "leaving"}, up : Upload \cup {None}]]
    /\ loose \subseteq Upload
    /\ req \in [Client -> [pc : {"idle", "insert", "certify", "save", "trigger", "again", "spawn",
                                 "reset", "retrigger"},
                           up : Upload \cup {None}, file : File \cup {None}]]
    /\ abandoned \subseteq Upload
    /\ crashes \in 0..MaxCrashes

\* The set, the counter and the threads agree: a slot is neither leaked nor
\* given twice, on any path out of a processing thread.
SlotsExact ==
    /\ processing = {worker[w].up : w \in {v \in Worker : Live(v)}}
    /\ active = Cardinality({w \in Worker : Live(w)})
    /\ active <= Slots

\* No two threads process an upload at a time, the ones without a slot included:
\* a retry never starts beside the thread that failed.
OneThread ==
    /\ \A v, w \in Worker : Live(v) /\ Live(w) /\ worker[v].up = worker[w].up => v = w
    /\ loose \cap processing = {}

\* A batch is ended by a thread that is still at its file: no transaction, and
\* no connection of the pool, is left behind by a thread that failed.
BatchHasThread == batch # "off" => \E w \in Worker : worker[w].pc = "work"

\* Who may still bring the upload to an end.
HasActor(u) ==
    \/ \E c \in Client : req[c].up = u /\ req[c].pc \notin {"idle", "insert", "reset"}
    \/ \E w \in Worker : worker[w].up = u /\ worker[w].pc \notin {"none", "leaving"}
    \/ u \in loose
    \/ batch = "on" /\ view[u] \notin Open

\* A row that says PENDING or PROCESSING has somebody working towards a verdict;
\* the exceptions are the ones the history names: a crash, a retry that met the
\* thread of the failed attempt before it gave its slot back, a master list
\* thread that failed, and a write lost with the transaction it was put in.
UnsettledHasActor == \A u \in Upload : row[u] \in Open => HasActor(u) \/ u \in abandoned

\* Such an upload reaches COMPLETED or FAILED, or is deleted.
EventuallySettled ==
    \A u \in Upload : row[u] \in Open ~> row[u] \notin Open \/ u \in abandoned

\* What the slots promise, see SlotContract.
Contract == INSTANCE SlotContract WITH
    Thread <- Worker,
    serves <- {<<w, worker[w].up>> : w \in {v \in Worker : Live(v)}}
SlotsSpec == Contract!Spec

\* An upload that is COMPLETED is done with.
CompletedIsFinal ==
    [][\A u \in Upload : row[u] = "COMPLETED" => row'[u] \in {"COMPLETED", "deleted"}]_row
=============================================================================
