-------------------------- MODULE UploadJobsProofs --------------------------
(***************************************************************************)
(* The processing slots of pkd-management for any number of uploads,       *)
(* requests and threads: the slot set, the counter and the threads agree,  *)
(* and no two threads work on one upload. Then what the threads of LDIF    *)
(* files write: no entry is forgotten, and what is noted of one is true.   *)
(* In the end what is said of an upload (UploadReports): its numbers are   *)
(* those of the rows it brought, and the summary of all uploads adds up.   *)
(***************************************************************************)
EXTENDS UploadJobs, LdifBatch, UploadReports, FiniteSetTheorems, WellFoundedInduction, TLAPS

RowState == Status \cup {"none", "deleted"}
WorkerPc == {"none", "parse", "begin", "work", "ended", "leaving"}
ReqPc == {"idle", "insert", "certify", "save", "trigger", "again", "spawn", "reset", "retrigger"}
LiveSet == {v \in Worker : Live(v)}

\* What is written with every status.
StoreOK ==
    /\ row \in [Upload -> RowState]
    /\ view \in [Upload -> RowState]
    /\ batch \in {"off", "on", "aborted"}
    /\ batch # "on" => view = row
    /\ abandoned \subseteq Upload

\* The slots; a thread that runs has an upload, and two have two.
SlotOK ==
    /\ worker \in [Worker -> [pc : WorkerPc, up : Upload \cup {None}]]
    /\ processing = {worker[w].up : w \in LiveSet}
    /\ active = Cardinality(LiveSet)
    /\ active <= Slots
    /\ \A w \in Worker : Live(w) => worker[w].up \in Upload
    /\ \A v, w \in Worker : Live(v) /\ Live(w) /\ worker[v].up = worker[w].up => v = w

\* A request beyond the insert has an upload, one before it a file.
ReqOK ==
    /\ req \in [Client -> [pc : ReqPc, up : Upload \cup {None}, file : File \cup {None}]]
    /\ \A c \in Client : req[c].pc \in {"idle", "insert"} => req[c].up = None
    /\ \A c \in Client : req[c].pc \notin {"idle", "insert"} => req[c].up \in Upload
    /\ \A c \in Client : req[c].pc = "insert" => req[c].file \in File

RestOK ==
    /\ file \in [Upload -> File \cup {None}]
    /\ disk \subseteq Upload /\ loose \subseteq Upload
    /\ crashes \in 0..MaxCrashes

SafeInv == StoreOK /\ SlotOK /\ ReqOK /\ RestOK

\* A request at one of these is the only one about its upload.
FreshPc == {"certify", "save", "spawn"}

\* Nobody may retry u, and no thread has a slot for it.
Quiet(u) == row[u] # "FAILED" /\ view[u] # "FAILED" /\ u \notin processing

\* Why no retry meets a master list thread: its upload does not FAIL while it runs,
\* nor before it starts, and nobody else has the upload in hand.
AloneInv ==
    /\ \A u \in loose : Quiet(u) /\ \A c \in Client : req[c].up # u
    /\ \A c \in Client : req[c].pc \in FreshPc =>
           /\ Quiet(req[c].up) /\ req[c].up \notin loose
           /\ \A d \in Client : d # c => req[d].up # req[c].up
    /\ \A u \in Upload : file[u] = None =>
           /\ row[u] = "none" /\ view[u] = "none"
           /\ u \notin processing /\ u \notin loose
           /\ \A c \in Client : req[c].up # u

Inv == SafeInv /\ AloneInv

\* At most as many threads as there are workers.
LEMMA LiveFinite == IsFiniteSet(LiveSet) /\ Cardinality(LiveSet) \in Nat
<1>1. LiveSet \in SUBSET Worker
    BY DEF LiveSet
<1> QED
    BY <1>1, WorkerAssumption, FS_Subset, FS_CardinalityType

LEMMA InitSafe == Init => SafeInv
<1> SUFFICES ASSUME Init PROVE SafeInv
    OBVIOUS
<1> USE DEF Init
<1>1. LiveSet = {}
    BY DEF LiveSet, Live, Resting
<1>2. StoreOK
    BY DEF StoreOK, RowState
<1>3. SlotOK
    BY <1>1, FS_EmptySet, SlotsAssumption DEF SlotOK, WorkerPc, Resting, Live
<1>4. ReqOK
    BY DEF ReqOK, ReqPc, Idle
<1>5. RestOK
    BY CrashesAssumption DEF RestOK
<1> QED
    BY <1>2, <1>3, <1>4, <1>5 DEF SafeInv

\* A status that is written concerns one upload, in the transaction and, without
\* one, at once.
LEMMA PutKeeps ==
    ASSUME StoreOK, NEW u \in Upload, NEW s \in Status \cup {"deleted"}, Put(u, s),
           batch' = batch
    PROVE  /\ StoreOK'
           /\ \A v \in Upload : v # u => row'[v] = row[v] /\ view'[v] = view[v]
           /\ row'[u] \in {row[u], s} /\ view'[u] \in {view[u], s}
           /\ row[u] = "none" => row'[u] = "none"
           /\ view[u] = "none" => view'[u] = "none"
<1> DEFINE written(r) == IF r[u] \in Status THEN [r EXCEPT ![u] = s] ELSE r
<1>1. /\ view' = IF batch = "aborted" THEN view ELSE written(view)
      /\ row' = IF batch = "off" THEN written(row) ELSE row
    BY DEF Put
<1>2. abandoned' \subseteq Upload
    BY DEF Put, Lose, StoreOK
<1>3. \A r \in [Upload -> RowState] :
          /\ written(r) \in [Upload -> RowState]
          /\ \A v \in Upload : v # u => written(r)[v] = r[v]
          /\ written(r)[u] \in {r[u], s}
          /\ r[u] = "none" => written(r)[u] = "none"
    BY DEF RowState, Status
<1> HIDE DEF written
<1>4. row \in [Upload -> RowState] /\ view \in [Upload -> RowState]
    BY DEF StoreOK
<1>5. batch' # "on" => view' = row'
    BY <1>1 DEF StoreOK
<1> QED
    BY <1>1, <1>2, <1>3, <1>4, <1>5 DEF StoreOK

\* Steps that leave worker, processing and active alone.
LEMMA SlotsKept == ASSUME SlotOK, UNCHANGED slots PROVE SlotOK'
BY DEF SlotOK, slots, LiveSet, Live

\* A thread of the slots that goes on keeps its slot.
LEMMA GotoKeeps ==
    ASSUME SlotOK, NEW w \in Worker, Live(w), NEW l \in WorkerPc \ {"none"},
           WorkerGoto(w, l), UNCHANGED <<processing, active>>
    PROVE  SlotOK'
<1>1. worker' = [worker EXCEPT ![w].pc = l]
    BY DEF WorkerGoto
<1>2. worker' \in [Worker -> [pc : WorkerPc, up : Upload \cup {None}]]
    BY <1>1 DEF SlotOK
<1>3. \A v \in Worker : worker'[v].up = worker[v].up /\ (Live(v)' <=> Live(v))
    BY <1>1 DEF SlotOK, Live
<1>4. LiveSet' = LiveSet
    BY <1>3 DEF LiveSet
<1>5. processing' = {worker'[v].up : v \in LiveSet'}
    BY <1>3, <1>4 DEF SlotOK, LiveSet
<1> QED
    BY <1>2, <1>3, <1>4, <1>5 DEF SlotOK

\* A trigger gives an upload a slot only if it has none and one is free.
LEMMA TakeKeeps ==
    ASSUME SlotOK, NEW u \in Upload, Take(u)
    PROVE  SlotOK' /\ processing' = processing \cup {u}
<1>1. PICK w \in Worker : ~Live(w) /\ worker' = [worker EXCEPT ![w] = [pc |-> "parse", up |-> u]]
    BY DEF Take
<1>2. worker' \in [Worker -> [pc : WorkerPc, up : Upload \cup {None}]]
    BY <1>1 DEF SlotOK, WorkerPc
<1>3. /\ worker'[w].up = u /\ Live(w)'
      /\ \A v \in Worker : v # w => worker'[v] = worker[v] /\ (Live(v)' <=> Live(v))
    BY <1>1 DEF SlotOK, Live
<1>4. LiveSet' = LiveSet \cup {w} /\ w \notin LiveSet
    BY <1>1, <1>3 DEF LiveSet
<1>5. Cardinality(LiveSet') = Cardinality(LiveSet) + 1
    BY <1>4, LiveFinite, FS_AddElement
<1>6. active' = Cardinality(LiveSet') /\ active' <= Slots
    BY <1>5, LiveFinite, SlotsAssumption DEF Take, SlotOK
<1>7. processing' = processing \cup {u} /\ u \notin processing
    BY DEF Take
<1>8. processing' = {worker'[v].up : v \in LiveSet'}
    BY <1>1, <1>3, <1>4, <1>7 DEF SlotOK, LiveSet
<1>9. \A v \in Worker : Live(v) => worker[v].up # u
    BY <1>7 DEF SlotOK, LiveSet
<1>10. \A v, x \in Worker : Live(v)' /\ Live(x)' /\ worker'[v].up = worker'[x].up => v = x
    BY <1>1, <1>3, <1>9 DEF SlotOK
<1>11. \A v \in Worker : Live(v)' => worker'[v].up \in Upload
    BY <1>3 DEF SlotOK
<1> QED
    BY <1>2, <1>6, <1>7, <1>8, <1>10, <1>11 DEF SlotOK

\* A thread that leaves takes its upload off the set and one off the count.
LEMMA ReleaseKeeps ==
    ASSUME SlotOK, NEW w \in Worker, Release(w)
    PROVE  SlotOK' /\ processing' \subseteq processing
<1>1. Live(w) /\ worker' = [worker EXCEPT ![w] = Resting]
    BY DEF Release, Live
<1>2. worker' \in [Worker -> [pc : WorkerPc, up : Upload \cup {None}]]
    BY <1>1 DEF SlotOK, WorkerPc, Resting
<1>3. /\ ~Live(w)'
      /\ \A v \in Worker : v # w => worker'[v] = worker[v] /\ (Live(v)' <=> Live(v))
    BY <1>1 DEF SlotOK, Live, Resting
<1>4. LiveSet' = LiveSet \ {w} /\ w \in LiveSet
    BY <1>1, <1>3 DEF LiveSet
<1>5. Cardinality(LiveSet') = Cardinality(LiveSet) - 1
    BY <1>4, LiveFinite, FS_RemoveElement
<1>6. active' = Cardinality(LiveSet') /\ active' <= Slots
    BY <1>5, LiveFinite, SlotsAssumption DEF Release, SlotOK
<1>7. processing' = processing \ {worker[w].up}
    BY DEF Release
<1>8. processing' = {worker'[v].up : v \in LiveSet'}
    <2>1. \A v \in LiveSet : v # w => worker[v].up # worker[w].up
        BY <1>1 DEF SlotOK, LiveSet
    <2> QED
        BY <2>1, <1>3, <1>4, <1>7 DEF SlotOK, LiveSet
<1>9. \A v, x \in Worker : Live(v)' /\ Live(x)' /\ worker'[v].up = worker'[x].up => v = x
    BY <1>3 DEF SlotOK
<1>10. \A v \in Worker : Live(v)' => worker'[v].up \in Upload
    BY <1>3 DEF SlotOK
<1> QED
    BY <1>2, <1>6, <1>7, <1>8, <1>9, <1>10 DEF SlotOK

LEMMA TriggerKeeps ==
    ASSUME StoreOK, SlotOK, NEW u \in Upload, Trigger(u), batch' = batch
    PROVE  /\ StoreOK' /\ SlotOK'
           /\ processing' \subseteq processing \cup {u}
           /\ \A v \in Upload : v # u => row'[v] = row[v] /\ view'[v] = view[v]
<1>1. CASE Skip(u)
    BY <1>1, SlotsKept DEF Skip, StoreOK, slots
<1>2. CASE Busy(u)
    BY <1>2, SlotsKept, PutKeeps DEF Busy, slots, Status
<1>3. CASE Take(u)
    BY <1>3, TakeKeeps DEF Take, StoreOK
<1> QED
    BY <1>1, <1>2, <1>3 DEF Trigger

LEMMA GotoReq ==
    ASSUME ReqOK, NEW c \in Client, req[c].pc \notin {"idle", "insert"},
           NEW l \in ReqPc \ {"idle", "insert"}, Goto(c, l)
    PROVE  ReqOK'
BY DEF ReqOK, Goto

LEMMA ReturnReq == ASSUME ReqOK, NEW c \in Client, Return(c) PROVE ReqOK'
BY DEF ReqOK, Return, Idle, ReqPc

-----------------------------------------------------------------------------
(* One upload at a time is touched, and none that is quiet.                 *)

\* Only the uploads of X change, but for commits, rollbacks and deletions.
Touches(X) ==
    \A v \in Upload \ X :
        /\ row'[v] \in {row[v], view[v]} \/ (file[v] # None /\ row'[v] # "FAILED")
        /\ view'[v] \in {row[v], view[v]} \/ (file[v] # None /\ view'[v] # "FAILED")
        /\ v \in processing' => v \in processing

\* Requests go on or return; none takes up another upload.
Proceeds ==
    \A c \in Client :
        /\ req'[c].up \in {req[c].up, None}
        /\ req'[c].pc \in FreshPc => req[c].pc \in FreshPc /\ req'[c].up = req[c].up

LEMMA TouchedKeepsAlone ==
    ASSUME SafeInv, AloneInv, ReqOK', NEW X, Touches(X), Proceeds, UNCHANGED file,
           loose' \subseteq loose,
           \A v \in X : /\ v \notin loose' /\ file[v] # None
                        /\ \A c \in Client : req'[c].pc \in FreshPc => req'[c].up # v
    PROVE  AloneInv'
<1>1. \A u \in Upload : u \notin X /\ Quiet(u) => Quiet(u)'
    BY DEF Touches, Quiet
<1>2. \A c \in Client : req[c].pc \in FreshPc => req[c].up \in Upload /\ req[c].up # None
    BY NoneAssumption DEF SafeInv, ReqOK, FreshPc
<1>3. ASSUME NEW u \in loose' PROVE Quiet(u)' /\ \A c \in Client : req'[c].up # u
    BY <1>1, <1>3, NoneAssumption DEF AloneInv, Proceeds, SafeInv, RestOK
<1>4. ASSUME NEW c \in Client, req'[c].pc \in FreshPc
      PROVE  /\ Quiet(req[c].up)' /\ req'[c].up = req[c].up /\ req[c].up \notin loose'
             /\ \A d \in Client : d # c => req'[d].up # req'[c].up
    BY <1>1, <1>2, <1>4 DEF AloneInv, Proceeds
<1>5. ASSUME NEW u \in Upload, file'[u] = None
      PROVE  /\ row'[u] = "none" /\ view'[u] = "none"
             /\ u \notin processing' /\ u \notin loose'
             /\ \A c \in Client : req'[c].up # u
    BY <1>5, NoneAssumption DEF AloneInv, Touches, Proceeds
<1> QED
    BY <1>3, <1>4, <1>5 DEF AloneInv, Quiet

-----------------------------------------------------------------------------
(* Requests.                                                                *)

LEMMA AcceptStep ==
    ASSUME Inv, NEW c \in Client, NEW f \in File, Accept(c, f)
    PROVE  Inv'
<1> USE DEF Inv, SafeInv
<1>1. ReqOK'
    BY DEF Accept, ReqOK, ReqPc, Idle
<1>2. Touches({}) /\ Proceeds
    BY DEF Accept, Touches, Proceeds, store, slots, Idle, FreshPc, ReqOK
<1>3. StoreOK' /\ SlotOK' /\ RestOK'
    BY SlotsKept DEF Accept, StoreOK, RestOK, store, slots
<1>4. UNCHANGED <<file, loose>>
    BY DEF Accept, store
<1> QED
    BY <1>1, <1>2, <1>3, <1>4, TouchedKeepsAlone

\* A retry takes up an upload that FAILED, which is neither quiet nor new.
LEMMA RetryStep ==
    ASSUME Inv, NEW c \in Client, NEW u \in Upload, Retry(c, u)
    PROVE  Inv'
<1> USE DEF Inv, SafeInv
<1>1. /\ req[c] = Idle /\ row[u] = "FAILED"
      /\ req' = [req EXCEPT ![c] = [pc |-> "reset", up |-> u, file |-> file[u]]]
      /\ UNCHANGED <<store, slots, loose, abandoned, crashes>>
    BY DEF Retry
<1>2. ReqOK'
    BY <1>1 DEF ReqOK, RestOK, ReqPc
<1>3. StoreOK' /\ SlotOK' /\ RestOK'
    BY <1>1, SlotsKept DEF StoreOK, RestOK, store, slots
<1>4. \A d \in Client : d # c => req'[d] = req[d]
    BY <1>1 DEF ReqOK
<1>5. req'[c].up = u /\ req'[c].pc \notin FreshPc
    BY <1>1 DEF ReqOK, FreshPc
<1>6. u \notin loose /\ file[u] # None /\ \A d \in Client : req[d].pc \in FreshPc => req[d].up # u
    BY <1>1 DEF AloneInv, Quiet
<1>7. \A v : Quiet(v)' <=> Quiet(v)
    BY <1>1 DEF Quiet, store, slots
<1>8. UNCHANGED <<row, view, file, processing, loose>>
    BY <1>1 DEF store, slots
<1>9. AloneInv'
    <2>1. ASSUME NEW v \in loose' PROVE Quiet(v)' /\ \A d \in Client : req'[d].up # v
        BY <2>1, <1>4, <1>5, <1>6, <1>7, <1>8 DEF AloneInv
    <2>2. ASSUME NEW d \in Client, req'[d].pc \in FreshPc
          PROVE  /\ Quiet(req[d].up)' /\ req'[d].up \notin loose'
                 /\ \A e \in Client : e # d => req'[e].up # req'[d].up
        <3>1. d # c /\ req'[d] = req[d] /\ req[d].up # u
            BY <2>2, <1>4, <1>5, <1>6
        <3> QED
            BY <2>2, <3>1, <1>4, <1>5, <1>8 DEF AloneInv, Quiet
    <2>3. ASSUME NEW v \in Upload, file'[v] = None
          PROVE  /\ row'[v] = "none" /\ view'[v] = "none"
                 /\ v \notin processing' /\ v \notin loose'
                 /\ \A d \in Client : req'[d].up # v
        BY <2>3, <1>4, <1>5, <1>6, <1>8 DEF AloneInv
    <2> QED
        BY <2>1, <2>2, <2>3 DEF AloneInv
<1> QED
    BY <1>2, <1>3, <1>9

LEMMA DeleteStep ==
    ASSUME Inv, NEW c \in Client, NEW u \in Upload, Delete(c, u)
    PROVE  Inv'
<1> USE DEF Inv, SafeInv
<1>1. /\ view[u] \in Status /\ Put(u, "deleted") /\ UNCHANGED <<batch, file, disk, slots, loose, req, crashes>>
    BY DEF Delete
<1>2. StoreOK' /\ SlotOK' /\ RestOK' /\ ReqOK'
    BY <1>1, PutKeeps, SlotsKept DEF RestOK, ReqOK
<1>3. file[u] # None
    BY <1>1 DEF AloneInv, Status
<1>4. Touches({}) /\ Proceeds
    BY <1>1, <1>3, PutKeeps DEF Touches, Proceeds, slots
<1> QED
    BY <1>1, <1>2, <1>4, TouchedKeepsAlone

\* A new row is about a file, so that its id will not be given again.
LEMMA InsertStep ==
    ASSUME Inv, NEW c \in Client, Insert(c)
    PROVE  Inv'
<1> USE DEF Inv, SafeInv
<1> DEFINE f == req[c].file
<1>1. req[c].pc = "insert" /\ UNCHANGED <<batch, disk, slots, loose, abandoned, crashes>>
    BY DEF Insert
<1>2. SlotOK'
    BY <1>1, SlotsKept
<1>3. CASE Return(c) /\ UNCHANGED <<row, view, file>>
    <2>1. ReqOK' /\ StoreOK' /\ RestOK'
        BY <1>1, <1>3, ReturnReq DEF StoreOK, RestOK
    <2>2. Touches({}) /\ Proceeds
        BY <1>1, <1>3 DEF Touches, Proceeds, slots, Return, Idle, ReqOK, FreshPc
    <2> QED
        BY <1>1, <1>2, <1>3, <2>1, <2>2, TouchedKeepsAlone
<1>4. ASSUME NEW u \in Upload, file[u] = None, batch # "aborted", NEW s \in {"PENDING", "PROCESSING"},
             NEW l \in {"certify", "save"},
             view' = [view EXCEPT ![u] = s], row' = IF batch = "off" THEN view' ELSE row,
             file' = [file EXCEPT ![u] = f],
             req' = [req EXCEPT ![c] = [pc |-> l, up |-> u, file |-> f]]
      PROVE  Inv'
    <2>1. f \in File /\ f # None
        BY <1>1, NoneAssumption DEF ReqOK
    <2>2. ReqOK' /\ StoreOK' /\ RestOK'
        BY <1>1, <1>4, <2>1 DEF ReqOK, ReqPc, StoreOK, RestOK, RowState, Status
    <2>3. /\ row[u] = "none" /\ view[u] = "none" /\ u \notin processing /\ u \notin loose
          /\ \A d \in Client : req[d].up # u
        BY <1>4 DEF AloneInv
    <2>4. /\ \A d \in Client : d # c => req'[d] = req[d]
          /\ req'[c].up = u /\ req'[c].pc = l
        BY <1>4 DEF ReqOK
    <2>5. /\ \A v \in Upload : v # u => /\ row'[v] \in {row[v], view[v]} /\ view'[v] = view[v]
                                       /\ file'[v] = file[v]
          /\ row'[u] \in {"none", s} /\ view'[u] = s /\ file'[u] # None
        BY <1>4, <2>1, <2>3 DEF StoreOK, RestOK
    <2>6. UNCHANGED <<processing, loose>>
        BY <1>1 DEF slots
    <2>7. Quiet(u)' /\ \A v \in Upload : Quiet(v) => Quiet(v)'
        BY <2>3, <2>5, <2>6 DEF Quiet
    <2>8. AloneInv'
        <3>1. ASSUME NEW v \in loose' PROVE Quiet(v)' /\ \A d \in Client : req'[d].up # v
            BY <3>1, <2>3, <2>4, <2>6, <2>7 DEF AloneInv, RestOK
        <3>2. ASSUME NEW d \in Client, req'[d].pc \in FreshPc
              PROVE  /\ Quiet(req[d].up)' /\ req'[d].up \notin loose'
                     /\ \A e \in Client : e # d => req'[e].up # req'[d].up
            <4>1. CASE d = c
                BY <4>1, <2>3, <2>4, <2>6, <2>7 DEF Quiet
            <4>2. CASE d # c
                <5>1. req'[d] = req[d] /\ req[d].up \in Upload /\ req[d].up # u
                    BY <4>2, <3>2, <2>3, <2>4 DEF ReqOK, FreshPc
                <5> QED
                    BY <5>1, <3>2, <2>4, <2>6, <2>7 DEF AloneInv, Quiet
            <4> QED
                BY <4>1, <4>2
        <3>3. ASSUME NEW v \in Upload, file'[v] = None
              PROVE  /\ row'[v] = "none" /\ view'[v] = "none"
                     /\ v \notin processing' /\ v \notin loose'
                     /\ \A d \in Client : req'[d].up # v
            BY <3>3, <2>4, <2>5, <2>6 DEF AloneInv
        <3> QED
            BY <3>1, <3>2, <3>3 DEF AloneInv
    <2> QED
        BY <1>2, <2>2, <2>8
<1>5. \A x : (\E v \in Upload : file[v] = None) => generateUploadId \in Upload /\ file[generateUploadId] = None
    BY DEF generateUploadId
<1> QED
    BY <1>3, <1>4, <1>5 DEF Insert

LEMMA CertifyStep ==
    ASSUME Inv, NEW c \in Client, Certify(c)
    PROVE  Inv'
<1> USE DEF Inv, SafeInv
<1> DEFINE u == req[c].up
<1>1. PICK s \in {"COMPLETED", "FAILED"} : Put(u, s)
    BY DEF Certify
<1>2. req[c].pc = "certify" /\ Return(c) /\ UNCHANGED <<batch, file, disk, slots, loose, crashes>>
    BY DEF Certify
<1>3. u \in Upload
    BY <1>2 DEF ReqOK
<1>4. StoreOK' /\ SlotOK' /\ RestOK' /\ ReqOK'
    BY <1>1, <1>2, <1>3, PutKeeps, SlotsKept, ReturnReq DEF RestOK, Status
<1>5. Touches({u}) /\ Proceeds
    BY <1>1, <1>2, <1>3, PutKeeps DEF Touches, Proceeds, slots, Return, Idle, ReqOK, FreshPc, Status
<1>6. /\ u \notin loose' /\ file[u] # None
      /\ \A d \in Client : req'[d].pc \in FreshPc => req'[d].up # u
    BY <1>2, <1>3 DEF AloneInv, FreshPc, Return, Idle, ReqOK
<1> QED
    BY <1>2, <1>4, <1>5, <1>6, TouchedKeepsAlone

LEMMA SaveStep ==
    ASSUME Inv, NEW c \in Client, Save(c)
    PROVE  Inv'
<1> USE DEF Inv, SafeInv
<1> DEFINE u == req[c].up
<1>1. req[c].pc = "save" /\ UNCHANGED <<batch, file, slots, loose, crashes>>
    BY DEF Save
<1>2. u \in Upload
    BY <1>1 DEF ReqOK
<1>3. CASE Put(u, "FAILED") /\ Return(c) /\ UNCHANGED disk
    <2>1. StoreOK' /\ SlotOK' /\ RestOK' /\ ReqOK'
        BY <1>1, <1>2, <1>3, PutKeeps, SlotsKept, ReturnReq DEF RestOK, Status
    <2>2. Touches({u}) /\ Proceeds
        BY <1>1, <1>2, <1>3, PutKeeps DEF Touches, Proceeds, slots, Return, Idle, ReqOK, FreshPc, Status
    <2>3. /\ u \notin loose' /\ file[u] # None
          /\ \A d \in Client : req'[d].pc \in FreshPc => req'[d].up # u
        BY <1>1, <1>2, <1>3 DEF AloneInv, FreshPc, Return, Idle, ReqOK
    <2> QED
        BY <1>1, <2>1, <2>2, <2>3, TouchedKeepsAlone
<1>4. ASSUME NEW l \in {"trigger", "spawn"}, Goto(c, l), disk' = disk \cup {u},
             UNCHANGED <<row, view, abandoned>>
      PROVE  Inv'
    <2>1. StoreOK' /\ SlotOK' /\ RestOK' /\ ReqOK'
        BY <1>1, <1>2, <1>4, SlotsKept, GotoReq DEF RestOK, StoreOK, ReqPc
    <2>2. Touches({}) /\ Proceeds
        BY <1>1, <1>4 DEF Touches, Proceeds, slots, Goto, ReqOK, FreshPc
    <2> QED
        BY <1>1, <2>1, <2>2, TouchedKeepsAlone
<1> QED
    BY <1>3, <1>4 DEF Save

\* A request that triggers is not the only one about its upload, which is
\* therefore in no thread outside the slots.
LEMMA TriggerStep ==
    ASSUME Inv, NEW c \in Client, req[c].pc \in {"trigger", "again", "retrigger"},
           Trigger(req[c].up), Return(c) \/ Goto(c, "again"),
           UNCHANGED <<batch, file, disk, loose, crashes>>
    PROVE  Inv'
<1> USE DEF Inv, SafeInv
<1> DEFINE u == req[c].up
<1>1. u \in Upload
    BY DEF ReqOK
<1>2. /\ StoreOK' /\ SlotOK' /\ processing' \subseteq processing \cup {u}
      /\ \A v \in Upload : v # u => row'[v] = row[v] /\ view'[v] = view[v]
    BY <1>1, TriggerKeeps
<1>3. RestOK' /\ ReqOK'
    BY ReturnReq, GotoReq DEF RestOK, ReqPc
<1>4. Touches({u}) /\ Proceeds
    BY <1>1, <1>2 DEF Touches, Proceeds, Return, Goto, Idle, ReqOK, FreshPc
<1>5. /\ u \notin loose' /\ file[u] # None
      /\ \A d \in Client : req'[d].pc \in FreshPc => req'[d].up # u
    BY <1>1 DEF AloneInv, FreshPc, Return, Goto, Idle, ReqOK
<1> QED
    BY <1>2, <1>3, <1>4, <1>5, TouchedKeepsAlone

LEMMA ResetStep ==
    ASSUME Inv, NEW c \in Client, Reset(c)
    PROVE  Inv'
<1> USE DEF Inv, SafeInv
<1> DEFINE u == req[c].up
<1>1. /\ req[c].pc = "reset" /\ Put(u, "PENDING") /\ Goto(c, "retrigger")
      /\ UNCHANGED <<batch, file, disk, slots, loose, crashes>>
    BY DEF Reset
<1>2. u \in Upload
    BY <1>1 DEF ReqOK
<1>3. StoreOK' /\ SlotOK' /\ RestOK' /\ ReqOK'
    BY <1>1, <1>2, PutKeeps, SlotsKept, GotoReq DEF RestOK, Status, ReqPc
<1>4. Touches({u}) /\ Proceeds
    BY <1>1, <1>2, PutKeeps DEF Touches, Proceeds, slots, Goto, ReqOK, FreshPc, Status
<1>5. /\ u \notin loose' /\ file[u] # None
      /\ \A d \in Client : req'[d].pc \in FreshPc => req'[d].up # u
    BY <1>1, <1>2 DEF AloneInv, FreshPc, Goto, ReqOK
<1> QED
    BY <1>1, <1>3, <1>4, <1>5, TouchedKeepsAlone

\* The upload passes from the request to the thread outside the slots.
LEMMA SpawnStep ==
    ASSUME Inv, NEW c \in Client, Spawn(c)
    PROVE  Inv'
<1> USE DEF Inv, SafeInv
<1> DEFINE u == req[c].up
<1>1. /\ req[c].pc = "spawn" /\ loose' = loose \cup {u} /\ Return(c)
      /\ UNCHANGED <<store, slots, abandoned, crashes>>
    BY DEF Spawn
<1>2. u \in Upload
    BY <1>1 DEF ReqOK
<1>3. StoreOK' /\ SlotOK' /\ RestOK' /\ ReqOK'
    BY <1>1, <1>2, SlotsKept, ReturnReq DEF RestOK, StoreOK, store
<1>4. /\ \A d \in Client : d # c => req'[d] = req[d]
      /\ req'[c].up = None /\ req'[c].pc \notin FreshPc
    BY <1>1 DEF Return, Idle, ReqOK, FreshPc
<1>5. UNCHANGED <<row, view, file, processing>>
    BY <1>1 DEF store, slots
<1>6. Quiet(u) /\ file[u] # None /\ \A d \in Client : d # c => req[d].up # u
    BY <1>1, <1>2 DEF AloneInv, FreshPc
<1>7. \A v : Quiet(v)' <=> Quiet(v)
    BY <1>5 DEF Quiet
<1>8. ASSUME NEW v \in loose' PROVE Quiet(v)' /\ \A d \in Client : req'[d].up # v
    BY <1>8, <1>1, <1>2, <1>4, <1>6, <1>7, NoneAssumption DEF AloneInv, RestOK
<1>9. ASSUME NEW d \in Client, req'[d].pc \in FreshPc
      PROVE  /\ Quiet(req[d].up)' /\ req'[d].up \notin loose'
             /\ \A e \in Client : e # d => req'[e].up # req'[d].up
    <2>1. d # c /\ req'[d] = req[d] /\ req[d].up # u /\ req[d].up # None
        BY <1>9, <1>4, <1>6, NoneAssumption DEF ReqOK, FreshPc
    <2> QED
        BY <2>1, <1>9, <1>1, <1>4, <1>5 DEF AloneInv, Quiet
<1>10. ASSUME NEW v \in Upload, file'[v] = None
       PROVE  /\ row'[v] = "none" /\ view'[v] = "none"
              /\ v \notin processing' /\ v \notin loose'
              /\ \A d \in Client : req'[d].up # v
    BY <1>10, <1>1, <1>4, <1>5, <1>6, NoneAssumption DEF AloneInv
<1>11. AloneInv'
    BY <1>8, <1>9, <1>10 DEF AloneInv
<1> QED
    BY <1>3, <1>11

LEMMA ClientSteps ==
    ASSUME Inv, NEW c \in Client, ClientStep(c)
    PROVE  Inv'
<1>1. CASE FirstTrigger(c)
    BY <1>1, TriggerStep DEF FirstTrigger
<1>2. CASE SecondTrigger(c)
    BY <1>2, TriggerStep DEF SecondTrigger
<1>3. CASE Retrigger(c)
    BY <1>3, TriggerStep DEF Retrigger
<1> QED
    BY <1>1, <1>2, <1>3, InsertStep, CertifyStep, SaveStep, SpawnStep, ResetStep DEF ClientStep

-----------------------------------------------------------------------------
(* The threads, with and without a slot.                                    *)

\* What holds of a step that leaves requests and files alone and touches X.
LEMMA QuietStep ==
    ASSUME Inv, NEW X, Touches(X), UNCHANGED <<file, disk, loose, req, crashes>>,
           StoreOK', SlotOK', X \subseteq processing
    PROVE  Inv'
<1> USE DEF Inv, SafeInv
<1>1. ReqOK' /\ RestOK' /\ Proceeds
    BY DEF ReqOK, RestOK, Proceeds
<1>2. processing \subseteq Upload
    BY DEF SlotOK, LiveSet
<1>3. \A v \in X : /\ v \notin loose' /\ file[v] # None
                  /\ \A c \in Client : req'[c].pc \in FreshPc => req'[c].up # v
    BY <1>2 DEF AloneInv, Quiet
<1> QED
    BY <1>1, <1>3, TouchedKeepsAlone

LEMMA WorkerSteps ==
    ASSUME Inv, NEW w \in Worker, WorkerStep(w)
    PROVE  Inv'
<1> USE DEF Inv, SafeInv
<1> DEFINE u == worker[w].up
<1>1. Live(w) => u \in Upload /\ u \in processing
    BY DEF SlotOK, LiveSet
<1>2. CASE Parse(w)
    <2>1. Live(w) /\ Put(u, "PROCESSING") /\ WorkerGoto(w, "begin") /\ UNCHANGED <<batch, workerRest>>
        BY <1>2 DEF Parse, Live
    <2>2. StoreOK' /\ SlotOK' /\ Touches({u})
        BY <2>1, <1>1, PutKeeps, GotoKeeps DEF workerRest, Touches, Status, WorkerPc
    <2> QED
        BY <2>1, <2>2, <1>1, QuietStep DEF workerRest
<1>3. CASE Begin(w)
    <2>1. /\ Live(w) /\ WorkerGoto(w, "work") /\ UNCHANGED <<row, view, abandoned, workerRest>>
          /\ batch' = batch \/ (batch = "off" /\ batch' = "on")
        BY <1>3 DEF Begin, Live
    <2>2. StoreOK' /\ SlotOK' /\ Touches({})
        BY <2>1, GotoKeeps DEF workerRest, Touches, StoreOK, WorkerPc
    <2> QED
        BY <2>1, <2>2, QuietStep DEF workerRest
<1>4. ASSUME NEW l \in {"begin", "ended"}, End(w, l) PROVE Inv'
    <2>1. /\ Live(w) /\ WorkerGoto(w, l) /\ UNCHANGED workerRest
          /\ row' = view /\ view' = view /\ batch' = "off" /\ Lose({})
        BY <1>4 DEF End, Live
    <2>2. StoreOK' /\ SlotOK' /\ Touches({})
        BY <2>1, GotoKeeps DEF workerRest, Touches, StoreOK, WorkerPc, Lose
    <2> QED
        BY <2>1, <2>2, QuietStep DEF workerRest
<1>5. ASSUME NEW s \in {"COMPLETED", "FAILED"}, Verdict(w, s) PROVE Inv'
    <2>1. Live(w) /\ Put(u, s) /\ WorkerGoto(w, "leaving") /\ UNCHANGED <<batch, workerRest>>
        BY <1>5 DEF Verdict, Live
    <2>2. StoreOK' /\ SlotOK' /\ Touches({u})
        BY <2>1, <1>1, PutKeeps, GotoKeeps DEF workerRest, Touches, Status, WorkerPc
    <2> QED
        BY <2>1, <2>2, <1>1, QuietStep DEF workerRest
<1>6. CASE Release(w)
    <2>1. UNCHANGED <<store, loose, req, abandoned, crashes>>
        BY <1>6 DEF Release
    <2>2. StoreOK' /\ SlotOK' /\ Touches({})
        BY <2>1, <1>6, ReleaseKeeps DEF store, StoreOK, Touches
    <2> QED
        BY <2>1, <2>2, QuietStep DEF store
<1> QED
    BY <1>2, <1>3, <1>4, <1>5, <1>6 DEF WorkerStep, Finish

LEMMA LooseSteps ==
    ASSUME Inv, NEW u \in Upload, LooseStep(u)
    PROVE  Inv'
<1> USE DEF Inv, SafeInv
<1>1. /\ u \in loose /\ loose' = loose \ {u}
      /\ UNCHANGED <<batch, file, disk, slots, req, crashes>>
    BY DEF LooseStep, LooseDone, LooseFails, store
<1>2. /\ StoreOK'
      /\ \A v \in Upload : v # u => row'[v] = row[v] /\ view'[v] = view[v]
    <2>1. CASE LooseDone(u)
        BY <2>1, PutKeeps DEF LooseDone, Status
    <2>2. CASE LooseFails(u)
        BY <2>2 DEF LooseFails, StoreOK, Lose, store
    <2> QED
        BY <2>1, <2>2 DEF LooseStep
<1>3. SlotOK' /\ ReqOK' /\ RestOK'
    BY <1>1, SlotsKept DEF ReqOK, RestOK
<1>4. Touches({u}) /\ Proceeds
    BY <1>1, <1>2 DEF Touches, Proceeds, slots
<1>5. /\ u \notin loose' /\ file[u] # None
      /\ \A d \in Client : req'[d].pc \in FreshPc => req'[d].up # u
    BY <1>1 DEF AloneInv
<1> QED
    BY <1>1, <1>2, <1>3, <1>4, <1>5, TouchedKeepsAlone

LEMMA AbortStep == ASSUME Inv, Abort PROVE Inv'
<1>1. StoreOK' /\ SlotOK'
    BY SlotsKept DEF Abort, Inv, SafeInv, StoreOK, Lose
<1>2. Touches({})
    BY DEF Abort, Touches, slots
<1> QED
    BY <1>1, <1>2, QuietStep DEF Abort, workerRest

LEMMA CrashStep == ASSUME Inv, Crash PROVE Inv'
<1> USE DEF Inv, SafeInv
<1>1. LiveSet' = {}
    BY DEF Crash, LiveSet, Live, Resting
<1>2. SlotOK'
    BY <1>1, FS_EmptySet, SlotsAssumption DEF Crash, SlotOK, WorkerPc, Resting, Live
<1>3. StoreOK' /\ ReqOK'
    BY DEF Crash, StoreOK, ReqOK, ReqPc, Idle, Lose
<1>4. RestOK'
    BY CrashesAssumption DEF Crash, RestOK
<1>5. Touches({}) /\ Proceeds
    BY DEF Crash, Touches, Proceeds, Idle, FreshPc
<1> QED
    BY <1>2, <1>3, <1>4, <1>5, TouchedKeepsAlone DEF Crash

LEMMA InitInv == Init => Inv
<1> SUFFICES ASSUME Init PROVE Inv
    OBVIOUS
<1>1. AloneInv
    BY NoneAssumption DEF Init, AloneInv, Idle, FreshPc
<1> QED
    BY <1>1, InitSafe DEF Inv

LEMMA StepInv == Inv /\ [Next]_vars => Inv'
<1> SUFFICES ASSUME Inv, [Next]_vars PROVE Inv'
    OBVIOUS
<1>1. CASE UNCHANGED vars
    BY <1>1 DEF Inv, SafeInv, StoreOK, SlotOK, ReqOK, RestOK, AloneInv, Quiet, LiveSet, Live,
                vars, store, slots
<1>2. CASE Next
    <2>1. ASSUME NEW c \in Uploader, NEW f \in File, Accept(c, f) PROVE Inv'
        BY <2>1, AcceptStep, UploaderAssumption
    <2> QED
        BY <1>2, <2>1, RetryStep, DeleteStep, ClientSteps, WorkerSteps, LooseSteps, AbortStep,
           CrashStep DEF Next
<1> QED
    BY <1>1, <1>2

LEMMA Always == Spec => []Inv
BY InitInv, StepInv, PTL DEF Spec

-----------------------------------------------------------------------------
(* The results.                                                             *)

\* A slot is neither leaked nor given twice, on any path out of a processing
\* thread: the set, the counter and the threads agree, and the limit holds.
THEOREM SlotsAreExact == Spec => []SlotsExact
<1>1. Inv => SlotsExact
    BY DEF Inv, SafeInv, SlotOK, SlotsExact, LiveSet
<1> QED
    BY <1>1, Always, PTL

\* No two threads process one upload, those without a slot included: a retry
\* never starts beside the thread that is still at the upload.
THEOREM ThreadsAreAlone == Spec => []OneThread
<1>1. Inv => OneThread
    BY DEF Inv, SafeInv, SlotOK, AloneInv, Quiet, OneThread
<1> QED
    BY <1>1, Always, PTL

\* Every variable keeps its type, and without an open transaction there is one
\* state of the rows for everybody.
THEOREM TypesHold == Spec => []TypeOK
<1>1. Inv => TypeOK
    <2> SUFFICES ASSUME Inv PROVE TypeOK
        OBVIOUS
    <2>1. processing \subseteq Upload /\ active \in Nat
        BY LiveFinite DEF Inv, SafeInv, SlotOK, LiveSet
    <2> QED
        BY <2>1 DEF Inv, SafeInv, StoreOK, SlotOK, ReqOK, RestOK, TypeOK, RowState, WorkerPc, ReqPc
<1> QED
    BY <1>1, Always, PTL

-----------------------------------------------------------------------------
(* An unsettled upload has somebody at it.                                  *)

\* A request that has not returned, a thread before its verdict.
Actor(u) ==
    \/ \E c \in Client : req[c].up = u /\ req[c].pc \notin {"idle", "insert", "reset"}
    \/ \E w \in Worker : worker[w].up = u /\ worker[w].pc \notin {"none", "leaving"}
    \/ u \in loose

IsOwned(u) == view[u] \in Open => Actor(u) \/ u \in abandoned

\* The verdict of a thread that is leaving was written or is lost for good.
Decided(w) ==
    worker[w].pc = "leaving" /\ view[worker[w].up] = "PROCESSING" => worker[w].up \in abandoned

Watched == (\A u \in Upload : IsOwned(u)) /\ (\A w \in Worker : Decided(w))

\* A status that does not reach the row is one the history knows.
LEMMA PutOrLost ==
    ASSUME StoreOK, NEW u \in Upload, NEW s \in Status \cup {"deleted"}, Put(u, s)
    PROVE  /\ view'[u] \in Open => view'[u] = s \/ u \in abandoned'
           /\ \A v \in Upload : v # u => view'[v] = view[v]
           /\ \A v \in abandoned : view'[v] \in Open => v \in abandoned'
<1>1. /\ view' = IF batch = "aborted" THEN view
                 ELSE IF view[u] \in Status THEN [view EXCEPT ![u] = s] ELSE view
      /\ Lose(IF batch = "aborted" THEN {u} ELSE {})
    BY DEF Put
<1>2. view \in [Upload -> RowState]
    BY DEF StoreOK
<1>3. \A v \in abandoned : view'[v] \in Open => v \in abandoned'
    BY <1>1 DEF Lose
<1>4. CASE batch = "aborted"
    BY <1>1, <1>3, <1>4 DEF Lose
<1>5. CASE batch # "aborted"
    BY <1>1, <1>2, <1>3, <1>5 DEF Open, Status
<1> QED
    BY <1>4, <1>5

\* What a step has to show when it touches the uploads of X only.
LEMMA StaysWatched ==
    ASSUME SlotOK, Watched, NEW X,
           \A v \in Upload \ X : view'[v] = view[v] /\ (Actor(v) => Actor(v)'),
           \A v \in abandoned : view'[v] \in Open => v \in abandoned',
           \A v \in X : IsOwned(v)',
           \A w \in Worker : worker'[w].pc = "leaving" =>
               \/ worker'[w] = worker[w] /\ worker[w].up \notin X
               \/ Decided(w)'
    PROVE  Watched'
<1>1. ASSUME NEW v \in Upload \ X PROVE IsOwned(v)'
    BY <1>1 DEF Watched, IsOwned
<1>2. ASSUME NEW w \in Worker PROVE Decided(w)'
    <2>1. CASE worker'[w] = worker[w] /\ worker[w].up \notin X /\ worker'[w].pc = "leaving"
        <3>1. worker[w].up \in Upload \ X
            BY <2>1 DEF SlotOK, Live
        <3>2. view'[worker[w].up] = view[worker[w].up]
            BY <3>1
        <3>3. worker[w].up \in abandoned /\ view'[worker[w].up] \in Open => worker[w].up \in abandoned'
            OBVIOUS
        <3> QED
            BY <2>1, <3>1, <3>2, <3>3 DEF Watched, Decided, Open
    <2> QED
        BY <2>1 DEF Decided
<1> QED
    BY <1>1, <1>2 DEF Watched

\* Nothing about the rows, the threads and the history changes.
LEMMA RestWatched ==
    ASSUME Watched, UNCHANGED <<view, worker, abandoned>>,
           \A v \in Upload : Actor(v) => Actor(v)'
    PROVE  Watched'
<1>1. \A v \in Upload : IsOwned(v)'
    BY DEF Watched, IsOwned
<1>2. \A w \in Worker : Decided(w)'
    BY DEF Watched, Decided
<1> QED
    BY <1>1, <1>2 DEF Watched

\* A request goes on, or is answered when its upload does without it.
LEMMA OthersAct ==
    ASSUME ReqOK, NEW c \in Client, req' \in [Client -> [pc : ReqPc, up : Upload \cup {None}, file : File \cup {None}]],
           \A d \in Client : d # c => req'[d] = req[d],
           NEW v \in Upload, v # req[c].up \/ req[c].pc \in {"idle", "insert", "reset"},
           UNCHANGED worker, loose \subseteq loose', Actor(v)
    PROVE  Actor(v)'
BY DEF Actor

\* A request writes a status and returns, or goes on to write the next.
LEMMA WrittenWatched ==
    ASSUME Inv, Watched, NEW c, NEW u \in Upload, NEW s \in {"PENDING", "COMPLETED", "FAILED", "deleted"},
           Put(u, s), UNCHANGED worker, loose \ {u} \subseteq loose', ReqOK',
           \A d \in Client : d # c => req'[d] = req[d],
           req[c].up = u \/ UNCHANGED req,
           s = "PENDING" => Actor(u)'
    PROVE  Watched'
<1> USE DEF Inv, SafeInv
<1>1. /\ view'[u] \in Open => view'[u] = s \/ u \in abandoned'
      /\ \A v \in Upload : v # u => view'[v] = view[v]
      /\ \A v \in abandoned : view'[v] \in Open => v \in abandoned'
    BY PutOrLost DEF Status
<1>2. ASSUME NEW v \in Upload \ {u}, Actor(v) PROVE Actor(v)'
    BY <1>2 DEF Actor
<1>3. IsOwned(u)'
    BY <1>1 DEF IsOwned, Open
<1>4. ASSUME NEW w \in Worker, worker'[w].pc = "leaving"
      PROVE  (worker'[w] = worker[w] /\ worker[w].up \notin {u}) \/ Decided(w)'
    BY <1>1 DEF Decided, Open
<1> QED
    BY <1>1, <1>2, <1>3, <1>4, StaysWatched

LEMMA InsertWatched == ASSUME Inv, Watched, NEW c \in Client, Insert(c) PROVE Watched'
<1> USE DEF Inv, SafeInv
<1> DEFINE f == req[c].file
<1>1. req[c].pc = "insert" /\ UNCHANGED <<batch, disk, slots, loose, abandoned, crashes>>
    BY DEF Insert
<1>2. CASE Return(c) /\ UNCHANGED <<row, view, file>>
    <2>1. \A v \in Upload : Actor(v) => Actor(v)'
        BY <1>1, <1>2 DEF Actor, Return, ReqOK, slots
    <2> QED
        BY <1>1, <1>2, <2>1, RestWatched DEF slots
<1>3. ASSUME NEW u \in Upload, file[u] = None, NEW s \in {"PENDING", "PROCESSING"},
             NEW l \in {"certify", "save"}, view' = [view EXCEPT ![u] = s],
             req' = [req EXCEPT ![c] = [pc |-> l, up |-> u, file |-> f]]
      PROVE  Watched'
    <2>1. \A w \in Worker : Live(w) => worker[w].up # u
        BY <1>3 DEF AloneInv, SlotOK, LiveSet
    <2>2. \A v \in Upload \ {u} : view'[v] = view[v] /\ (Actor(v) => Actor(v)')
        BY <1>1, <1>3 DEF Actor, ReqOK, slots, StoreOK
    <2>3. IsOwned(u)'
        BY <1>1, <1>3 DEF IsOwned, Actor, ReqOK
    <2>4. \A w \in Worker : worker'[w].pc = "leaving" => worker'[w] = worker[w] /\ worker[w].up \notin {u}
        BY <1>1, <2>1 DEF slots, Live
    <2> QED
        BY <1>1, <2>2, <2>3, <2>4, StaysWatched
<1>4. (\E v \in Upload : file[v] = None) => generateUploadId \in Upload /\ file[generateUploadId] = None
    BY DEF generateUploadId
<1> QED
    BY <1>2, <1>3, <1>4 DEF Insert

\* A trigger that finds the upload in processing relies on its thread, unless
\* that one is leaving.
LEMMA TriggerWatched ==
    ASSUME Inv, Watched, NEW c \in Client, req[c].pc \in {"trigger", "again", "retrigger"},
           NEW u \in Upload, req[c].up = u, Trigger(u), Return(c) \/ Goto(c, "again"),
           UNCHANGED <<batch, file, disk, loose, crashes>>
    PROVE  Watched'
<1> USE DEF Inv, SafeInv
<1>1. ReqOK'
    BY ReturnReq, GotoReq DEF ReqOK, ReqPc
<1>2. \A d \in Client : d # c => req'[d] = req[d]
    BY DEF Return, Goto, ReqOK
<1>3. CASE Skip(u)
    <2>1. /\ u \in processing /\ UNCHANGED <<view, slots>>
          /\ abandoned' = IF view[u] = "PENDING" /\ \E w \in Worker : worker[w] = [pc |-> "leaving", up |-> u]
                          THEN abandoned \cup {u} ELSE abandoned
        BY <1>3 DEF Skip
    <2>2. PICK w \in Worker : Live(w) /\ worker[w].up = u
        BY <2>1 DEF SlotOK, LiveSet
    <2>3. IsOwned(u)'
        <3>1. CASE worker[w].pc # "leaving"
            BY <2>1, <2>2, <3>1 DEF IsOwned, Actor, Live, slots
        <3>2. CASE worker[w].pc = "leaving" /\ view[u] = "PENDING"
            <4>1. worker[w] = [pc |-> "leaving", up |-> u]
                BY <2>2, <3>2 DEF SlotOK
            <4> QED
                BY <4>1, <2>1, <3>2 DEF IsOwned
        <3>3. CASE worker[w].pc = "leaving" /\ view[u] = "PROCESSING"
            BY <2>1, <2>2, <3>3 DEF IsOwned, Watched, Decided
        <3> QED
            BY <2>1, <3>1, <3>2, <3>3 DEF IsOwned, Open
    <2>4. \A v \in Upload \ {u} : view'[v] = view[v] /\ (Actor(v) => Actor(v)')
        BY <2>1, <1>2 DEF Actor, slots
    <2>5. \A v \in Worker : Decided(v)'
        BY <2>1 DEF Watched, Decided, slots
    <2>6. \A v \in Upload \ {u} : IsOwned(v)'
        BY <2>1, <2>4 DEF Watched, IsOwned
    <2> QED
        BY <2>3, <2>5, <2>6 DEF Watched
<1>4. CASE Busy(u)
    BY <1>1, <1>2, <1>4, WrittenWatched DEF Busy, slots
<1>5. CASE Take(u)
    <2>1. PICK w \in Worker : ~Live(w) /\ worker' = [worker EXCEPT ![w] = [pc |-> "parse", up |-> u]]
        BY <1>5 DEF Take
    <2>2. u \notin processing /\ UNCHANGED <<view, abandoned>>
        BY <1>5 DEF Take
    <2>3. worker'[w].pc = "parse" /\ worker'[w].up = u /\ \A v \in Worker : v # w => worker'[v] = worker[v]
        BY <2>1 DEF SlotOK
    <2>4. IsOwned(u)'
        BY <2>3 DEF IsOwned, Actor
    <2>5. \A v \in Upload \ {u} : view'[v] = view[v] /\ (Actor(v) => Actor(v)')
        BY <2>1, <2>2, <2>3, <1>2 DEF Actor, Live
    <2>6. \A v \in Worker : worker'[v].pc = "leaving" => worker'[v] = worker[v] /\ worker[v].up \notin {u}
        BY <2>2, <2>3 DEF SlotOK, LiveSet, Live
    <2> QED
        BY <2>2, <2>4, <2>5, <2>6, StaysWatched
<1> QED
    BY <1>3, <1>4, <1>5 DEF Trigger

LEMMA RequestsWatched ==
    ASSUME Inv, Watched, NEW c \in Client, ClientStep(c)
    PROVE  Watched'
<1> USE DEF Inv, SafeInv
<1>0. PICK u : req[c].up = u
    OBVIOUS
<1>1. CASE Certify(c)
    <2>1. PICK s \in {"COMPLETED", "FAILED"} : Put(u, s)
        BY <1>0, <1>1 DEF Certify
    <2>2. u \in Upload /\ ReqOK' /\ \A d \in Client : d # c => req'[d] = req[d]
        BY <1>0, <1>1, ReturnReq DEF Certify, ReqOK, Return
    <2> QED
        BY <1>0, <1>1, <2>1, <2>2, WrittenWatched DEF Certify, slots
<1>2. CASE Save(c)
    <2>1. req[c].pc = "save" /\ u \in Upload
        BY <1>0, <1>2 DEF Save, ReqOK
    <2>2. CASE Put(u, "FAILED") /\ Return(c)
        <3>1. ReqOK' /\ \A d \in Client : d # c => req'[d] = req[d]
            BY <1>0, <2>1, <2>2, ReturnReq DEF ReqOK, Return
        <3> QED
            BY <1>0, <1>2, <2>1, <2>2, <3>1, WrittenWatched DEF Save, slots
    <2>3. ASSUME NEW l \in {"trigger", "spawn"}, Goto(c, l), UNCHANGED <<view, abandoned>>
          PROVE  Watched'
        <3>1. \A v \in Upload : Actor(v) => Actor(v)'
            BY <1>0, <1>2, <2>1, <2>3 DEF Save, Actor, Goto, ReqOK, slots
        <3> QED
            BY <1>0, <1>2, <2>3, <3>1, RestWatched DEF Save, slots
    <2> QED
        BY <1>0, <1>2, <2>2, <2>3 DEF Save
<1>3. CASE Spawn(c)
    <2>1. \A v \in Upload : Actor(v) => Actor(v)'
        BY <1>0, <1>3 DEF Spawn, Actor, Return, ReqOK, slots
    <2> QED
        BY <1>3, <2>1, RestWatched DEF Spawn, slots, store
<1>4. CASE Reset(c)
    <2>1. /\ req[c].pc = "reset" /\ Put(u, "PENDING") /\ Goto(c, "retrigger")
          /\ UNCHANGED <<slots, loose>>
        BY <1>0, <1>4 DEF Reset
    <2>2. u \in Upload /\ ReqOK' /\ \A d \in Client : d # c => req'[d] = req[d]
        BY <1>0, <2>1, GotoReq DEF ReqOK, ReqPc, Goto
    <2>3. Actor(u)'
        BY <1>0, <2>1 DEF Actor, Goto, ReqOK
    <2> QED
        BY <1>0, <2>1, <2>2, <2>3, WrittenWatched DEF slots
<1>5. CASE FirstTrigger(c) \/ SecondTrigger(c) \/ Retrigger(c)
    <2>1. /\ u \in Upload /\ req[c].pc \in {"trigger", "again", "retrigger"}
          /\ Trigger(u) /\ (Return(c) \/ Goto(c, "again"))
          /\ UNCHANGED <<batch, file, disk, loose, crashes>>
        BY <1>0, <1>5 DEF FirstTrigger, SecondTrigger, Retrigger, ReqOK
    <2> QED
        BY <1>0, <2>1, TriggerWatched
<1> QED
    BY <1>0, <1>1, <1>2, <1>3, <1>4, <1>5, InsertWatched DEF ClientStep

LEMMA ThreadsWatched ==
    ASSUME Inv, Watched, NEW w \in Worker, WorkerStep(w)
    PROVE  Watched'
<1> USE DEF Inv, SafeInv
<1>0. PICK u : worker[w].up = u
    OBVIOUS
<1>1. Live(w) => /\ u \in Upload
                 /\ \A v \in Worker : Live(v) /\ worker[v].up = u => v = w
    BY <1>0 DEF SlotOK
\* A thread that goes on, before its verdict.
<1>2. ASSUME NEW l \in {"begin", "work", "ended"}, Live(w), WorkerGoto(w, l), UNCHANGED <<loose, req>>,
             \A v \in Upload : v # u => view'[v] = view[v],
             \A v \in abandoned : view'[v] \in Open => v \in abandoned'
      PROVE  Watched'
    <2>1. /\ worker'[w].pc = l /\ worker'[w].up = u
          /\ \A v \in Worker : v # w => worker'[v] = worker[v]
        BY <1>0, <1>2 DEF WorkerGoto, SlotOK
    <2>2. \A v \in Upload \ {u} : view'[v] = view[v] /\ (Actor(v) => Actor(v)')
        BY <1>0, <1>2, <2>1 DEF Actor
    <2>3. IsOwned(u)'
        BY <2>1 DEF IsOwned, Actor
    <2>4. \A v \in Worker : worker'[v].pc = "leaving" => worker'[v] = worker[v] /\ worker[v].up \notin {u}
        BY <1>1, <1>2, <2>1 DEF Live
    <2> QED
        BY <1>2, <2>2, <2>3, <2>4, StaysWatched
<1>3. CASE Parse(w)
    <2>1. Live(w) /\ Put(u, "PROCESSING") /\ WorkerGoto(w, "begin") /\ UNCHANGED workerRest
        BY <1>0, <1>3 DEF Parse, Live
    <2> QED
        BY <1>1, <1>2, <2>1, PutOrLost DEF workerRest, Status
<1>4. CASE Begin(w)
    BY <1>2, <1>4 DEF Begin, Live, workerRest
<1>5. ASSUME NEW l \in {"begin", "ended"}, End(w, l) PROVE Watched'
    BY <1>2, <1>5 DEF End, Live, workerRest, Lose
<1>6. ASSUME NEW s \in {"COMPLETED", "FAILED"}, Verdict(w, s) PROVE Watched'
    <2>1. Live(w) /\ Put(u, s) /\ WorkerGoto(w, "leaving") /\ UNCHANGED workerRest
        BY <1>0, <1>6 DEF Verdict, Live
    <2>2. /\ view'[u] \in Open => u \in abandoned'
          /\ \A v \in Upload : v # u => view'[v] = view[v]
          /\ \A v \in abandoned : view'[v] \in Open => v \in abandoned'
        BY <1>1, <2>1, PutOrLost DEF Open, Status
    <2>3. worker'[w].up = u /\ \A v \in Worker : v # w => worker'[v] = worker[v]
        BY <1>0, <2>1 DEF WorkerGoto, SlotOK
    <2>4. \A v \in Upload \ {u} : view'[v] = view[v] /\ (Actor(v) => Actor(v)')
        BY <1>0, <2>1, <2>2, <2>3 DEF Actor, workerRest
    <2>5. IsOwned(u)'
        BY <2>2 DEF IsOwned
    <2>6. Decided(w)'
        BY <2>2, <2>3 DEF Decided, Open
    <2>7. \A v \in Worker : worker'[v].pc = "leaving" =>
              (worker'[v] = worker[v] /\ worker[v].up \notin {u}) \/ Decided(v)'
        BY <1>1, <2>1, <2>3, <2>6 DEF Live
    <2> QED
        BY <2>2, <2>4, <2>5, <2>7, StaysWatched
<1>7. CASE Release(w)
    <2>1. /\ worker[w].pc = "leaving" /\ worker' = [worker EXCEPT ![w] = Resting]
          /\ UNCHANGED <<view, loose, req, abandoned>>
        BY <1>7 DEF Release, store
    <2>2. worker'[w].pc = "none" /\ \A v \in Worker : v # w => worker'[v] = worker[v]
        BY <2>1 DEF SlotOK, Resting
    <2>3. \A v \in Upload : IsOwned(v)'
        BY <2>1, <2>2 DEF Watched, IsOwned, Actor
    <2>4. \A v \in Worker : Decided(v)'
        BY <2>1, <2>2 DEF Watched, Decided
    <2> QED
        BY <2>3, <2>4 DEF Watched
<1> QED
    BY <1>3, <1>4, <1>5, <1>6, <1>7 DEF WorkerStep, Finish

LEMMA LooseWatched ==
    ASSUME Inv, Watched, NEW u \in Upload, LooseStep(u)
    PROVE  Watched'
<1> USE DEF Inv, SafeInv
<1>1. CASE LooseDone(u)
    <2>1. /\ Put(u, "COMPLETED") /\ loose' = loose \ {u} /\ UNCHANGED <<worker, req>> /\ ReqOK'
        BY <1>1 DEF LooseDone, slots, ReqOK
    <2> QED
        BY <2>1, WrittenWatched
<1>2. CASE LooseFails(u)
    <2>1. /\ loose' = loose \ {u} /\ UNCHANGED <<view, worker, req>> /\ Lose({u})
        BY <1>2 DEF LooseFails, store, slots
    <2>2. \A v \in Upload : IsOwned(v)'
        BY <2>1 DEF Watched, IsOwned, Actor, Lose
    <2>3. \A w \in Worker : Decided(w)'
        BY <2>1 DEF Watched, Decided, Lose, Open
    <2> QED
        BY <2>2, <2>3 DEF Watched
<1> QED
    BY <1>1, <1>2 DEF LooseStep

\* What an aborted transaction takes back, the history names.
LEMMA AbortWatched == ASSUME Inv, Watched, Abort PROVE Watched'
<1>1. /\ view' = row /\ UNCHANGED <<worker, loose, req>>
      /\ Lose({v \in Upload : view[v] # row[v]})
    BY DEF Abort, slots, workerRest
<1>2. \A v \in Upload : view'[v] \in Open => v \in abandoned' \/ (view[v] = view'[v] /\ (v \in abandoned => v \in abandoned'))
    BY <1>1 DEF Lose
<1>3. \A v \in Upload : IsOwned(v)'
    BY <1>1, <1>2 DEF Watched, IsOwned, Actor
<1>4. ASSUME NEW w \in Worker PROVE Decided(w)'
    <2>1. worker[w].pc = "leaving" => worker[w].up \in Upload
        BY DEF Inv, SafeInv, SlotOK, Live
    <2> QED
        BY <1>1, <1>2, <2>1 DEF Watched, Decided, Open
<1> QED
    BY <1>3, <1>4 DEF Watched

LEMMA CrashWatched == ASSUME Inv, Watched, Crash PROVE Watched'
<1>1. /\ worker' = [w \in Worker |-> Resting]
      /\ Lose(Upload)
    BY DEF Crash
<1>2. \A v \in Upload : IsOwned(v)'
    BY <1>1 DEF IsOwned, Lose
<1>3. \A w \in Worker : Decided(w)'
    BY <1>1 DEF Decided, Resting
<1> QED
    BY <1>2, <1>3 DEF Watched

LEMMA StepWatched == Inv /\ Watched /\ [Next]_vars => Watched'
<1> SUFFICES ASSUME Inv, Watched, [Next]_vars PROVE Watched'
    OBVIOUS
<1> USE DEF Inv, SafeInv
<1>1. CASE UNCHANGED vars
    <2>1. \A v \in Upload : Actor(v) => Actor(v)'
        BY <1>1 DEF vars, slots, Actor
    <2> QED
        BY <1>1, <2>1, RestWatched DEF vars, slots, store
<1>2. ASSUME NEW c \in Client, NEW f, Accept(c, f) PROVE Watched'
    <2>1. \A v \in Upload : Actor(v) => Actor(v)'
        BY <1>2 DEF Accept, Actor, Idle, ReqOK, slots
    <2> QED
        BY <1>2, <2>1, RestWatched DEF Accept, slots, store
<1>3. ASSUME NEW c \in Client, NEW u \in Upload, Retry(c, u) PROVE Watched'
    <2>1. \A v \in Upload : Actor(v) => Actor(v)'
        BY <1>3 DEF Retry, Actor, Idle, ReqOK, slots
    <2> QED
        BY <1>3, <2>1, RestWatched DEF Retry, slots, store
<1>4. ASSUME NEW c \in Client, NEW u \in Upload, Delete(c, u) PROVE Watched'
    <2>1. /\ Put(u, "deleted") /\ UNCHANGED <<batch, worker, loose, req>> /\ ReqOK'
        BY <1>4 DEF Delete, slots, ReqOK
    <2> QED
        BY <2>1, WrittenWatched
<1> QED
    BY <1>1, <1>2, <1>3, <1>4, RequestsWatched, ThreadsWatched, LooseWatched, AbortWatched,
       CrashWatched, UploaderAssumption DEF Next

\* A row that says PENDING or PROCESSING has somebody working towards a verdict,
\* but for the uploads the history names: whatever the handlers, the retries, the
\* threads, the shared transaction and the crashes do.
THEOREM UnsettledAreWatched == Spec => []UnsettledHasActor
<1>1. Init => Watched
    BY DEF Init, Watched, IsOwned, Decided, Open, Resting
<1>2. Inv /\ Watched => UnsettledHasActor
    <2> SUFFICES ASSUME Inv, Watched, NEW u \in Upload, row[u] \in Open
                 PROVE  HasActor(u) \/ u \in abandoned
        BY DEF UnsettledHasActor
    <2>1. CASE view[u] \in Open
        BY <2>1 DEF Watched, IsOwned, Actor, HasActor
    <2>2. CASE view[u] \notin Open
        BY <2>2 DEF Inv, SafeInv, StoreOK, HasActor
    <2> QED
        BY <2>1, <2>2
<1>3. Spec => []Watched
    BY <1>1, StepWatched, Always, PTL DEF Spec
<1> QED
    BY <1>2, <1>3, Always, PTL

-----------------------------------------------------------------------------
(* The slots implement SlotContract.                                        *)

Pairs == {<<w, worker[w].up>> : w \in LiveSet}

\* No more pairs than threads that run.
LEMMA PairsCounted == ASSUME SlotOK PROVE Cardinality(Pairs) = active
<1> DEFINE f == [w \in LiveSet |-> <<w, worker[w].up>>]
<1>1. f \in Bijection(LiveSet, Pairs)
    BY DEF Bijection, Injection, Surjection, IsInjective, Pairs
<1>2. ExistsBijection(LiveSet, Pairs)
    BY <1>1 DEF ExistsBijection
<1> QED
    BY <1>2, LiveFinite, FS_Bijection DEF SlotOK

\* Unless a thread starts or ends, the pairs stay.
LEMMA PairsKept ==
    ASSUME SlotOK, \/ UNCHANGED worker
                   \/ \E w \in Worker, l \in WorkerPc \ {"none"} : Live(w) /\ WorkerGoto(w, l)
    PROVE  Pairs' = Pairs
<1>1. CASE UNCHANGED worker
    BY <1>1 DEF Pairs, LiveSet, Live
<1>2. ASSUME NEW w \in Worker, NEW l \in WorkerPc \ {"none"}, Live(w), WorkerGoto(w, l)
      PROVE  Pairs' = Pairs
    <2>1. \A v \in Worker : worker'[v].up = worker[v].up /\ (Live(v)' <=> Live(v))
        BY <1>2 DEF WorkerGoto, SlotOK, Live
    <2>2. LiveSet' = LiveSet
        BY <2>1 DEF LiveSet
    <2> QED
        BY <2>1, <2>2 DEF Pairs, LiveSet
<1> QED
    BY <1>1, <1>2

LEMMA TakePairs ==
    ASSUME SlotOK, NEW u \in Upload, Take(u)
    PROVE  \E w \in Worker : /\ \A p \in Pairs : p[1] # w /\ p[2] # u
                             /\ Cardinality(Pairs) < Slots
                             /\ Pairs' = Pairs \cup {<<w, u>>}
<1>1. PICK w \in Worker : ~Live(w) /\ worker' = [worker EXCEPT ![w] = [pc |-> "parse", up |-> u]]
    BY DEF Take
<1>2. /\ worker'[w].up = u /\ Live(w)'
      /\ \A v \in Worker : v # w => worker'[v] = worker[v] /\ (Live(v)' <=> Live(v))
    BY <1>1 DEF SlotOK, Live
<1>3. LiveSet' = LiveSet \cup {w} /\ w \notin LiveSet
    BY <1>1, <1>2 DEF LiveSet
<1>4. \A p \in Pairs : p[1] # w /\ p[2] # u
    BY <1>3 DEF Pairs, Take, SlotOK
<1>5. Pairs' = Pairs \cup {<<w, u>>}
    BY <1>2, <1>3 DEF Pairs, LiveSet
<1>6. Cardinality(Pairs) < Slots
    BY PairsCounted DEF Take
<1> QED
    BY <1>4, <1>5, <1>6

LEMMA ReleasePairs ==
    ASSUME SlotOK, NEW w \in Worker, Release(w)
    PROVE  \E u \in Upload : <<w, u>> \in Pairs /\ Pairs' = Pairs \ {<<w, u>>}
<1>1. Live(w) /\ worker' = [worker EXCEPT ![w] = Resting]
    BY DEF Release, Live
<1>2. /\ ~Live(w)'
      /\ \A v \in Worker : v # w => worker'[v] = worker[v] /\ (Live(v)' <=> Live(v))
    BY <1>1 DEF SlotOK, Live, Resting
<1>3. LiveSet' = LiveSet \ {w} /\ w \in LiveSet
    BY <1>1, <1>2 DEF LiveSet
<1>4. worker[w].up \in Upload /\ <<w, worker[w].up>> \in Pairs
    BY <1>1, <1>3 DEF SlotOK, Pairs
<1>5. Pairs' = Pairs \ {<<w, worker[w].up>>}
    BY <1>2, <1>3 DEF Pairs, LiveSet
<1> QED
    BY <1>4, <1>5

LEMMA TriggerPairs ==
    ASSUME SlotOK, NEW u \in Upload, Trigger(u)
    PROVE  Take(u) \/ UNCHANGED worker
BY DEF Trigger, Skip, Busy, slots

\* Every step starts a thread, ends one, ends all or leaves the slots alone.
LEMMA StepPairs ==
    ASSUME Inv, [Next]_vars
    PROVE  \/ Pairs' = Pairs
           \/ \E u \in Upload : Take(u)
           \/ \E w \in Worker : Release(w)
           \/ Pairs' = {}
<1> USE DEF Inv, SafeInv
<1>1. CASE \/ UNCHANGED vars \/ Abort
           \/ \E c \in Uploader, g \in File : Accept(c, g)
           \/ \E c \in Client, u \in Upload : Retry(c, u) \/ Delete(c, u)
           \/ \E c \in Client : Insert(c) \/ Certify(c) \/ Save(c) \/ Spawn(c) \/ Reset(c)
           \/ \E u \in Upload : LooseStep(u)
    <2>1. UNCHANGED worker
        BY <1>1 DEF vars, slots, Abort, Accept, Retry, Delete, Insert, Certify, Save, Spawn, Reset,
                    LooseStep, LooseDone, LooseFails
    <2> QED
        BY <2>1, PairsKept
<1>2. ASSUME NEW c \in Client, FirstTrigger(c) \/ SecondTrigger(c) \/ Retrigger(c)
      PROVE  (\E u \in Upload : Take(u)) \/ Pairs' = Pairs
    <2>1. req[c].up \in Upload /\ Trigger(req[c].up)
        BY <1>2 DEF FirstTrigger, SecondTrigger, Retrigger, ReqOK
    <2> QED
        BY <2>1, TriggerPairs, PairsKept
<1>3. ASSUME NEW w \in Worker, WorkerStep(w)
      PROVE  Release(w) \/ Pairs' = Pairs
    <2>1. \/ Release(w)
          \/ Live(w) /\ \E l \in WorkerPc \ {"none"} : WorkerGoto(w, l)
        BY <1>3 DEF WorkerStep, Parse, Begin, End, Finish, Verdict, Live, WorkerPc
    <2> QED
        BY <2>1, PairsKept
<1>4. CASE Crash
    BY <1>4 DEF Crash, Pairs, LiveSet, Live, Resting
<1> QED
    BY <1>1, <1>2, <1>3, <1>4 DEF Next, ClientStep

\* The handlers, retries, threads and crashes together keep what SlotContract
\* promises: one thread for an upload, and no more than the limit.
THEOREM JobsKeepContract == Spec => SlotsSpec
<1>1. Init => Contract!Init
    BY DEF Init, Contract!Init, Live, Resting
<1>2. Inv /\ [Next]_vars => [Contract!Next]_(Pairs)
    <2> SUFFICES ASSUME Inv, [Next]_vars PROVE Contract!Next \/ UNCHANGED Pairs
        OBVIOUS
    <2>1. Contract!Cardinality(Pairs) = Cardinality(Pairs)
        BY DEF Contract!Cardinality, Cardinality
    <2>2. Pairs = {<<w, worker[w].up>> : w \in {v \in Worker : Live(v)}}
        BY DEF Pairs, LiveSet
    <2>3. SlotOK
        BY DEF Inv, SafeInv
    <2>4. ASSUME NEW u \in Upload, Take(u) PROVE Contract!Next
        BY <2>1, <2>2, <2>3, <2>4, TakePairs DEF Contract!Next, Contract!Take, Pairs, LiveSet
    <2>5. ASSUME NEW w \in Worker, Release(w) PROVE Contract!Next
        BY <2>2, <2>3, <2>5, ReleasePairs DEF Contract!Next, Contract!Give, Pairs, LiveSet
    <2>6. CASE Pairs' = {}
        BY <2>6 DEF Contract!Next, Contract!Lose, Pairs, LiveSet
    <2> QED
        BY <2>4, <2>5, <2>6, StepPairs
<1>3. Inv /\ [Next]_vars => [Contract!Next]_({<<w, worker[w].up>> : w \in {v \in Worker : Live(v)}})
    BY <1>2 DEF Pairs, LiveSet
<1> QED
    BY <1>1, <1>3, Always, PTL DEF Spec, SlotsSpec, Contract!Spec

-----------------------------------------------------------------------------
(* The entries of LDIF files.                                              *)

Pcs == {"idle", "refused", "preload", "begin", "entry", "insert", "validation", "crl",
        "revoked", "stray", "stray ldap", "ldap", "flag", "commit", "end", "failed", "done"}

\* The entry is being dealt with, and its certificate or CRL is stored, or lost.
AtEntry == {"entry", "insert", "validation", "crl", "revoked", "stray", "stray ldap", "ldap", "flag"}
Inserted == {"validation", "revoked", "stray", "stray ldap", "ldap", "flag"}
\* Of these, a row is still to be written that goes with it.
Writing == {"validation", "revoked", "stray"}
\* Between the BEGIN of a batch and its COMMIT.
InBatch == AtEntry \cup {"commit", "end"}

BatchShape ==
    /\ dbType \in {"postgres", "oracle"}
    /\ batchMode \in {"off", "on", "aborted"}
    /\ batchMode = "off" => pend = {} /\ mark = {}
    /\ mark = {} \/ \E m \in SUBSET pend : mark = {m}
    /\ dbType = "oracle" => batchMode # "aborted" /\ mark = {}

JobShape ==
    /\ pc \in [Job -> Pcs] /\ at \in [Job -> Nat] /\ content \in [Job -> Seq(Entry)]
    /\ \A j \in Job : /\ at[j] \in 1..(Len(content[j]) + 1)
                      /\ pc[j] \in AtEntry => at[j] <= Len(content[j])
                      /\ pc[j] \in {"insert", "validation"} => Here(j) \in Cert
                      /\ pc[j] \in {"crl", "revoked", "stray"} => Here(j) \in Crl
                      /\ pc[j] \in {"end", "done"} => at[j] = Len(content[j]) + 1

\* Whoever began the batch is between its two ends.
BatchHasJob == batchMode # "off" => \E i \in Job : pc[i] \in InBatch

FlagsOK ==
    /\ FlagImpliesLdap
    /\ \A j \in Job : pc[j] = "flag" => Here(j) \in ldap

Known(x) == <<IF x \in Cert THEN "certificate" ELSE "crl", x>> \in db \cup pend
Spent(x) == x \in lost \cup hit
Met(x) == Known(x) \/ Spent(x)
InHand(x) == \E i \in Job : pc[i] \in Writing /\ Here(i) = x
Accounted(x) == Spent(x) \/ Complete(x) \subseteq db \cup pend \/ InHand(x)

\* A certificate or CRL that is there, committed or not, has the rows that go with
\* it, is in the hands of an upload that writes them, or the history knows of it;
\* and an upload leaves behind none that is not there.
NothingForgotten == \A x \in Entry : Known(x) => Accounted(x)
Past == \A j \in Job, x \in Entry : (\E k \in 1..(at[j] - 1) : content[j][k] = x) => Met(x)
Present == \A j \in Job, x \in Entry : pc[j] \in Inserted /\ Here(j) = x => Met(x)

CacheOK == cache \subseteq Cert /\ CacheIsStored

\* On Oracle a statement that fails takes none with it.
LossAlone == dbType = "oracle" => lost \subseteq hit

LdifInv == BatchShape /\ JobShape /\ BatchHasJob /\ FlagsOK /\ CacheOK /\ LossAlone
           /\ NothingForgotten /\ Past /\ Present

-----------------------------------------------------------------------------
(* What statements and transactions keep.                                  *)

\* No row disappears that the history does not know of.
RowsKept ==
    /\ dbType' = dbType /\ content' = content
    /\ db \subseteq db' /\ lost \subseteq lost' /\ hit \subseteq hit'
    /\ \A r \in pend : r \in db' \cup pend' \/ r[2] \in lost'
    /\ dbType = "oracle" => lost' \subseteq lost \cup hit'
    /\ dbType = "oracle" => \A r : Visible(r) => Visible(r)' \/ r[2] \in hit'

\* What has been met stays met, and what is complete stays so or is lost.
LEMMA MetStays ==
    ASSUME RowsKept
    PROVE  /\ \A x : Spent(x) => Spent(x)'
           /\ \A x : Met(x) => Met(x)'
           /\ \A x : Complete(x) \subseteq db \cup pend => Spent(x)' \/ Complete(x)' \subseteq db' \cup pend'
<1>1. \A x : Spent(x) => Spent(x)'
    BY DEF RowsKept, Spent
<1>2. ASSUME NEW x, Met(x) PROVE Met(x)'
    BY <1>1, <1>2 DEF RowsKept, Met, Known, Spent
<1>3. ASSUME NEW x, Complete(x) \subseteq db \cup pend, ~Spent(x)' PROVE Complete(x)' \subseteq db' \cup pend'
    <2>1. Complete(x)' = Complete(x)
        BY DEF Complete, RowsKept
    <2>2. \A r \in Complete(x) : r[2] = x
        BY DEF Complete
    <2> QED
        BY <1>3, <2>1, <2>2 DEF RowsKept, Spent
<1> QED
    BY <1>1, <1>2, <1>3

\* One upload takes a step: what it makes known it takes in hand, what it had in
\* hand is accounted for, and what it leaves behind is met.
LEMMA StepsForward ==
    ASSUME JobShape, NothingForgotten, Past, Present, RowsKept, NEW j \in Job, NEW h, h = Here(j),
           pc' \in [Job -> Pcs], at' \in [Job -> Nat],
           \A i \in Job \ {j} : pc'[i] = pc[i] /\ at'[i] = at[i],
           \A x \in Entry : Known(x)' => Known(x) \/ Accounted(x)',
           pc[j] \in Writing => Accounted(h)',
           at'[j] \in {1, at[j]} \/ (at'[j] = at[j] + 1 /\ Met(h)'),
           pc'[j] \in Inserted => at'[j] = at[j] /\ Met(h)'
    PROVE  NothingForgotten' /\ Past' /\ Present'
<1>0. content' = content /\ \A i \in Job \ {j} : Here(i)' = Here(i)
    BY DEF RowsKept, Here
<1>1. ASSUME NEW x \in Entry, Known(x)' PROVE Accounted(x)'
    <2>1. CASE Known(x) /\ ~Accounted(x)'
        <3>1. Accounted(x)
            BY <2>1 DEF NothingForgotten
        <3>2. ~Spent(x) /\ ~(Complete(x) \subseteq db \cup pend)
            BY <2>1, MetStays DEF Accounted
        <3>3. PICK i \in Job : pc[i] \in Writing /\ Here(i) = x
            BY <3>1, <3>2 DEF Accounted, InHand
        <3>4. i # j
            BY <2>1, <3>3
        <3>5. pc'[i] \in Writing /\ Here(i)' = x
            BY <1>0, <3>3, <3>4
        <3> QED
            BY <2>1, <3>5 DEF Accounted, InHand
    <2> QED
        BY <1>1, <2>1
<1>2. ASSUME NEW i \in Job, NEW x \in Entry, NEW k \in 1..(at'[i] - 1), content[i][k] = x PROVE Met(x)'
    <2>0. at[i] \in Nat /\ at[j] \in Nat
        BY DEF JobShape
    <2>1. CASE k \in 1..(at[i] - 1)
        BY <1>2, <2>1, MetStays DEF Past
    <2>2. CASE i # j
        BY <2>1, <2>2
    <2>3. CASE i = j /\ at'[j] \in {1, at[j]}
        BY <2>0, <2>1, <2>3
    <2>4. CASE i = j /\ at'[j] = at[j] + 1 /\ Met(h)'
        <3>1. k \in 1..(at[j] - 1) \/ k = at[j]
            BY <2>0, <2>4
        <3>2. CASE k = at[j]
            <4>1. x = h
                BY <1>2, <2>4, <3>2 DEF Here
            <4> QED
                BY <2>4, <4>1
        <3> QED
            BY <2>1, <2>4, <3>1, <3>2
    <2> QED
        BY <2>2, <2>3, <2>4
<1>3. ASSUME NEW i \in Job, NEW x \in Entry, pc'[i] \in Inserted, Here(i)' = x PROVE Met(x)'
    <2>1. CASE i # j
        BY <1>0, <1>3, <2>1, MetStays DEF Present
    <2>2. CASE i = j
        <3>1. x = h
            BY <1>0, <1>3, <2>2 DEF Here
        <3> QED
            BY <1>3, <2>2, <3>1
    <2> QED
        BY <2>1, <2>2
<1>4. Past'
    <2> SUFFICES ASSUME NEW i \in Job, NEW x \in Entry, NEW k \in 1..(at'[i] - 1), content'[i][k] = x PROVE Met(x)'
        BY DEF Past
    <2> QED
        BY <1>0, <1>2
<1> QED
    BY <1>1, <1>3, <1>4 DEF NothingForgotten, Present

-----------------------------------------------------------------------------
(* One step of one upload, in the terms of the parts of the invariant.     *)

JobMoves(j) ==
    /\ pc' \in [Job -> Pcs] /\ at' \in [Job -> Nat] /\ content' = content
    /\ \A i \in Job \ {j} : pc'[i] = pc[i] /\ at'[i] = at[i]

\* Then moves one upload to another step of its entry.
LEMMA ThenMoves ==
    ASSUME JobShape, NEW j \in Job, NEW l \in Pcs, Then(j, l), content' = content
    PROVE  JobMoves(j) /\ at' = at /\ pc'[j] = l
BY DEF JobShape, JobMoves, Then, Proceed

\* Leave moves it by one entry, to a commit or to the next.
LEMMA LeaveMoves ==
    ASSUME JobShape, NEW j \in Job, pc[j] \in AtEntry, Leave(j), content' = content
    PROVE  JobMoves(j) /\ at'[j] = at[j] + 1 /\ pc'[j] \in {"commit", "entry"} /\ JobShape'
<1>1. at[j] \in Nat /\ at[j] \in 1..Len(content[j]) /\ Len(content[j]) \in Nat
    BY DEF JobShape
<1>2. at' \in [Job -> Nat] /\ at'[j] = at[j] + 1 /\ \A i \in Job \ {j} : at'[i] = at[i]
    BY <1>1 DEF Leave, JobShape
<1>3. pc' \in [Job -> Pcs] /\ \A i \in Job \ {j} : pc'[i] = pc[i]
    BY DEF Leave, Proceed, JobShape, Pcs
<1>4. pc'[j] \in {"commit", "entry"} /\ (at[j] = Len(content[j]) => pc'[j] = "commit")
    BY DEF Leave, Proceed, JobShape
<1>5. JobShape'
    <2> SUFFICES ASSUME NEW i \in Job
                 PROVE  /\ at'[i] \in 1..(Len(content[i]) + 1)
                        /\ pc'[i] \in AtEntry => at'[i] <= Len(content[i])
                        /\ pc'[i] \in {"insert", "validation"} => content[i][at'[i]] \in Cert
                        /\ pc'[i] \in {"crl", "revoked", "stray"} => content[i][at'[i]] \in Crl
                        /\ pc'[i] \in {"end", "done"} => at'[i] = Len(content[i]) + 1
        BY <1>2, <1>3 DEF JobShape, Here
    <2>1. CASE i = j
        <3>1. at'[j] \in 1..(Len(content[j]) + 1)
            BY <1>1, <1>2
        <3>2. pc'[j] = "entry" => at'[j] <= Len(content[j])
            BY <1>1, <1>2, <1>4
        <3> QED
            BY <1>4, <2>1, <3>1, <3>2 DEF AtEntry
    <2>2. CASE i # j
        BY <1>2, <1>3, <2>2 DEF JobShape, Here
    <2> QED
        BY <2>1, <2>2
<1> QED
    BY <1>2, <1>3, <1>4, <1>5 DEF JobMoves

\* An upload may go where its entry allows.
LEMMA ShapeStays ==
    ASSUME JobShape, NEW j \in Job, JobMoves(j),
           at'[j] \in 1..(Len(content[j]) + 1),
           pc'[j] \in AtEntry => at'[j] <= Len(content[j]),
           pc'[j] \in {"insert", "validation"} => content[j][at'[j]] \in Cert,
           pc'[j] \in {"crl", "revoked", "stray"} => content[j][at'[j]] \in Crl,
           pc'[j] \in {"end", "done"} => at'[j] = Len(content[j]) + 1
    PROVE  JobShape'
<1> SUFFICES ASSUME NEW i \in Job
             PROVE  /\ at'[i] \in 1..(Len(content[i]) + 1)
                    /\ pc'[i] \in AtEntry => at'[i] <= Len(content[i])
                    /\ pc'[i] \in {"insert", "validation"} => content[i][at'[i]] \in Cert
                    /\ pc'[i] \in {"crl", "revoked", "stray"} => content[i][at'[i]] \in Crl
                    /\ pc'[i] \in {"end", "done"} => at'[i] = Len(content[i]) + 1
    BY DEF JobShape, JobMoves, Here
<1>1. CASE i = j
    BY <1>1
<1>2. CASE i # j
    BY <1>2 DEF JobShape, JobMoves, Here
<1> QED
    BY <1>1, <1>2

\* What a step has to show for the whole invariant to be kept.
LEMMA StepKeeps ==
    ASSUME LdifInv, NEW j \in Job, NEW h, h = Here(j),
           JobMoves(j), JobShape', BatchShape', RowsKept,
           batchMode' # "off" => batchMode # "off" \/ pc'[j] \in InBatch,
           pc[j] \in InBatch => pc'[j] \in InBatch \/ batchMode' = "off",
           ldap \subseteq ldap',
           \A r \in db' \cup pend' : r[1] = "flag" => r \in db \cup pend \/ r[2] \in ldap',
           pc'[j] = "flag" => at'[j] = at[j] /\ h \in ldap',
           cache' \subseteq Cert,
           \A x \in cache' : x \in cache \/ Committed("certificate", x)'
                             \/ (dbType = "oracle" /\ Visible(<<"certificate", x>>)'),
           \A x \in Entry : Known(x)' => Known(x) \/ Accounted(x)'
                                         \/ (x = h /\ pc'[j] \in Writing /\ at'[j] = at[j]),
           pc[j] \in Writing => Accounted(h)',
           at'[j] \in {1, at[j]} \/ (at'[j] = at[j] + 1 /\ Met(h)'),
           pc'[j] \in Inserted => at'[j] = at[j] /\ Met(h)'
    PROVE  LdifInv'
<1> USE DEF LdifInv
<1>1. BatchHasJob'
    <2> SUFFICES ASSUME batchMode' # "off" PROVE \E i \in Job : pc'[i] \in InBatch
        BY DEF BatchHasJob
    <2>1. CASE pc'[j] \in InBatch
        BY <2>1
    <2>2. CASE batchMode # "off" /\ pc[j] \notin InBatch
        <3>1. PICK i \in Job : pc[i] \in InBatch
            BY <2>2 DEF BatchHasJob
        <3> QED
            BY <2>2, <3>1 DEF JobMoves
    <2> QED
        BY <2>1, <2>2
<1>2. FlagsOK'
    <2>1. FlagImpliesLdap'
        BY DEF FlagsOK, FlagImpliesLdap
    <2>2. ASSUME NEW i \in Job, pc'[i] = "flag" PROVE Here(i)' \in ldap'
        BY <2>2 DEF FlagsOK, JobMoves, Here
    <2> QED
        BY <2>1, <2>2 DEF FlagsOK
<1>3. CacheOK'
    <2> SUFFICES ASSUME NEW x \in cache'
                 PROVE  Committed("certificate", x)'
                        \/ (dbType' = "oracle" /\ (Visible(<<"certificate", x>>)' \/ x \in hit'))
        BY DEF CacheOK, CacheIsStored
    <2>1. CASE x \in cache
        <3> DEFINE line == <<"certificate", x>>
        <3>1. line[2] = x
            OBVIOUS
        <3>2. line \in db \/ (dbType = "oracle" /\ (Visible(line) \/ x \in hit))
            BY <2>1 DEF CacheOK, CacheIsStored, Committed
        <3>3. line \in db' \/ (dbType' = "oracle" /\ (Visible(line)' \/ x \in hit'))
            <4> HIDE DEF line
            <4> QED
                BY <3>1, <3>2 DEF RowsKept
        <3> QED
            BY <3>3 DEF Committed, Visible
    <2> QED
        BY <2>1 DEF RowsKept
<1>4. LossAlone'
    BY DEF LossAlone, RowsKept
<1>5. \A x \in Entry : Known(x)' => Known(x) \/ Accounted(x)'
    <2> SUFFICES ASSUME NEW x \in Entry, x = h, pc'[j] \in Writing, at'[j] = at[j] PROVE Accounted(x)'
        OBVIOUS
    <2> QED
        BY DEF Accounted, InHand, Here, JobMoves
<1>6. NothingForgotten' /\ Past' /\ Present'
    BY <1>5, StepsForward DEF JobMoves
<1> QED
    BY <1>1, <1>2, <1>3, <1>4, <1>6

-----------------------------------------------------------------------------
(* The statements.                                                         *)

SameBatch == RowsKept /\ BatchShape' /\ (batchMode' = "off" <=> batchMode = "off")

\* A row that is added is seen, committed or in the batch, and nothing else changes.
LEMMA AppliedKeeps ==
    ASSUME BatchShape, NEW r, Applied(r), dbType' = dbType, content' = content
    PROVE  SameBatch /\ db' \cup pend' = (db \cup pend) \cup {r} /\ Visible(r)'
BY DEF BatchShape, Applied, SameBatch, RowsKept, Visible, history

Failed(x) == Ignored(x) \/ Refused(x) \/ RefusedAlone(x)

\* A statement that fails leaves the rows alone and its entry to the history.
LEMMA FailedKeeps ==
    ASSUME BatchShape, NEW x, Failed(x), dbType' = dbType, content' = content
    PROVE  SameBatch /\ db' = db /\ pend' = pend /\ Spent(x)'
BY DEF BatchShape, Failed, Ignored, Refused, RefusedAlone, SameBatch, RowsKept, Visible, Spent, tx

\* A step without a statement, or with no more than a savepoint.
LEMMA QuietKeeps ==
    ASSUME BatchShape, UNCHANGED <<dbType, content, db, batchMode, pend, history>>, mark' = mark \/ Savepoint
    PROVE  SameBatch /\ db' = db /\ pend' = pend
BY DEF BatchShape, Savepoint, SameBatch, RowsKept, Visible, history

\* What a repository sends is applied or fails.
LEMMA CommandOutcomes ==
    ASSUME NEW r, NEW x, NEW parents, Command(r, x, parents)
    PROVE  Applied(r) \/ Failed(x)
BY DEF Command, Fails, Failed

\* Back to the savepoint: the history has the entries whose rows go.
LEMMA RollbackKeeps ==
    ASSUME BatchShape, RollbackToSavepoint, UNCHANGED <<dbType, content, db, mark>>, hit \subseteq hit'
    PROVE  SameBatch /\ pend' \subseteq pend
BY DEF BatchShape, RollbackToSavepoint, SameBatch, RowsKept, Visible

\* After a COMMIT nothing is pending; what it dropped the history has.
LEMMA CommitKeeps ==
    ASSUME BatchShape, (EndBatch /\ UNCHANGED <<hit, faults>>) \/ CommitLost,
           dbType' = dbType, content' = content
    PROVE  RowsKept /\ BatchShape' /\ batchMode' = "off" /\ db' \cup pend' \subseteq db \cup pend
BY DEF BatchShape, EndBatch, CommitLost, RowsKept, Visible

-----------------------------------------------------------------------------
(* The steps.                                                              *)

\* What an upload has in hand is an entry of its file; a cached certificate was met.
LEMMA EntryFacts ==
    ASSUME LdifInv, NEW j \in Job, pc[j] \in AtEntry, NEW h, h = Here(j)
    PROVE  /\ h \in Entry /\ (h \in Crl => h \notin Cert)
           /\ at[j] \in 1..Len(content[j])
           /\ pc[j] \in Inserted => Met(h)
           /\ h \in cache => Met(h)
<1>1. at[j] \in 1..Len(content[j]) /\ h \in Entry
    BY DEF LdifInv, JobShape, Here
<1>2. pc[j] \in Inserted => Met(h)
    BY <1>1 DEF LdifInv, Present
<1>3. ASSUME h \in cache PROVE Met(h)
    BY <1>3 DEF LdifInv, CacheOK, CacheIsStored, Committed, Visible, Met, Known, Spent
<1> QED
    BY <1>1, <1>2, <1>3, EntryAssumption

\* A step within an entry that touches neither LDAP nor the cache.
LEMMA EntryStepKeeps ==
    ASSUME LdifInv, NEW j \in Job, NEW h, h = Here(j), pc[j] \in AtEntry, pc'[j] \in InBatch \ {"flag"},
           JobMoves(j), JobShape', SameBatch, UNCHANGED <<cache, ldap>>,
           \A r \in db' \cup pend' : r[1] = "flag" => r \in db \cup pend \/ r[2] \in ldap',
           \A x \in Entry : Known(x)' => Known(x) \/ Accounted(x)'
                                         \/ (x = h /\ pc'[j] \in Writing /\ at'[j] = at[j]),
           pc[j] \in Writing => Accounted(h)',
           at'[j] = at[j] \/ (at'[j] = at[j] + 1 /\ Met(h)'),
           pc'[j] \in Inserted => at'[j] = at[j] /\ Met(h)'
    PROVE  LdifInv'
BY StepKeeps DEF LdifInv, SameBatch, CacheOK

\* The rows are as they were: only the place in the file has changed.
LEMMA QuietEntryKeeps ==
    ASSUME LdifInv, NEW j \in Job, NEW h, h = Here(j), pc[j] \in AtEntry \ Writing, pc'[j] \in InBatch \ {"flag"},
           JobMoves(j), JobShape', SameBatch, db' = db, pend' = pend, UNCHANGED <<cache, ldap>>,
           at'[j] = at[j] \/ (at'[j] = at[j] + 1 /\ Met(h)),
           pc'[j] \in Inserted => at'[j] = at[j] /\ Met(h)
    PROVE  LdifInv'
<1>1. \A x : Known(x)' => Known(x)
    BY DEF Known
<1>2. Met(h) => Met(h)'
    BY MetStays DEF SameBatch
<1> QED
    BY <1>1, <1>2, EntryStepKeeps

\* The handler inserts the upload's row.
LEMMA ArriveKeeps ==
    ASSUME LdifInv, NEW j \in Job, Arrive(j)
    PROVE  LdifInv'
<1> USE DEF LdifInv
<1> PICK h : h = Here(j)
    OBVIOUS
<1>1. pc[j] = "idle" /\ UNCHANGED <<dbType, cache, ldap, content, at>>
    BY DEF Arrive
<1>2. PICK l \in {"preload", "refused"} : Proceed(j, l) /\ (Applied(<<"upload", j>>) \/ Failed(j))
    BY DEF Arrive, Fails, Failed
<1>3. JobMoves(j) /\ pc'[j] = l
    BY <1>1, <1>2 DEF JobShape, JobMoves, Proceed, Pcs
<1>4. JobShape'
    BY <1>1, <1>2, <1>3, ShapeStays DEF JobShape, AtEntry
<1>5. SameBatch /\ \A r \in db' \cup pend' : r \in db \cup pend \/ r = <<"upload", j>>
    BY <1>1, <1>2, AppliedKeeps, FailedKeeps
<1>6. \A x : Known(x)' => Known(x)
    BY <1>5 DEF Known
<1>7. \A r \in db' \cup pend' : r[1] = "flag" => r \in db \cup pend
    BY <1>5
<1>8. pc[j] \notin InBatch /\ pc[j] \notin Writing /\ pc'[j] \notin Inserted /\ pc'[j] # "flag"
    BY <1>1, <1>2, <1>3 DEF InBatch, AtEntry, Writing, Inserted
<1> QED
    BY <1>1, <1>3, <1>4, <1>5, <1>6, <1>7, <1>8, StepKeeps DEF SameBatch, CacheOK

\* preloadExistingFingerprints: the cache is what is committed.
LEMMA PreloadKeeps ==
    ASSUME LdifInv, NEW j \in Job, PreloadExistingFingerprints(j)
    PROVE  LdifInv'
<1> USE DEF LdifInv
<1> PICK h : h = Here(j)
    OBVIOUS
<1>1. pc[j] = "preload" /\ UNCHANGED <<dbType, db, tx, ldap, content, at, history, faults>> /\ Proceed(j, "begin")
    BY DEF PreloadExistingFingerprints
<1>2. JobMoves(j) /\ pc'[j] = "begin"
    BY <1>1 DEF JobShape, JobMoves, Proceed, Pcs
<1>3. JobShape'
    BY <1>1, <1>2, ShapeStays DEF JobShape, AtEntry
<1>4. SameBatch /\ db' = db /\ pend' = pend
    BY <1>1, QuietKeeps DEF tx
<1>5. cache' \subseteq Cert /\ \A x \in cache' : Committed("certificate", x)'
    BY <1>4 DEF PreloadExistingFingerprints, Committed
<1>6. \A x : Known(x)' => Known(x)
    BY <1>4 DEF Known
<1>7. pc[j] \notin InBatch /\ pc[j] \notin Writing /\ pc'[j] \notin Inserted /\ pc'[j] # "flag"
    BY <1>1, <1>2 DEF InBatch, AtEntry, Writing, Inserted
<1> QED
    BY <1>1, <1>2, <1>3, <1>4, <1>5, <1>6, <1>7, StepKeeps DEF SameBatch

\* beginBatch, for the one that begins it and for the others.
LEMMA BeginKeeps ==
    ASSUME LdifInv, NEW j \in Job, BeginEntries(j)
    PROVE  LdifInv'
<1> USE DEF LdifInv
<1> PICK h : h = Here(j)
    OBVIOUS
<1>1. pc[j] = "begin" /\ BeginBatch /\ UNCHANGED <<dbType, db, cache, ldap, content, at, history, faults>>
    BY DEF BeginEntries
<1>2. JobMoves(j) /\ pc'[j] = IF at[j] > Len(content[j]) THEN "end" ELSE "entry"
    BY <1>1 DEF BeginEntries, JobShape, JobMoves, Proceed, Pcs
<1>3. at[j] \in 1..(Len(content[j]) + 1) /\ Len(content[j]) \in Nat
    BY DEF JobShape
<1>4. JobShape'
    <2>1. at'[j] \in 1..(Len(content[j]) + 1)
        BY <1>1, <1>3
    <2>2. CASE at[j] > Len(content[j])
        <3>1. pc'[j] = "end" /\ at'[j] = Len(content[j]) + 1
            BY <1>1, <1>2, <1>3, <2>2
        <3> QED
            BY <1>2, <2>1, <3>1, ShapeStays DEF AtEntry
    <2>3. CASE ~(at[j] > Len(content[j]))
        BY <1>1, <1>2, <1>3, <2>1, <2>3, ShapeStays
    <2> QED
        BY <2>2, <2>3
<1>5. BatchShape' /\ db' = db /\ pend' = pend /\ RowsKept
    BY <1>1 DEF BatchShape, BeginBatch, RowsKept, Visible, history, tx
<1>6. \A x : Known(x)' => Known(x)
    BY <1>5 DEF Known
<1>7. pc[j] \notin InBatch /\ pc[j] \notin Writing /\ pc'[j] \notin Inserted /\ pc'[j] # "flag" /\ pc'[j] \in InBatch
    BY <1>1, <1>2 DEF InBatch, AtEntry, Writing, Inserted
<1> QED
    BY <1>1, <1>2, <1>4, <1>5, <1>6, <1>7, StepKeeps DEF CacheOK

\* An upload fails at BEGIN, and is retried from its first entry.
LEMMA BeginThrowsKeeps ==
    ASSUME LdifInv, NEW j \in Job, BeginThrows(j) \/ RetryEntries(j)
    PROVE  LdifInv'
<1> USE DEF LdifInv
<1> PICK h : h = Here(j)
    OBVIOUS
<1>1. UNCHANGED <<dbType, db, tx, cache, ldap, content, history>>
    BY DEF BeginThrows, RetryEntries
<1>2. PICK l \in {"failed", "preload"} : Proceed(j, l) /\ pc[j] \in {"begin", "failed"}
    BY DEF BeginThrows, RetryEntries
<1>3. at' = at \/ at' = [at EXCEPT ![j] = 1]
    BY DEF BeginThrows, RetryEntries
<1>4. JobMoves(j) /\ pc'[j] = l /\ at'[j] \in {1, at[j]}
    <2>1. /\ at' \in [Job -> Nat] /\ at'[j] \in {1, at[j]}
          /\ \A i \in Job \ {j} : at'[i] = at[i]
        BY <1>3 DEF JobShape
    <2>2. /\ pc' \in [Job -> Pcs] /\ pc'[j] = l
          /\ \A i \in Job \ {j} : pc'[i] = pc[i]
        BY <1>2 DEF JobShape, Proceed, Pcs
    <2> QED
        BY <1>1, <2>1, <2>2 DEF JobMoves
<1>5. JobShape'
    <2>1. at'[j] \in 1..(Len(content[j]) + 1)
        BY <1>4 DEF JobShape
    <2> QED
        BY <1>2, <1>4, <2>1, ShapeStays DEF AtEntry
<1>6. SameBatch /\ db' = db /\ pend' = pend
    BY <1>1, QuietKeeps DEF tx
<1>7. \A x : Known(x)' => Known(x)
    BY <1>6 DEF Known
<1>8. pc[j] \notin InBatch /\ pc[j] \notin Writing /\ pc'[j] \notin Inserted /\ pc'[j] # "flag"
    BY <1>2, <1>4 DEF InBatch, AtEntry, Writing, Inserted
<1> QED
    BY <1>1, <1>4, <1>5, <1>6, <1>7, <1>8, StepKeeps DEF SameBatch, CacheOK

\* A step within an entry.
LEMMA ThenShape ==
    ASSUME JobShape, NEW j \in Job, pc[j] \in AtEntry, NEW l \in AtEntry, Then(j, l), content' = content,
           l \in {"insert", "validation"} => Here(j) \in Cert,
           l \in {"crl", "revoked", "stray"} => Here(j) \in Crl
    PROVE  JobMoves(j) /\ at' = at /\ pc'[j] = l /\ JobShape'
<1>1. l \in Pcs
    BY DEF AtEntry, Pcs
<1>2. JobMoves(j) /\ at' = at /\ pc'[j] = l
    BY <1>1, ThenMoves
<1> QED
    BY <1>2, ShapeStays DEF JobShape, Here, AtEntry

\* An entry is begun, or skipped as a duplicate.
LEMMA StartKeeps ==
    ASSUME LdifInv, NEW j \in Job, StartEntry(j)
    PROVE  LdifInv'
<1> USE DEF LdifInv
<1> PICK h : h = Here(j)
    OBVIOUS
<1>1. /\ pc[j] = "entry" /\ Savepoint
      /\ UNCHANGED <<dbType, db, batchMode, pend, cache, ldap, content, history, faults>>
    BY DEF StartEntry
<1>2. SameBatch /\ db' = db /\ pend' = pend
    BY <1>1, QuietKeeps
<1>3. pc[j] \in AtEntry \ Writing
    BY <1>1 DEF AtEntry, Writing
<1>4. CASE h \in Crl /\ Then(j, "crl")
    <2>1. JobMoves(j) /\ at' = at /\ pc'[j] = "crl" /\ JobShape'
        BY <1>1, <1>3, <1>4, ThenShape DEF AtEntry
    <2> QED
        BY <1>1, <1>2, <1>3, <2>1, QuietEntryKeeps DEF InBatch, AtEntry, Inserted
<1>5. CASE h \in Cert /\ Then(j, "insert")
    <2>1. JobMoves(j) /\ at' = at /\ pc'[j] = "insert" /\ JobShape'
        BY <1>1, <1>3, <1>5, ThenShape DEF AtEntry
    <2> QED
        BY <1>1, <1>2, <1>3, <2>1, QuietEntryKeeps DEF InBatch, AtEntry, Inserted
<1>6. CASE h \in cache /\ Leave(j)
    <2>1. JobMoves(j) /\ at'[j] = at[j] + 1 /\ pc'[j] \in {"commit", "entry"} /\ JobShape'
        BY <1>1, <1>3, <1>6, LeaveMoves
    <2>2. Met(h)
        BY <1>3, <1>6, EntryFacts
    <2> QED
        BY <1>1, <1>2, <1>3, <2>1, <2>2, QuietEntryKeeps DEF InBatch, AtEntry, Inserted
<1> QED
    BY <1>4, <1>5, <1>6 DEF StartEntry

\* An INSERT of the certificate, in the batch or not.
LEMMA InsertedKeeps ==
    ASSUME LdifInv, NEW j \in Job, NEW h, h = Here(j), pc[j] = "insert",
           SameBatch, db' \cup pend' = (db \cup pend) \cup {<<"certificate", h>>},
           cache' = cache \cup {h}, UNCHANGED <<ldap, content>>, Then(j, "validation"),
           Committed("certificate", h)' \/ (dbType = "oracle" /\ Visible(<<"certificate", h>>)')
    PROVE  LdifInv'
<1> USE DEF LdifInv
<1>1. pc[j] \in AtEntry /\ pc[j] \notin Writing /\ h \in Cert
    BY DEF AtEntry, Writing, JobShape
<1>2. JobMoves(j) /\ at' = at /\ pc'[j] = "validation" /\ JobShape'
    BY <1>1, ThenShape DEF AtEntry
<1>3. Met(h)'
    BY <1>1 DEF Met, Known
<1>4. \A x \in Entry : Known(x)' => Known(x) \/ x = h
    BY DEF Known
<1>5. \A r \in db' \cup pend' : r[1] = "flag" => r \in db \cup pend
    OBVIOUS
<1>6. cache' \subseteq Cert /\ \A x \in cache' : x \in cache \/ x = h
    BY <1>1 DEF CacheOK
<1>7. "validation" \in InBatch /\ "validation" \in Writing /\ at[j] \in Nat
    BY DEF InBatch, AtEntry, Writing, JobShape
<1> QED
    BY <1>1, <1>2, <1>3, <1>4, <1>5, <1>6, <1>7, StepKeeps DEF SameBatch

\* CertificateRepository on PostgreSQL.
LEMMA InsertKeeps ==
    ASSUME LdifInv, NEW j \in Job, InsertCertificate(j)
    PROVE  LdifInv'
<1> USE DEF LdifInv
<1> PICK h : h = Here(j)
    OBVIOUS
<1>1. pc[j] = "insert" /\ dbType = "postgres" /\ UNCHANGED <<dbType, tx, ldap, content, faults>>
    BY DEF InsertCertificate
<1>2. pc[j] \in AtEntry \ Writing /\ h \in Cert
    BY <1>1 DEF AtEntry, Writing, JobShape
<1>3. CASE h \in cache /\ Then(j, "validation") /\ UNCHANGED <<db, cache, history>>
    <2>1. SameBatch /\ db' = db /\ pend' = pend
        BY <1>1, <1>3, QuietKeeps DEF tx
    <2>2. JobMoves(j) /\ at' = at /\ pc'[j] = "validation" /\ JobShape'
        BY <1>1, <1>2, <1>3, ThenShape DEF AtEntry
    <2>3. Met(h)
        BY <1>2, <1>3, EntryFacts
    <2> QED
        BY <1>1, <1>2, <1>3, <2>1, <2>2, <2>3, QuietEntryKeeps DEF InBatch, AtEntry
<1>4. CASE /\ db' = db \cup {<<"certificate", h>>} /\ cache' = cache \cup {h}
           /\ Then(j, "validation") /\ UNCHANGED history
    <2>1. SameBatch
        BY <1>1, <1>4 DEF SameBatch, BatchShape, RowsKept, Visible, history, tx
    <2>2. db' \cup pend' = (db \cup pend) \cup {<<"certificate", h>>}
        BY <1>1, <1>4 DEF tx
    <2>3. Committed("certificate", h)'
        BY <1>4 DEF Committed
    <2> QED
        BY <1>1, <1>4, <2>1, <2>2, <2>3, InsertedKeeps
<1>5. CASE lost' = lost \cup {h} /\ hit' = hit \cup {h} /\ Leave(j) /\ UNCHANGED <<db, cache>>
    <2>1. SameBatch /\ db' = db /\ pend' = pend
        BY <1>1, <1>5 DEF SameBatch, BatchShape, RowsKept, Visible, tx
    <2>2. JobMoves(j) /\ at'[j] = at[j] + 1 /\ pc'[j] \in {"commit", "entry"} /\ JobShape'
        BY <1>1, <1>2, <1>5, LeaveMoves
    <2>3. Met(h)' /\ \A x : Known(x)' => Known(x)
        BY <1>5, <2>1 DEF Met, Spent, Known
    <2> QED
        BY <1>1, <1>2, <1>5, <2>1, <2>2, <2>3, EntryStepKeeps DEF InBatch, AtEntry, Inserted
<1> QED
    BY <1>3, <1>4, <1>5 DEF InsertCertificate

\* CertificateRepository on Oracle.
LEMMA InsertInBatchKeeps ==
    ASSUME LdifInv, NEW j \in Job, InsertInBatch(j)
    PROVE  LdifInv'
<1> USE DEF LdifInv
<1> PICK h : h = Here(j)
    OBVIOUS
<1> PICK line : line = <<"certificate", h>>
    OBVIOUS
<1>1. pc[j] = "insert" /\ dbType = "oracle" /\ UNCHANGED <<dbType, ldap, content>>
    BY DEF InsertInBatch
<1>2. pc[j] \in AtEntry \ Writing /\ h \in Cert
    BY <1>1 DEF AtEntry, Writing, JobShape
<1>3. CASE Applied(line) /\ cache' = cache \cup {h} /\ Then(j, "validation")
    <2>1. SameBatch /\ db' \cup pend' = (db \cup pend) \cup {line} /\ Visible(line)'
        BY <1>1, <1>3, AppliedKeeps
    <2>2. Visible(<<"certificate", h>>)'
        BY <2>1 DEF Visible
    <2> QED
        BY <1>1, <1>3, <2>1, <2>2, InsertedKeeps
<1>4. CASE Fails(h, {}) /\ cache' = cache /\ Leave(j)
    <2>1. SameBatch /\ db' = db /\ pend' = pend /\ Spent(h)'
        BY <1>1, <1>4, FailedKeeps DEF Fails, Failed
    <2>2. JobMoves(j) /\ at'[j] = at[j] + 1 /\ pc'[j] \in {"commit", "entry"} /\ JobShape'
        BY <1>1, <1>2, <1>4, LeaveMoves
    <2>3. Met(h)' /\ \A x : Known(x)' => Known(x)
        BY <2>1 DEF Met, Known
    <2> QED
        BY <1>1, <1>2, <1>4, <2>1, <2>2, <2>3, EntryStepKeeps DEF InBatch, AtEntry, Inserted
<1>5. CASE /\ h \in cache \/ Visible(line)
           /\ Then(j, "validation") \/ Leave(j)
           /\ UNCHANGED <<db, tx, cache, history, faults>>
    <2>1. SameBatch /\ db' = db /\ pend' = pend
        BY <1>1, <1>5, QuietKeeps DEF tx
    <2>2. Met(h)
        <3>1. CASE Visible(line)
            BY <1>2, <3>1 DEF Met, Known, Visible
        <3> QED
            BY <1>2, <1>5, <3>1, EntryFacts
    <2>3. CASE Then(j, "validation")
        <3>1. JobMoves(j) /\ at' = at /\ pc'[j] = "validation" /\ JobShape'
            BY <1>1, <1>2, <2>3, ThenShape DEF AtEntry
        <3> QED
            BY <1>1, <1>2, <1>5, <2>1, <2>2, <3>1, QuietEntryKeeps DEF InBatch, AtEntry
    <2>4. CASE Leave(j)
        <3>1. JobMoves(j) /\ at'[j] = at[j] + 1 /\ pc'[j] \in {"commit", "entry"} /\ JobShape'
            BY <1>1, <1>2, <2>4, LeaveMoves
        <3> QED
            BY <1>1, <1>2, <1>5, <2>1, <2>2, <3>1, QuietEntryKeeps DEF InBatch, AtEntry, Inserted
    <2> QED
        BY <1>5, <2>3, <2>4
<1> QED
    BY <1>3, <1>4, <1>5 DEF InsertInBatch

\* The statement that writes the last row of an entry: it does, or the entry is lost.
LEMMA LastRowKeeps ==
    ASSUME LdifInv, NEW j \in Job, NEW h, h = Here(j), pc[j] \in Writing,
           NEW line, line[1] \in {"validation", "revoked"}, Applied(line) \/ Failed(h),
           Known(h) => Complete(h) \subseteq db \cup pend \cup {line},
           Then(j, "ldap"), UNCHANGED <<dbType, cache, ldap, content>>
    PROVE  LdifInv'
<1> USE DEF LdifInv
<1>1. pc[j] \in AtEntry /\ pc[j] \in Inserted /\ Met(h)
    BY EntryFacts DEF AtEntry, Writing, Inserted
<1>2. JobMoves(j) /\ at' = at /\ pc'[j] = "ldap" /\ JobShape'
    BY <1>1, ThenShape DEF AtEntry
<1>3. SameBatch /\ \A r \in db' \cup pend' : r \in db \cup pend \/ r = line
    BY AppliedKeeps, FailedKeeps
<1>4. Met(h)' /\ (Spent(h) => Spent(h)')
    BY <1>1, <1>3, MetStays DEF SameBatch
<1>5. ASSUME NEW x, Known(x)' PROVE Known(x)
    <2> PICK key : key = <<IF x \in Cert THEN "certificate" ELSE "crl", x>>
        OBVIOUS
    <2>1. key \in db' \cup pend' /\ key[1] \in {"certificate", "crl"}
        BY <1>5 DEF Known
    <2> QED
        BY <1>3, <2>1 DEF Known
<1>6. Accounted(h)'
    <2>1. CASE Failed(h) \/ Spent(h)
        BY <1>4, <2>1, FailedKeeps DEF Accounted
    <2>2. CASE Applied(line) /\ ~Spent(h)
        <3>1. db' \cup pend' = (db \cup pend) \cup {line}
            BY <2>2, AppliedKeeps
        <3>2. Complete(h) \subseteq db' \cup pend'
            BY <1>1, <2>2, <3>1 DEF Met
        <3>3. Complete(h)' = Complete(h)
            BY DEF Complete
        <3> QED
            BY <3>2, <3>3 DEF Accounted
    <2> QED
        BY <2>1, <2>2
<1>7. \A r \in db' \cup pend' : r[1] = "flag" => r \in db \cup pend
    BY <1>3
<1>8. pc'[j] \in InBatch \ {"flag"}
    BY <1>2 DEF InBatch, AtEntry
<1> QED
    BY <1>1, <1>2, <1>3, <1>4, <1>5, <1>6, <1>7, <1>8, EntryStepKeeps

\* The validation result is the last row of a certificate.
LEMMA ValidationKeeps ==
    ASSUME LdifInv, NEW j \in Job, SaveValidation(j)
    PROVE  LdifInv'
<1> USE DEF LdifInv
<1> PICK h : h = Here(j)
    OBVIOUS
<1> PICK line : line = <<"validation", h>>
    OBVIOUS
<1>1. /\ pc[j] = "validation" /\ Then(j, "ldap") /\ UNCHANGED <<dbType, cache, ldap, content>>
      /\ Command(line, h, {<<"certificate", h>>, <<"upload", j>>})
    BY DEF SaveValidation
<1>2. h \in Cert /\ line[1] = "validation"
    BY <1>1 DEF JobShape
<1>3. Known(h) => Complete(h) \subseteq db \cup pend \cup {line}
    BY <1>2 DEF Known, Complete
<1> QED
    <2>1. pc[j] \in Writing
        BY <1>1 DEF Writing
    <2>2. Applied(line) \/ Failed(h)
        BY <1>1, CommandOutcomes
    <2> QED
        BY <1>1, <1>2, <1>3, <2>1, <2>2, LastRowKeeps

\* The revoked certificates are the last rows of a CRL.
LEMMA RevokedKeeps ==
    ASSUME LdifInv, NEW j \in Job, SaveRevoked(j)
    PROVE  LdifInv'
<1> USE DEF LdifInv
<1> PICK h : h = Here(j)
    OBVIOUS
<1> PICK line : line = <<"revoked", h>>
    OBVIOUS
<1>1. /\ pc[j] = "revoked" /\ Then(j, "ldap") /\ UNCHANGED <<dbType, cache, ldap, content>>
      /\ Command(line, h, {<<"crl", h>>})
    BY DEF SaveRevoked
<1>2. h \notin Cert /\ line[1] = "revoked"
    BY <1>1, EntryAssumption DEF JobShape
<1>3. Known(h) => Complete(h) \subseteq db \cup pend \cup {line}
    BY <1>2 DEF Known, Complete
<1> QED
    <2>1. pc[j] \in Writing
        BY <1>1 DEF Writing
    <2>2. Applied(line) \/ Failed(h)
        BY <1>1, CommandOutcomes
    <2> QED
        BY <1>1, <1>2, <1>3, <2>1, <2>2, LastRowKeeps

\* Revoked certificates of an id that belongs to no row.
LEMMA StrayKeeps ==
    ASSUME LdifInv, NEW j \in Job, SaveStray(j)
    PROVE  LdifInv'
<1> USE DEF LdifInv
<1> PICK h : h = Here(j)
    OBVIOUS
<1>1. /\ pc[j] = "stray" /\ Then(j, "stray ldap") /\ UNCHANGED <<dbType, cache, ldap, content>>
      /\ Failed(h)
    BY DEF SaveStray, Failed
<1>2. pc[j] \in AtEntry /\ pc[j] \in Inserted /\ Met(h)
    BY <1>1, EntryFacts DEF AtEntry, Inserted
<1>3. JobMoves(j) /\ at' = at /\ pc'[j] = "stray ldap" /\ JobShape'
    BY <1>1, <1>2, ThenShape DEF AtEntry
<1>4. SameBatch /\ db' = db /\ pend' = pend /\ Spent(h)'
    BY <1>1, FailedKeeps
<1>5. Met(h)' /\ Accounted(h)' /\ \A x : Known(x)' => Known(x)
    BY <1>4 DEF Met, Accounted, Known
<1>6. pc'[j] \in InBatch \ {"flag"}
    BY <1>3 DEF InBatch, AtEntry
<1> QED
    BY <1>1, <1>2, <1>3, <1>4, <1>5, <1>6, EntryStepKeeps

\* CrlRepository::save.
LEMMA CrlKeeps ==
    ASSUME LdifInv, NEW j \in Job, SaveCrl(j)
    PROVE  LdifInv'
<1> USE DEF LdifInv
<1> PICK h : h = Here(j)
    OBVIOUS
<1> PICK line : line = <<"crl", h>>
    OBVIOUS
<1>1. pc[j] = "crl" /\ UNCHANGED <<dbType, cache, ldap, content>>
    BY DEF SaveCrl
<1>2. pc[j] \in AtEntry \ Writing /\ h \in Crl /\ h \notin Cert
    BY <1>1, EntryAssumption DEF AtEntry, Writing, JobShape
<1>3. AfterCrl \in {"ldap", "revoked"} /\ (AfterCrl = "ldap" => dbType = "oracle")
    BY DEF AfterCrl
<1>4. CASE /\ Visible(line) /\ UNCHANGED <<db, tx, history, faults>>
           /\ Then(j, AfterCrl) \/ Then(j, "stray") \/ Leave(j)
    <2>1. SameBatch /\ db' = db /\ pend' = pend
        BY <1>1, <1>4, QuietKeeps DEF tx
    <2>2. Met(h)
        BY <1>2, <1>4 DEF Met, Known, Visible
    <2>3. CASE Leave(j)
        <3>1. JobMoves(j) /\ at'[j] = at[j] + 1 /\ pc'[j] \in {"commit", "entry"} /\ JobShape'
            BY <1>1, <1>2, <2>3, LeaveMoves
        <3> QED
            BY <1>1, <1>2, <2>1, <2>2, <3>1, QuietEntryKeeps DEF InBatch, AtEntry, Inserted
    <2>4. ASSUME NEW l \in {"ldap", "revoked", "stray"}, Then(j, l) PROVE LdifInv'
        <3>1. JobMoves(j) /\ at' = at /\ pc'[j] = l /\ JobShape'
            BY <1>1, <1>2, <2>4, ThenShape DEF AtEntry
        <3> QED
            BY <1>1, <1>2, <2>1, <2>2, <3>1, QuietEntryKeeps DEF InBatch, AtEntry
    <2> QED
        BY <1>3, <1>4, <2>3, <2>4
<1>5. CASE Applied(line) /\ Then(j, AfterCrl)
    <2>1. SameBatch /\ db' \cup pend' = (db \cup pend) \cup {line}
        BY <1>1, <1>5, AppliedKeeps
    <2>2. JobMoves(j) /\ at' = at /\ pc'[j] = AfterCrl /\ JobShape'
        BY <1>1, <1>2, <1>3, <1>5, ThenShape DEF AtEntry
    <2>3. Met(h)'
        BY <1>2, <2>1 DEF Met, Known
    <2>4. \A x \in Entry : Known(x)' => Known(x) \/ x = h
        BY <2>1 DEF Known
    <2>5. Accounted(h)' \/ pc'[j] \in Writing
        <3>1. CASE AfterCrl = "ldap"
            <4>1. Complete(h)' = {line}
                BY <1>1, <1>2, <1>3, <3>1 DEF Complete
            <4> QED
                BY <2>1, <4>1 DEF Accounted
        <3> QED
            BY <1>3, <2>2, <3>1 DEF Writing
    <2>6. \A r \in db' \cup pend' : r[1] = "flag" => r \in db \cup pend
        BY <2>1
    <2>7. pc'[j] \in InBatch \ {"flag"}
        BY <1>3, <2>2 DEF InBatch, AtEntry
    <2> QED
        BY <1>1, <1>2, <2>1, <2>2, <2>3, <2>4, <2>5, <2>6, <2>7, EntryStepKeeps
<1>6. CASE Fails(h, {<<"upload", j>>}) /\ Leave(j)
    <2>1. SameBatch /\ db' = db /\ pend' = pend /\ Spent(h)'
        BY <1>1, <1>6, FailedKeeps DEF Fails, Failed
    <2>2. JobMoves(j) /\ at'[j] = at[j] + 1 /\ pc'[j] \in {"commit", "entry"} /\ JobShape'
        BY <1>1, <1>2, <1>6, LeaveMoves
    <2>3. Met(h)' /\ \A x : Known(x)' => Known(x)
        BY <2>1 DEF Met, Known
    <2> QED
        BY <1>1, <1>2, <2>1, <2>2, <2>3, EntryStepKeeps DEF InBatch, AtEntry, Inserted
<1>7. line \in db => Visible(line)
    BY DEF Visible
<1> QED
    BY <1>4, <1>5, <1>6, <1>7 DEF SaveCrl

\* The entry is added to LDAP, or is not.
LEMMA ToLdapKeeps ==
    ASSUME LdifInv, NEW j \in Job, SaveToLdap(j)
    PROVE  LdifInv'
<1> USE DEF LdifInv
<1> PICK h : h = Here(j)
    OBVIOUS
<1>1. /\ pc[j] \in {"ldap", "stray ldap"} /\ ldap' \in {ldap, ldap \cup {h}}
      /\ UNCHANGED <<dbType, db, tx, cache, content, history, faults>>
    BY DEF SaveToLdap
<1>2. pc[j] \in AtEntry \ Writing /\ Met(h)
    BY <1>1, EntryFacts DEF AtEntry, Writing, Inserted
<1>3. SameBatch /\ db' = db /\ pend' = pend
    BY <1>1, QuietKeeps DEF tx
<1>4. Met(h)' /\ \A x : Known(x)' => Known(x)
    BY <1>2, <1>3, MetStays DEF SameBatch, Known
<1>5. CASE ldap' = ldap \cup {h} /\ Then(j, "flag")
    <2>1. JobMoves(j) /\ at' = at /\ pc'[j] = "flag" /\ JobShape'
        BY <1>1, <1>2, <1>5, ThenShape DEF AtEntry
    <2> QED
        BY <1>1, <1>2, <1>3, <1>4, <1>5, <2>1, StepKeeps DEF SameBatch, CacheOK, InBatch, AtEntry
<1>6. CASE Leave(j)
    <2>1. JobMoves(j) /\ at'[j] = at[j] + 1 /\ pc'[j] \in {"commit", "entry"} /\ JobShape'
        BY <1>1, <1>2, <1>6, LeaveMoves
    <2>2. pc'[j] \in InBatch /\ pc'[j] # "flag" /\ pc'[j] \notin Inserted
        BY <2>1 DEF InBatch, AtEntry, Inserted
    <2> QED
        BY <1>1, <1>2, <1>3, <1>4, <2>1, <2>2, StepKeeps DEF SameBatch, CacheOK
<1> QED
    BY <1>1, <1>5, <1>6 DEF SaveToLdap

\* stored_in_ldap is set after the entry was added.
LEMMA FlagKeeps ==
    ASSUME LdifInv, NEW j \in Job, UpdateLdapStatus(j)
    PROVE  LdifInv'
<1> USE DEF LdifInv
<1> PICK h : h = Here(j)
    OBVIOUS
<1> PICK flag : flag = <<"flag", h>>
    OBVIOUS
<1>1. pc[j] = "flag" /\ Leave(j) /\ UNCHANGED <<dbType, cache, ldap, content>>
    BY DEF UpdateLdapStatus
<1>2. pc[j] \in AtEntry \ Writing /\ Met(h) /\ h \in ldap
    BY <1>1, EntryFacts DEF AtEntry, Writing, Inserted, FlagsOK
<1>3. Applied(flag) \/ Failed(h) \/ UNCHANGED <<db, tx, history, faults>>
    BY DEF UpdateLdapStatus, Fails, Failed
<1>4. SameBatch /\ \A r \in db' \cup pend' : r \in db \cup pend \/ r = flag
    BY <1>1, <1>3, AppliedKeeps, FailedKeeps, QuietKeeps DEF tx
<1>5. JobMoves(j) /\ at'[j] = at[j] + 1 /\ pc'[j] \in {"commit", "entry"} /\ JobShape'
    BY <1>1, <1>2, LeaveMoves
<1>6. Met(h)'
    BY <1>2, <1>4, MetStays DEF SameBatch
<1>7. \A x : Known(x)' => Known(x)
    BY <1>4 DEF Known
<1>8. \A r \in db' \cup pend' : r[1] = "flag" => r \in db \cup pend \/ r[2] \in ldap'
    BY <1>1, <1>2, <1>4
<1>9. pc'[j] \in InBatch \ {"flag"} /\ pc'[j] \notin Inserted
    BY <1>5 DEF InBatch, AtEntry, Inserted
<1> QED
    BY <1>1, <1>2, <1>4, <1>5, <1>6, <1>7, <1>8, <1>9, EntryStepKeeps

\* An entry that throws is rolled back to its savepoint.
LEMMA EntryThrowsKeeps ==
    ASSUME LdifInv, NEW j \in Job, EntryThrows(j)
    PROVE  LdifInv'
<1> USE DEF LdifInv
<1> PICK h : h = Here(j)
    OBVIOUS
<1>1. /\ pc[j] \in {"insert", "crl", "ldap"} /\ RollbackToSavepoint /\ Leave(j) /\ hit' = hit \cup {h}
      /\ UNCHANGED <<dbType, db, mark, cache, ldap, content>>
    BY DEF EntryThrows
<1>2. pc[j] \in AtEntry \ Writing
    BY <1>1 DEF AtEntry, Writing
<1>3. SameBatch /\ pend' \subseteq pend
    BY <1>1, RollbackKeeps
<1>4. JobMoves(j) /\ at'[j] = at[j] + 1 /\ pc'[j] \in {"commit", "entry"} /\ JobShape'
    BY <1>1, <1>2, LeaveMoves
<1>5. Met(h)' /\ \A x : Known(x)' => Known(x)
    BY <1>1, <1>3 DEF Met, Spent, Known
<1>6. pc'[j] \in InBatch \ {"flag"} /\ pc'[j] \notin Inserted
    BY <1>4 DEF InBatch, AtEntry, Inserted
<1> QED
    BY <1>1, <1>2, <1>3, <1>4, <1>5, <1>6, EntryStepKeeps

\* The batch is ended.
LEMMA CommitStepKeeps ==
    ASSUME LdifInv, NEW j \in Job, Commit(j)
    PROVE  LdifInv'
<1> USE DEF LdifInv
<1> PICK h : h = Here(j)
    OBVIOUS
<1>1. /\ pc[j] \in {"commit", "end"} /\ UNCHANGED <<dbType, cache, ldap, content, at>>
      /\ Proceed(j, IF pc[j] = "commit" THEN "begin" ELSE "done")
      /\ (EndBatch /\ UNCHANGED <<hit, faults>>) \/ CommitLost
    BY DEF Commit
<1>2. RowsKept /\ BatchShape' /\ batchMode' = "off" /\ db' \cup pend' \subseteq db \cup pend
    BY <1>1, CommitKeeps
<1>3. JobMoves(j) /\ pc'[j] = IF pc[j] = "commit" THEN "begin" ELSE "done"
    BY <1>1 DEF JobShape, JobMoves, Proceed, Pcs
<1>4. at'[j] \in 1..(Len(content[j]) + 1) /\ (pc'[j] = "done" => at'[j] = Len(content[j]) + 1)
    BY <1>1, <1>3 DEF JobShape
<1>5. pc'[j] \in {"begin", "done"}
    BY <1>3
<1>6. JobShape'
    BY <1>3, <1>4, <1>5, ShapeStays DEF AtEntry
<1>7. \A x : Known(x)' => Known(x)
    BY <1>2 DEF Known
<1>8. pc[j] \notin Writing /\ pc'[j] \notin Inserted /\ pc'[j] # "flag"
    BY <1>1, <1>5 DEF Writing, Inserted
<1> QED
    BY <1>1, <1>2, <1>3, <1>6, <1>7, <1>8, StepKeeps DEF CacheOK

-----------------------------------------------------------------------------

\* The invariant holds at the start ...
LEMMA LdifInitHolds == LdifInit => LdifInv
<1> SUFFICES ASSUME LdifInit PROVE LdifInv
    OBVIOUS
<1> USE DEF LdifInit
<1>1. BatchShape
    BY DbTypesAssumption DEF BatchShape
<1>2. JobShape
    <2>1. content \in [Job -> Seq(Entry)]
        BY FilesAssumption DEF Entry
    <2>2. \A j \in Job : Len(content[j]) \in Nat
        BY <2>1
    <2> QED
        BY <2>1, <2>2 DEF JobShape, Pcs, AtEntry
<1>3. BatchHasJob /\ FlagsOK /\ CacheOK /\ LossAlone
    BY DEF BatchHasJob, FlagsOK, FlagImpliesLdap, CacheOK, CacheIsStored, LossAlone
<1>4. NothingForgotten /\ Past /\ Present
    BY DEF NothingForgotten, Known, Past, Present, Inserted
<1> QED
    BY <1>1, <1>2, <1>3, <1>4 DEF LdifInv

\* ... and in every step of every upload.
LEMMA LdifInvStays == LdifInv /\ [LdifNext]_ldifVars => LdifInv'
<1> SUFFICES ASSUME LdifInv, [LdifNext]_ldifVars PROVE LdifInv'
    OBVIOUS
<1>1. ASSUME NEW j \in Job, Arrive(j) \/ RetryEntries(j) \/ Step(j) PROVE LdifInv'
    BY <1>1, ArriveKeeps, PreloadKeeps, BeginKeeps, BeginThrowsKeeps, StartKeeps, InsertKeeps,
       InsertInBatchKeeps, ValidationKeeps, CrlKeeps, RevokedKeeps, StrayKeeps, ToLdapKeeps,
       FlagKeeps, EntryThrowsKeeps, CommitStepKeeps DEF Step
<1>2. CASE UNCHANGED ldifVars
    BY <1>2 DEF ldifVars, tx, jobs, history, LdifInv, BatchShape, JobShape, Here, BatchHasJob,
        FlagsOK, FlagImpliesLdap, CacheOK, CacheIsStored, Committed, Visible, LossAlone,
        NothingForgotten, Known, Accounted, Spent, Complete, InHand, Past, Present, Met
<1> QED
    BY <1>1, <1>2 DEF LdifNext

\* The invariant of the entries.
LEMMA LdifInvHolds == LdifSpec => []LdifInv
BY LdifInitHolds, LdifInvStays, PTL DEF LdifSpec

\* A cached fingerprint has its row, committed or on Oracle in the shared batch, unless a
\* statement on it failed by itself; stored_in_ldap is set only of what is in LDAP.
THEOREM NotesStayTrue == LdifSpec => []NotesAreTrue
<1>1. LdifInv => NotesAreTrue
    BY DEF LdifInv, NotesAreTrue, CacheOK, FlagsOK
<1> QED
    BY <1>1, LdifInvHolds, PTL

\* processEntries to its end: every entry has all its rows, or the history says why not,
\* or another upload still has the batch.
THEOREM UploadsAreComplete == LdifSpec => []DoneIsComplete
<1>1. ASSUME LdifInv PROVE DoneIsComplete
    <2> USE <1>1 DEF LdifInv
    <2> SUFFICES ASSUME NEW j \in Job, pc[j] = "done", NEW k \in 1..Len(content[j]),
                        content[j][k] \notin lost \cup hit,
                        ~ \E i \in Job \ {j} : pc[i] \notin {"idle", "refused", "failed", "done"}
                 PROVE  Complete(content[j][k]) \subseteq db
        BY DEF DoneIsComplete
    <2> PICK x : x = content[j][k]
        OBVIOUS
    <2>1. x \in Entry /\ k \in 1..(at[j] - 1)
        BY DEF JobShape
    <2>2. Known(x) /\ ~Spent(x)
        BY <2>1 DEF Past, Met, Spent
    <2>3. ASSUME NEW i \in Job, pc[i] \in InBatch PROVE FALSE
        BY <2>3 DEF InBatch, AtEntry
    <2>4. ~InHand(x)
        BY <2>3 DEF InHand, InBatch, AtEntry, Writing
    <2>5. Complete(x) \subseteq db \cup pend
        BY <2>1, <2>2, <2>4 DEF NothingForgotten, Accounted
    <2>6. pend = {}
        BY <2>3 DEF BatchHasJob, BatchShape
    <2> QED
        BY <2>5, <2>6
<1> QED
    BY <1>1, LdifInvHolds, PTL

\* "Oracle transactions don't abort on individual statement failure": only an entry with
\* a statement that failed is lost there, whoever else is uploading.
THEOREM OracleLosesNoMore == LdifSpec => [](dbType = "oracle" => lost \subseteq hit)
<1>1. LdifInv => (dbType = "oracle" => lost \subseteq hit)
    BY DEF LdifInv, LossAlone
<1> QED
    BY <1>1, LdifInvHolds, PTL

-----------------------------------------------------------------------------
(* Induction, finite images, and what a loop keeps of a list.              *)

\* A set of numbers that is not empty has a least one.
LEMMA Least ==
    ASSUME NEW T \in SUBSET Nat, T # {}
    PROVE  \E n \in T : \A m \in T : n <= m
<1> DEFINE R == OpToRel(<, Nat)
<1>1. IsWellFoundedOn(R, Nat)
    BY NatLessThanWellFounded
<1>2. \A m, n \in Nat : <<m, n>> \in R <=> m < n
    BY DEF OpToRel
<1> HIDE DEF R
<1>3. PICK n \in T : \A m \in T : ~ (<<m, n>> \in R)
    BY <1>1, WFMin
<1>4. \A m \in T : m \in Nat /\ n \in Nat /\ ~(m < n)
    BY <1>2, <1>3
<1> QED
    BY <1>4

\* Induction over the naturals, for sets: no operator is a parameter.
LEMMA Induction ==
    ASSUME NEW S, 0 \in S, \A n \in Nat : n \in S => n + 1 \in S
    PROVE  Nat \subseteq S
<1> SUFFICES ASSUME Nat \ S # {} PROVE FALSE
    OBVIOUS
<1>1. PICK n \in Nat \ S : \A m \in Nat \ S : n <= m
    BY Least
<1>2. n # 0 /\ n - 1 \in Nat
    BY <1>1
<1>3. n - 1 \in S
    BY <1>1, <1>2
<1> QED
    BY <1>1, <1>2, <1>3

LEMMA ImageIsFinite ==
    ASSUME NEW S, IsFiniteSet(S), NEW f, DOMAIN f = S
    PROVE  IsFiniteSet({f[x] : x \in S})
<1> DEFINE T == {f[x] : x \in S}
           g == [x \in S |-> f[x]]
<1>1. g \in Surjection(S, T)
    BY DEF Surjection
<1> QED
    BY <1>1, FS_Surjection

\* What has been kept after each round of the loop.
LEMMA OnlyRounds ==
    ASSUME NEW S, NEW s \in Seq(S), NEW T
    PROVE  \E w : /\ Only(s, T) = w[Len(s)] /\ w[0] = <<>>
                  /\ \A n \in 1..Len(s) : w[n] = IF s[n] \in T THEN Append(w[n - 1], s[n]) ELSE w[n - 1]
<1> DEFINE l == Len(s)
           Round(w, n) == IF n = 0 THEN <<>> ELSE IF s[n] \in T THEN Append(w[n - 1], s[n]) ELSE w[n - 1]
<1>1. l \in Nat
    OBVIOUS
<1>2. ASSUME NEW v, NEW w, NEW n \in 0..l, n # 0 => v[n - 1] = w[n - 1]
      PROVE  Round(v, n) = Round(w, n)
    BY <1>2
<1>3. \A n : Only(s, T) = (CHOOSE w : w = [i \in 0..l |-> Round(w, i)])[l]
    BY DEF Only
<1>3a. \A w : Round(w, 0) = <<>> /\ \A n \in 1..l :
            Round(w, n) = IF s[n] \in T THEN Append(w[n - 1], s[n]) ELSE w[n - 1]
    BY <1>1
<1> HIDE DEF Round, l
<1>4. \A m \in Nat : m <= l => \E w : w = [i \in 0..m |-> Round(w, i)]
    <2> DEFINE P(m) == m <= l => \E w : w = [i \in 0..m |-> Round(w, i)]
               K == {m \in Nat : P(m)}
    <2>1. 0 \in K
        <3> DEFINE w == [i \in 0..0 |-> Round(<<>>, i)]
        <3>1. \A i \in 0..0 : Round(w, i) = Round(<<>>, i)
            BY <1>1, <1>2
        <3>2. w = [i \in 0..0 |-> Round(w, i)]
            BY <3>1
        <3> QED
            BY <3>2
    <2>2. ASSUME NEW m \in Nat, m \in K PROVE m + 1 \in K
        <3> SUFFICES ASSUME m + 1 <= l PROVE \E w : w = [i \in 0..(m + 1) |-> Round(w, i)]
            OBVIOUS
        <3>1. PICK v : v = [i \in 0..m |-> Round(v, i)]
            BY <2>2, <1>1
        <3> DEFINE w == [i \in 0..(m + 1) |-> IF i = m + 1 THEN Round(v, i) ELSE v[i]]
        <3>2. \A i \in 0..m : v[i] = Round(v, i)
            BY <3>1
        <3>3. (\A i \in 0..m : w[i] = v[i]) /\ w[m + 1] = Round(v, m + 1)
            OBVIOUS
        <3>4. w = [i \in 0..(m + 1) |-> w[i]]
            OBVIOUS
        <3> HIDE DEF w
        <3>5. \A i \in 0..(m + 1) : w[i] = Round(w, i)
            <4> TAKE i \in 0..(m + 1)
            <4>1. i \in 0..l /\ (i # 0 => i - 1 \in 0..m)
                BY <1>1
            <4>2. Round(v, i) = Round(w, i)
                BY <1>2, <3>3, <4>1
            <4>3. i = m + 1 \/ i \in 0..m
                OBVIOUS
            <4> QED
                BY <3>2, <3>3, <4>2, <4>3
        <3> QED
            BY <3>4, <3>5
    <2> HIDE DEF P
    <2>3. \A m \in Nat : m \in K
        BY <2>1, <2>2, Induction
    <2> QED
        BY <2>3 DEF P
<1> DEFINE upTo == CHOOSE w : w = [i \in 0..l |-> Round(w, i)]
<1>5. upTo = [i \in 0..l |-> Round(upTo, i)]
    <2>1. l <= l
        BY <1>1
    <2>2. \E w : w = [i \in 0..l |-> Round(w, i)]
        BY <1>1, <1>4, <2>1
    <2> QED
        BY <2>2
<1>6. Only(s, T) = upTo[l]
    BY <1>3
<1> HIDE DEF upTo
<1>7. \A i \in 0..l : upTo[i] = Round(upTo, i)
    BY <1>5
<1>8. upTo[0] = <<>> /\ \A n \in 1..l : upTo[n] = IF s[n] \in T THEN Append(upTo[n - 1], s[n]) ELSE upTo[n - 1]
    <2>1. 0 \in 0..l /\ \A n \in 1..l : n \in 0..l
        BY <1>1
    <2> QED
        BY <1>3a, <1>7, <2>1
<1> QED
    BY <1>6, <1>8 DEF l

\* What is kept was in the list, and is in the set.
LEMMA OnlyKeeps ==
    ASSUME NEW S, NEW s \in Seq(S), NEW T
    PROVE  Only(s, T) \in Seq(S \cap T)
<1> PICK w : /\ Only(s, T) = w[Len(s)] /\ w[0] = <<>>
             /\ \A n \in 1..Len(s) : w[n] = IF s[n] \in T THEN Append(w[n - 1], s[n]) ELSE w[n - 1]
    BY OnlyRounds
<1> DEFINE K == {n \in Nat : n <= Len(s) => w[n] \in Seq(S \cap T)}
<1>1. 0 \in K
    <2>1. w[0] \in Seq(S \cap T) /\ 0 \in Nat
        OBVIOUS
    <2> QED
        BY <2>1
<1>2. ASSUME NEW n \in Nat, n \in K PROVE n + 1 \in K
    <2> SUFFICES ASSUME n + 1 <= Len(s) PROVE w[n + 1] \in Seq(S \cap T)
        OBVIOUS
    <2>1. n + 1 \in 1..Len(s) /\ (n + 1) - 1 = n /\ n <= Len(s)
        OBVIOUS
    <2>2. w[n] \in Seq(S \cap T)
        BY <1>2, <2>1
    <2>3. w[n + 1] = IF s[n + 1] \in T THEN Append(w[n], s[n + 1]) ELSE w[n]
        BY <2>1
    <2>4. s[n + 1] \in S
        BY <2>1
    <2> QED
        BY <2>2, <2>3, <2>4
<1> HIDE DEF K
<1>3. Len(s) \in K
    <2>1. Nat \subseteq K
        BY <1>1, <1>2, Induction
    <2> QED
        BY <2>1
<1> QED
    BY <1>3 DEF K

-----------------------------------------------------------------------------
(* UploadReports: the numbers of an upload are those of its rows. As long  *)
(* as no certificate was a duplicate, and no statement failed, a number of *)
(* an LDIF file counts the upload's rows among what the thread has behind  *)
(* it, and the certificate it is about to save; with a duplicate it is     *)
(* read from the tables in the end. Numbers of list files only count what  *)
(* was saved.                                                              *)

BulkVerdict == [status : {"VALID", "EXPIRED_VALID", "INVALID", "PENDING"}, expired : BOOLEAN]
BulkPc == {"item", "insert", "commit", "recount", "status", "counts", "verdicts", "lists", "over", "stopped"}
BulkThread ==
    [pc : BulkPc, at : Nat, sub : Nat, counts : [CountKey -> Nat], live : [LiveKey -> Nat],
     again : BOOLEAN, verdict : BulkVerdict \cup {NoVerdict}, slipped : BOOLEAN,
     listed : Nat, listedTwice : Nat, early : Nat, recount : {"none", "whole", "part"}]
IdleThread == [pc |-> "idle"]
BulkRow ==
    [status : {"PENDING", "PROCESSING", "COMPLETED", "FAILED"}, counts : [CountKey -> Nat],
     stored : [StoredKey -> Nat]]
CertRow == [by : Bulk, as : {"CSCA", "DSC", "DSC_NC", "MLSC"}]

BulkShape ==
    /\ fileOf \in Bundles
    /\ uploadRow \in [Bulk -> BulkRow]
    /\ certBy \in [Held -> CertRow \cup {NoCertRow}]
    /\ crlBy \in [CrlId -> Bulk \cup {"none"}]
    /\ verdicts \subseteq [cert : Held, upload : Bulk, verdict : BulkVerdict]
    /\ mem \in [Bulk -> BulkThread \cup {IdleThread}]

\* Of a thread m with the file f: where it is, and what it has behind it.
Works(m) == m.pc \notin {"idle", "stopped"}
InEntry(m) == m.pc \in {"item", "insert"}
Reads(f, m) == IF f.asList /\ m.again THEN <<ReadAgain(f.entries[1])>> ELSE f.entries
EntryNow(f, m) == Reads(f, m)[m.at]

AtFits(f, m) ==
    Works(m) =>
        /\ m.at \in 1..Len(Reads(f, m))
        /\ m.sub = 1 \/ (InEntry(m) /\ m.sub \in 1..Len(EntryNow(f, m).items))
        /\ ~InEntry(m) /\ m.pc # "commit" => m.at = Len(Reads(f, m))
        /\ m.pc = "insert" => /\ EntryNow(f, m).kind \in {"cert", "list"} /\ m.verdict \in BulkVerdict
                              /\ EntryNow(f, m).kind = "cert" => m.verdict \in VerdictsOn(EntryNow(f, m).items[1])
        /\ m.pc = "recount" => ~f.asList /\ m.live["duplicate"] > 0
        /\ m.pc = "lists" => ~(f.asList /\ m.again)
        /\ m.recount # "none" => ~f.asList /\ ~InEntry(m) /\ m.pc \notin {"commit", "recount"}
        /\ ~f.asList /\ ~m.slipped /\ m.recount = "none" /\ ~InEntry(m) /\ m.pc \notin {"commit", "recount"} =>
               m.live["duplicate"] = 0

Whole(m) == IF InEntry(m) THEN m.at - 1 ELSE m.at
Behind(f, m, kind) == {i \in 1..Whole(m) : f.entries[i].kind = kind}
CertsBehind(f, m) == {f.entries[i].items[1] : i \in Behind(f, m, "cert")}
CertPlaces(f) == {p \in Nat \X Nat : /\ p[1] \in DOMAIN f.entries /\ f.entries[p[1]].kind \in {"cert", "list"}
                                     /\ p[2] \in DOMAIN f.entries[p[1]].items}
PlacesBehind(f, m) == {p \in CertPlaces(f) : p[1] <= Whole(m) \/ (p[1] = m.at /\ p[2] < m.sub)}
Reached(f, m) == {f.entries[p[1]].items[p[2]] : p \in PlacesBehind(f, m)}
\* The certificate that is counted, but not yet saved.
Awaited(f, m) == m.pc = "insert" /\ f.entries[m.at].kind = "cert"
AwaitedCert(f, m) == f.entries[m.at].items[1]

\* The rows of an upload.
Mine(c, u, type) == {x \in Held : c[x] = [by |-> u, as |-> type]}
MineIn(c, u, type, R) == Mine(c, u, type) \cap R
MyVerdicts(V, u, statuses) == {r \in V : r.upload = u /\ r.verdict.status \in statuses}
MyCrls(b, u) == {l \in CrlId : b[l] = u}

CertCountsFit(u, f, m, c) ==
    /\ m.pc = "idle" => \A x \in Held : c[x].by # u
    /\ Works(m) /\ ~m.again => m.counts["mlsc"] = Cardinality(Mine(c, u, "MLSC"))
    /\ Works(m) /\ f.asList => /\ m.counts["csca"] <= Cardinality(Mine(c, u, "CSCA"))
                               /\ ~m.again => m.counts["csca"] = Cardinality(Mine(c, u, "CSCA"))
                               /\ m.counts["dsc"] = 0 /\ m.counts["dscNc"] = 0
    /\ Works(m) /\ ~f.asList /\ ~m.slipped =>
           \A type \in {"CSCA", "DSC", "DSC_NC"} :
               /\ m.recount = "none" /\ m.live["duplicate"] = 0 =>
                      m.counts[CountOf(type)] =
                          Cardinality(MineIn(c, u, type, Reached(f, m)))
                          + (IF Awaited(f, m) /\ StoredAs(AwaitedCert(f, m)) = type THEN 1 ELSE 0)
               /\ m.recount # "none" => m.counts[CountOf(type)] = Cardinality(Mine(c, u, type))

CrlCountsFit(u, f, m, b, once) ==
    Works(m) /\ ~m.slipped =>
        /\ m.recount = "none" => m.counts["crl"] = Cardinality(Behind(f, m, "crl"))
        /\ m.recount # "none" => /\ m.counts["crl"] >= Cardinality(MyCrls(b, u))
                                 /\ once => m.counts["crl"] = Cardinality(MyCrls(b, u))
        /\ once => \A i \in Behind(f, m, "crl") : b[f.entries[i].items[1]] = u

ListCountsFit(f, m) == Works(m) => m.counts["ml"] = Cardinality(Behind(f, m, "list"))

TotalFits(f, m) ==
    m.pc # "idle" /\ m.recount = "none" =>
        m.live["total"] = Statuses(m.live) + m.live["expiredValid"]
                          + (IF f.asList /\ m.again THEN 0 ELSE m.listedTwice)
EntriesFit(f, m) ==
    Works(m) /\ ~f.asList =>
        m.live["total"] + m.early = m.listed + m.listedTwice + Cardinality(Behind(f, m, "cert"))
                                    + (IF Awaited(f, m) THEN 1 ELSE 0)
ErrorsFit(f, m) == Works(m) /\ ~f.asList /\ ~m.slipped => m.live["error"] = Cardinality(Behind(f, m, "broken"))
VerdictCount(u, f, m, V, S) ==
    Cardinality({r \in MyVerdicts(V, u, S) : r.cert \in CertsBehind(f, m)})
    + (IF Awaited(f, m) /\ m.verdict.status \in S THEN 1 ELSE 0)
VerdictsFit(u, f, m, V) ==
    Works(m) /\ ~f.asList /\ ~m.slipped =>
        /\ m.recount = "none" /\ m.live["duplicate"] = 0 =>
               /\ m.live["valid"] = VerdictCount(u, f, m, V, {"VALID"}) + m.listed
               /\ m.live["invalid"] = VerdictCount(u, f, m, V, {"INVALID"})
               /\ m.live["pending"] = VerdictCount(u, f, m, V, {"PENDING"})
               /\ m.live["chainValid"] = VerdictCount(u, f, m, V, {"VALID", "EXPIRED_VALID"})
        /\ m.recount # "none" =>
               /\ m.live["valid"] = Cardinality(MyVerdicts(V, u, {"VALID"}))
               /\ m.live["invalid"] = Cardinality(MyVerdicts(V, u, {"INVALID"}))
               /\ m.live["pending"] = Cardinality(MyVerdicts(V, u, {"PENDING"}))
        /\ m.recount = "whole" => m.live["chainValid"] = Cardinality(MyVerdicts(V, u, {"VALID", "EXPIRED_VALID"}))
        /\ m.recount # "part" => m.live["notFound"] = m.live["pending"] /\ m.live["chainInvalid"] = m.live["invalid"]

\* What the row of uploaded_file says in the end.
FinalCounts(f, m) == IF f.asList /\ m.again THEN [m.counts EXCEPT !["ml"] = 1, !["mlsc"] = 1] ELSE m.counts
RowFits(f, m, r) ==
    /\ r.counts["ml"] <= Cardinality({i \in DOMAIN f.entries : f.entries[i].kind = "list"})
    /\ m.pc \in {"counts", "lists", "verdicts", "over"} /\ ~m.slipped => r.status = "COMPLETED"
    /\ m.pc = "over" /\ ~m.slipped => r.counts = FinalCounts(f, m)
    /\ m.pc = "verdicts" /\ ~m.slipped /\ f.asList => r.counts = FinalCounts(f, m)
    /\ m.pc \in {"lists", "over"} /\ ~m.slipped /\ ~f.asList => r.stored = [k \in StoredKey |-> m.live[k]]

\* What is in the tables came out of the file of its upload.
CertCame(f, x, type) ==
    /\ f.asList => type \in {"CSCA", "MLSC"}
    /\ ~f.asList => /\ \E p \in CertPlaces(f) : f.entries[p[1]].items[p[2]] = x
                    /\ type = "MLSC" <=> KindOf[x] = "MLSC"
VerdictCame(f, x) == ~f.asList /\ \E i \in DOMAIN f.entries : f.entries[i].kind = "cert" /\ f.entries[i].items[1] = x
CrlCame(f, l) == \E i \in DOMAIN f.entries : f.entries[i].kind = "crl" /\ f.entries[i].items[1] = l

CertsCame == \A x \in Held : HasCert(x) => CertCame(fileOf[certBy[x].by], x, certBy[x].as)
VerdictsCame == \A r \in verdicts : HasCert(r.cert) /\ VerdictCame(fileOf[r.upload], r.cert)
CrlsCame == \A l \in CrlId : crlBy[l] # "none" => CrlCame(fileOf[crlBy[l]], l)

ThreadFits(u, f, m, c, b, V, r, once) ==
    /\ AtFits(f, m) /\ CertCountsFit(u, f, m, c) /\ CrlCountsFit(u, f, m, b, once) /\ ListCountsFit(f, m)
    /\ TotalFits(f, m) /\ EntriesFit(f, m) /\ ErrorsFit(f, m) /\ VerdictsFit(u, f, m, V) /\ RowFits(f, m, r)
ThreadsFit == \A u \in Bulk : ThreadFits(u, fileOf[u], mem[u], certBy, crlBy, verdicts, uploadRow[u], CrlsAreOnce(u))

AskedFor(phase) ==
    CASE phase = "idle" -> {"pc"} [] phase = "lists" -> {"pc", "seen"} [] phase = "chains" -> {"pc", "seen", "ml"}
      [] phase = "breakdown" -> {"pc", "seen", "ml", "verdicts"}
      [] phase = "done" -> {"pc", "seen", "ml", "verdicts", "csca"}
SummaryFits ==
    /\ summary.pc \in {"idle", "lists", "chains", "breakdown", "done"}
    /\ DOMAIN summary = AskedFor(summary.pc)
    /\ summary.pc # "idle" => \A x \in Held : summary.seen[x] \in {NoCertRow, certBy[x]}
    /\ summary.pc \notin {"idle", "lists"} =>
           summary.ml <= SumFunction([u \in Bulk |-> Cardinality(EntriesOfKind(u, "list"))])
    /\ summary.pc \in {"breakdown", "done"} => summary.verdicts \subseteq verdicts
    /\ summary.pc = "done" =>
           \E C \in SUBSET Held :
               /\ summary.csca.selfSigned + summary.csca.link = Cardinality(C)
               /\ \A x \in C : certBy[x].as = "CSCA"
               /\ \A x \in Held : summary.seen[x].as = "CSCA" => x \in C

BulkInv == BulkShape /\ CertsCame /\ VerdictsCame /\ CrlsCame /\ ThreadsFit /\ SummaryFits
-----------------------------------------------------------------------------
FileOK(f) == f \in BulkFile /\ (f.asList => Len(f.entries) = 1 /\ f.entries[1].kind = "list")
EntryOK(e) ==
    /\ e.kind \in {"cert", "crl", "list", "broken"}
    /\ e.kind = "cert" => e.items[1] \in Held /\ KindOf[e.items[1]] # "MLSC" /\ DOMAIN e.items = {1} /\ Len(e.items) = 1
    /\ e.kind = "crl" => e.items[1] \in CrlId /\ Len(e.items) = 1
    /\ e.kind = "list" => /\ e.items \in Seq(Held) /\ Len(e.items) \in Nat \ {0}
                          /\ DOMAIN e.items = 1..Len(e.items)
    /\ e.kind = "broken" => Len(e.items) = 0

LEMMA FilesAreOK ==
    ASSUME BulkShape, NEW u \in Bulk
    PROVE  FileOK(fileOf[u])
BY BundlesAssumption DEF BulkShape, FileOK

LEMMA EntriesAreOK ==
    ASSUME NEW f, FileOK(f)
    PROVE  /\ Len(f.entries) \in Nat \ {0} /\ DOMAIN f.entries = 1..Len(f.entries)
           /\ \A i \in DOMAIN f.entries : EntryOK(f.entries[i])
<1>1. f.entries \in Seq(BulkEntry) \ {<<>>}
    BY DEF FileOK, BulkFile
<1>2. ASSUME NEW e \in BulkEntry PROVE EntryOK(e)
    <2>1. CASE e \in [kind : {"cert"}, items : {<<x>> : x \in {y \in Held : KindOf[y] # "MLSC"}}]
        <3>1. PICK x \in Held : KindOf[x] # "MLSC" /\ e.items = <<x>>
            BY <2>1
        <3>2. DOMAIN <<x>> = {1} /\ Len(<<x>>) = 1 /\ <<x>>[1] = x
            OBVIOUS
        <3>3. e.kind = "cert"
            BY <2>1
        <3> QED
            BY <3>1, <3>2, <3>3 DEF EntryOK
    <2>2. CASE e \in [kind : {"crl"}, items : {<<l>> : l \in CrlId}]
        <3>1. PICK l \in CrlId : e.items = <<l>>
            BY <2>2
        <3>2. Len(<<l>>) = 1 /\ <<l>>[1] = l
            OBVIOUS
        <3>3. e.kind = "crl"
            BY <2>2
        <3> QED
            BY <3>1, <3>2, <3>3 DEF EntryOK
    <2>3. CASE e \in [kind : {"list"}, items : Seq(Held) \ {<<>>}]
        <3>1. e.kind = "list" /\ e.items \in Seq(Held) /\ e.items # <<>>
            BY <2>3
        <3>2. \A s \in Seq(Held) : s # <<>> => Len(s) \in Nat \ {0} /\ DOMAIN s = 1..Len(s)
            OBVIOUS
        <3> QED
            BY <3>1, <3>2 DEF EntryOK
    <2>4. CASE e \in [kind : {"broken"}, items : {<<>>}]
        <3>1. Len(<<>>) = 0
            OBVIOUS
        <3> QED
            BY <2>4, <3>1 DEF EntryOK
    <2> QED
        BY <2>1, <2>2, <2>3, <2>4 DEF BulkEntry
<1>3. Len(f.entries) \in Nat \ {0} /\ DOMAIN f.entries = 1..Len(f.entries)
    BY <1>1
<1>4. \A i \in DOMAIN f.entries : f.entries[i] \in BulkEntry
    BY <1>1
<1> QED
    BY <1>2, <1>3, <1>4

\* A retried list is read in another way, but it is one list with something in it.
LEMMA ReadsAreOK ==
    ASSUME NEW f, FileOK(f), NEW m
    PROVE  /\ Len(Reads(f, m)) = Len(f.entries)
           /\ \A i \in DOMAIN f.entries : /\ EntryOK(Reads(f, m)[i])
                                          /\ Reads(f, m)[i].kind = f.entries[i].kind
           /\ ~(f.asList /\ m.again) => Reads(f, m) = f.entries
<1>1. CASE ~(f.asList /\ m.again)
    BY <1>1, EntriesAreOK DEF Reads
<1>2. CASE f.asList /\ m.again
    <2> DEFINE e == f.entries[1]
               listed == Only(e.items, {x \in Held : KindOf[x] # "MLSC"})
    <2>1. Len(f.entries) = 1 /\ e.kind = "list" /\ EntryOK(e) /\ DOMAIN f.entries = {1} /\ e \in BulkEntry
        <3>1. f.entries \in Seq(BulkEntry) \ {<<>>} /\ Len(f.entries) = 1 /\ e.kind = "list"
            BY <1>2 DEF FileOK, BulkFile
        <3> QED
            BY <3>1, EntriesAreOK
    <2>2. listed \in Seq(Held)
        <3>1. listed \in Seq(Held \cap {x \in Held : KindOf[x] # "MLSC"})
            BY <2>1, OnlyKeeps DEF EntryOK
        <3> QED
            BY <3>1
    <2>3. Reads(f, m) = <<ReadAgain(e)>> /\ Len(<<ReadAgain(e)>>) = 1 /\ <<ReadAgain(e)>>[1] = ReadAgain(e)
        BY <1>2 DEF Reads
    <2>4. ReadAgain(e).kind = "list" /\ ReadAgain(e).items = (IF listed = <<>> THEN e.items ELSE listed)
        <3>1. e = [kind |-> e.kind, items |-> e.items]
            BY <2>1 DEF BulkEntry
        <3> HIDE DEF e
        <3> QED
            BY <2>1, <3>1 DEF ReadAgain
    <2>5. \A s \in Seq(Held) : s # <<>> => Len(s) \in Nat \ {0} /\ DOMAIN s = 1..Len(s)
        OBVIOUS
    <2>6. EntryOK(ReadAgain(e))
        <3> HIDE DEF listed
        <3> QED
            BY <2>1, <2>2, <2>4, <2>5 DEF EntryOK
    <2> QED
        BY <1>2, <2>1, <2>3, <2>4, <2>6
<1> QED
    BY <1>1, <1>2

LEMMA CurrentIsNow ==
    ASSUME BulkShape, NEW u \in Bulk, Works(mem[u])
    PROVE  /\ mem[u] \in BulkThread /\ EntriesOf(u) = Reads(fileOf[u], mem[u])
           /\ CurrentEntry(u) = EntryNow(fileOf[u], mem[u])
           /\ ThisItem(u) = EntryNow(fileOf[u], mem[u]).items[mem[u].sub]
           /\ IsListFile(u) = fileOf[u].asList /\ OfRetry(u) = (fileOf[u].asList /\ mem[u].again)
<1>1. mem[u] \in BulkThread
    BY DEF BulkShape, Works, IdleThread
<1> QED
    BY <1>1 DEF EntriesOf, CurrentEntry, EntryNow, ThisItem, Reads, IsListFile, OfRetry

\* Where the thread in an entry is.
LEMMA NowFacts ==
    ASSUME NEW f, FileOK(f), NEW m \in BulkThread, InEntry(m), AtFits(f, m)
    PROVE  /\ m.at \in DOMAIN f.entries /\ m.at \in Nat /\ m.sub \in Nat \ {0} /\ EntryOK(EntryNow(f, m)) /\ EntryOK(f.entries[m.at])
           /\ EntryNow(f, m).kind = f.entries[m.at].kind
           /\ ~(f.asList /\ m.again) => EntryNow(f, m) = f.entries[m.at]
           /\ m.sub = 1 \/ m.sub \in 1..Len(EntryNow(f, m).items)
           /\ EntryNow(f, m).kind # "list" => m.sub = 1 /\ Len(EntryNow(f, m).items) \in {0, 1}
           /\ EntryNow(f, m).kind = "list" => EntryNow(f, m).items[m.sub] \in Held
           /\ m.recount = "none"
<1>1. Works(m)
    BY DEF InEntry, Works
<1>2. m.at \in DOMAIN f.entries /\ m.at \in Nat
    BY <1>1, EntriesAreOK, ReadsAreOK DEF AtFits, BulkThread
<1>3. /\ EntryOK(EntryNow(f, m)) /\ EntryOK(f.entries[m.at]) /\ EntryNow(f, m).kind = f.entries[m.at].kind
      /\ ~(f.asList /\ m.again) => EntryNow(f, m) = f.entries[m.at]
    BY <1>2, EntriesAreOK, ReadsAreOK DEF EntryNow
<1>4. m.sub = 1 \/ m.sub \in 1..Len(EntryNow(f, m).items)
    BY <1>1 DEF AtFits
<1>5. m.recount = "none"
    BY <1>1 DEF AtFits
<1>6. EntryNow(f, m).kind # "list" => m.sub = 1 /\ Len(EntryNow(f, m).items) \in {0, 1}
    <2> DEFINE l == Len(EntryNow(f, m).items)
    <2>1. EntryNow(f, m).kind # "list" => l = 0 \/ l = 1
        BY <1>3 DEF EntryOK
    <2>2. m.sub = 1 \/ m.sub \in 1..l
        BY <1>4
    <2> HIDE DEF l
    <2>3. l = 0 \/ l = 1 => m.sub = 1
        BY <2>2
    <2> QED
        BY <2>1, <2>3 DEF l
<1>7. EntryNow(f, m).kind = "list" => EntryNow(f, m).items[m.sub] \in Held
    BY <1>3, <1>4 DEF EntryOK
<1>8. m.sub \in Nat \ {0}
    BY <1>4 DEF BulkThread
<1> QED
    BY <1>2, <1>3, <1>4, <1>5, <1>6, <1>7, <1>8

Same(n, k) ==
    /\ n.live = k.live /\ n.again = k.again /\ n.verdict = k.verdict /\ n.slipped = k.slipped
    /\ n.listed = k.listed /\ n.listedTwice = k.listedTwice /\ n.early = k.early /\ n.recount = k.recount
    /\ n.at = k.at

\* One item further: what is behind the thread now.
Further(f, m, n) ==
    /\ n \in BulkThread /\ n.pc \in {"item", "commit"} /\ n.at = m.at
    /\ \A kind : Behind(f, n, kind) = IF n.pc = "commit" /\ kind = f.entries[m.at].kind
                                      THEN Behind(f, m, kind) \cup {m.at} ELSE Behind(f, m, kind)
    /\ f.entries[m.at].kind # "list" => n.pc = "commit"
    /\ ~(f.asList /\ m.again) => PlacesBehind(f, n) = PlacesBehind(f, m) \cup (CertPlaces(f) \cap {<<m.at, m.sub>>})

LEMMA EntryLength ==
    ASSUME NEW e, EntryOK(e)
    PROVE  /\ Len(e.items) \in Nat
           /\ e.kind \in {"cert", "list"} => DOMAIN e.items = 1..Len(e.items)
BY DEF EntryOK

LEMMA OnwardFacts ==
    ASSUME BulkShape, NEW u \in Bulk, InEntry(mem[u]), AtFits(fileOf[u], mem[u]),
           NEW k \in BulkThread, k.at = mem[u].at, k.sub = mem[u].sub, k.again = mem[u].again, k.recount = "none"
    PROVE  LET n == Onward(k, u)
               f == fileOf[u]
               m == mem[u]
           IN  /\ Same(n, k) /\ AtFits(f, n) /\ Further(f, m, n)
               /\ \A key \in CountKey \ {"ml"} : n.counts[key] = k.counts[key]
               /\ n.counts["ml"] = k.counts["ml"] + (IF n.pc = "commit" /\ f.entries[m.at].kind = "list" THEN 1 ELSE 0)
<1> DEFINE n == Onward(k, u)
           f == fileOf[u]
           m == mem[u]
           e == EntryNow(f, m)
<1>1. Works(m) /\ FileOK(f) /\ m \in BulkThread
    BY FilesAreOK, CurrentIsNow DEF Works, InEntry
<1>2. CurrentEntry(u) = e
    BY <1>1, CurrentIsNow
<1>3. /\ m.at \in DOMAIN f.entries /\ m.at \in Nat /\ m.sub \in Nat \ {0} /\ e.kind = f.entries[m.at].kind
      /\ e.kind # "list" => m.sub = 1 /\ Len(e.items) \in {0, 1}
      /\ m.sub = 1 \/ m.sub \in 1..Len(e.items)
    BY <1>1, NowFacts
<1>3a. Len(e.items) \in Nat /\ EntryOK(e) /\ EntryOK(f.entries[m.at])
    <2>1. EntryOK(e) /\ EntryOK(f.entries[m.at])
        BY <1>1, NowFacts
    <2> QED
        BY <2>1, EntryLength
<1>3b. ~(f.asList /\ m.again) => e = f.entries[m.at]
    BY <1>1, NowFacts
<1> DEFINE more == m.sub < Len(e.items)
<1>4. ASSUME more
      PROVE  /\ Same(n, k) /\ n \in BulkThread /\ n.pc = "item" /\ n.sub = m.sub + 1 /\ n.counts = k.counts
             /\ e.kind = "list"
    <2>1. n = [k EXCEPT !.sub = @ + 1, !.pc = "item"]
        BY <1>2, <1>4 DEF Onward
    <2>1a. k.sub + 1 \in Nat /\ k.sub + 1 = m.sub + 1
        BY <1>3
    <2>3. e.kind = "list"
        <3> DEFINE l == Len(e.items)
        <3>1. m.sub < l /\ (e.kind # "list" => m.sub = 1 /\ l \in {0, 1})
            BY <1>3, <1>4
        <3> HIDE DEF l
        <3> QED
            BY <3>1
    <2> HIDE DEF n, m, f, e
    <2>2. Same(n, k) /\ n \in BulkThread /\ n.pc = "item" /\ n.sub = m.sub + 1 /\ n.counts = k.counts
        BY <2>1, <2>1a DEF BulkThread, BulkPc, Same
    <2> QED
        BY <2>2, <2>3
<1>5. ASSUME ~more
      PROVE  /\ Same(n, k) /\ n \in BulkThread /\ n.pc = "commit" /\ n.sub = 1
             /\ n.counts = IF e.kind = "list" THEN Bump(k.counts, {"ml"}) ELSE k.counts
    <2>1. n = [k EXCEPT !.sub = 1, !.pc = "commit", !.counts = IF e.kind = "list" THEN Bump(@, {"ml"}) ELSE @]
        BY <1>2, <1>5 DEF Onward
    <2>2. Bump(k.counts, {"ml"}) \in [CountKey -> Nat]
        BY DEF Bump, BulkThread
    <2> HIDE DEF n, m, f, e
    <2> QED
        BY <2>1, <2>2 DEF BulkThread, BulkPc, Same
<1> HIDE DEF n, e
<1>6. /\ \A key \in CountKey \ {"ml"} : n.counts[key] = k.counts[key]
      /\ n.counts["ml"] = k.counts["ml"] + (IF n.pc = "commit" /\ f.entries[m.at].kind = "list" THEN 1 ELSE 0)
    <2>1. \A key \in CountKey : Bump(k.counts, {"ml"})[key] = IF key = "ml" THEN k.counts[key] + 1 ELSE k.counts[key]
        BY DEF Bump, BulkThread
    <2>2. "ml" \in CountKey /\ k.counts["ml"] \in Nat
        BY DEF CountKey, BulkThread
    <2>3. CASE more
        BY <1>4, <2>2, <2>3
    <2>4. CASE ~more
        BY <1>3, <1>5, <2>1, <2>2, <2>4
    <2> QED
        BY <2>3, <2>4
<1>7. n.recount = "none" /\ n.at = m.at /\ n.again = m.again /\ n \in BulkThread /\ n.pc \in {"item", "commit"}
    BY <1>4, <1>5 DEF Same
<1>8. Reads(f, n) = Reads(f, m) /\ EntryNow(f, n) = e
    BY <1>7 DEF Reads, EntryNow, e
<1>9. AtFits(f, n)
    <2>1. n.at \in 1..Len(Reads(f, n))
        BY <1>1, <1>7, <1>8 DEF AtFits
    <2>2. n.sub = 1 \/ (InEntry(n) /\ n.sub \in 1..Len(EntryNow(f, n).items))
        BY <1>3, <1>3a, <1>4, <1>5, <1>8 DEF InEntry
    <2> QED
        BY <1>7, <2>1, <2>2 DEF AtFits, InEntry
<1>10. Whole(m) = m.at - 1 /\ Whole(n) = (IF n.pc = "commit" THEN m.at ELSE m.at - 1)
    BY <1>7 DEF Whole, InEntry
<1>11. ASSUME NEW kind
       PROVE  Behind(f, n, kind) = IF n.pc = "commit" /\ kind = f.entries[m.at].kind
                                   THEN Behind(f, m, kind) \cup {m.at} ELSE Behind(f, m, kind)
    <2>1. m.at \in Nat \ {0}
        BY <1>1, <1>3, EntriesAreOK
    <2>2. 1..m.at = (1..(m.at - 1)) \cup {m.at}
        BY <2>1
    <2> QED
        BY <1>10, <2>2 DEF Behind
<1>12. ASSUME ~(f.asList /\ m.again) PROVE PlacesBehind(f, n) = PlacesBehind(f, m) \cup (CertPlaces(f) \cap {<<m.at, m.sub>>})
    <2>1. ASSUME NEW p \in CertPlaces(f)
          PROVE  p \in PlacesBehind(f, n) <=> p \in PlacesBehind(f, m) \/ (p[1] = m.at /\ p[2] = m.sub)
        <3>1. /\ p[1] \in Nat /\ p[2] \in Nat /\ p[2] \in DOMAIN f.entries[p[1]].items
              /\ f.entries[p[1]].kind \in {"cert", "list"}
            BY DEF CertPlaces
        <3>2. p[1] = m.at => p[2] \in 1..Len(e.items)
            <4>1. e.kind = "cert" => DOMAIN e.items = 1..Len(e.items)
                BY <1>3a, EntryLength
            <4>2. e.kind = "list" => DOMAIN e.items = 1..Len(e.items)
                BY <1>3a, EntryLength
            <4> QED
                BY <1>3, <1>3b, <1>12, <3>1, <4>1, <4>2
        <3>3. CASE more
            <4>1. n.pc = "item" /\ n.sub = m.sub + 1 /\ n.at = m.at
                BY <1>4, <1>7, <3>3
            <4> QED
                BY <1>3, <1>10, <3>1, <4>1 DEF PlacesBehind
        <3>4. CASE ~more
            <4>1. n.pc = "commit" /\ n.sub = 1 /\ n.at = m.at
                BY <1>5, <1>7, <3>4
            <4>2. p[1] = m.at => p[2] < m.sub \/ p[2] = m.sub
                BY <1>3, <1>3a, <3>1, <3>2, <3>4
            <4> QED
                BY <1>3, <1>10, <3>1, <4>1, <4>2 DEF PlacesBehind
        <3> QED
            BY <3>3, <3>4
    <2>2. PlacesBehind(f, n) \subseteq CertPlaces(f) /\ PlacesBehind(f, m) \subseteq CertPlaces(f)
        BY DEF PlacesBehind
    <2>3. \A p \in CertPlaces(f) : p = <<p[1], p[2]>>
        BY DEF CertPlaces
    <2>4. \A p \in CertPlaces(f) : p \in {<<m.at, m.sub>>} <=> p[1] = m.at /\ p[2] = m.sub
        BY <2>3
    <2> QED
        BY <2>1, <2>2, <2>4
<1>13. f.entries[m.at].kind # "list" => n.pc = "commit"
    BY <1>3, <1>4, <1>5
<1>14. Same(n, k)
    BY <1>4, <1>5
<1> QED
    BY <1>6, <1>7, <1>9, <1>11, <1>12, <1>13, <1>14 DEF n, Further

LEMMA BehindAreEntries ==
    ASSUME NEW f, FileOK(f), NEW m \in BulkThread, Works(m), AtFits(f, m), NEW kind
    PROVE  /\ Behind(f, m, kind) \subseteq DOMAIN f.entries
           /\ IsFiniteSet(Behind(f, m, kind)) /\ Cardinality(Behind(f, m, kind)) \in Nat
<1>1. m.at \in 1..Len(f.entries) /\ Len(f.entries) \in Nat /\ DOMAIN f.entries = 1..Len(f.entries)
    BY EntriesAreOK, ReadsAreOK DEF AtFits
<1>2. Whole(m) \in 0..Len(f.entries)
    BY <1>1 DEF Whole
<1>3. Behind(f, m, kind) \subseteq 1..Len(f.entries)
    BY <1>1, <1>2 DEF Behind
<1>4. IsFiniteSet(1..Len(f.entries))
    BY <1>1, FS_Interval
<1> QED
    BY <1>1, <1>3, <1>4, FS_Subset, FS_CardinalityType

\* What a step of one upload's thread may add to the tables.
CertsGrow(u, c, d) ==
    /\ d \in [Held -> CertRow \cup {NoCertRow}]
    /\ \A x \in Held :
           \/ d[x] = c[x]
           \/ \E type \in {"CSCA", "DSC", "DSC_NC", "MLSC"} :
                  c[x] = NoCertRow /\ d[x] = [by |-> u, as |-> type] /\ CertCame(fileOf[u], x, type)
VerdictsGrow(u, V, W) ==
    /\ V \subseteq W
    /\ \A r \in W \ V : r \in [cert : Held, upload : {u}, verdict : BulkVerdict] /\ VerdictCame(fileOf[u], r.cert)
CrlsGrow(u, b, d) ==
    /\ d \in [CrlId -> Bulk \cup {"none"}]
    /\ \A l \in CrlId : d[l] = b[l] \/ (d[l] = u /\ CrlCame(fileOf[u], l))

\* The numbers of the other uploads still fit.
LEMMA ElsewhereFits ==
    ASSUME BulkShape, CrlsCame, NEW u \in Bulk, NEW v \in Bulk, u # v, NEW f, NEW m, NEW r,
           NEW d, CertsGrow(u, certBy, d), NEW e, CrlsGrow(u, crlBy, e), NEW W, VerdictsGrow(u, verdicts, W),
           f = fileOf[v], m \in BulkThread \cup {IdleThread},
           ThreadFits(v, f, m, certBy, crlBy, verdicts, r, CrlsAreOnce(v))
    PROVE  ThreadFits(v, f, m, d, e, W, r, CrlsAreOnce(v))
<1>1. \A type : Mine(d, v, type) = Mine(certBy, v, type)
    <2>1. ASSUME NEW type, NEW x \in Held PROVE d[x] = [by |-> v, as |-> type] <=> certBy[x] = [by |-> v, as |-> type]
        <3>1. CASE d[x] = certBy[x]
            BY <3>1
        <3>2. CASE d[x] # certBy[x]
            <4>1. certBy[x].by = "none" /\ d[x].by = u
                BY <3>2 DEF CertsGrow, NoCertRow
            <4>2. v # "none"
                BY BulkAssumption
            <4> QED
                BY <4>1, <4>2
        <3> QED
            BY <3>1, <3>2
    <2> QED
        BY <2>1 DEF Mine
<1>2. (\A x \in Held : certBy[x].by # v) => \A x \in Held : d[x].by # v
    BY DEF CertsGrow
<1>3. \A S : MyVerdicts(W, v, S) = MyVerdicts(verdicts, v, S)
    BY DEF MyVerdicts, VerdictsGrow
<1>4. \A l \in CrlId : e[l] = v => crlBy[l] = v
    BY DEF CrlsGrow
<1>5. ASSUME CrlsAreOnce(v), NEW l \in CrlId, CrlCame(fileOf[v], l) PROVE e[l] = crlBy[l]
    <2> SUFFICES ASSUME CrlCame(fileOf[u], l) PROVE FALSE
        BY DEF CrlsGrow
    <2>1. PICK i \in DOMAIN fileOf[v].entries : fileOf[v].entries[i].kind = "crl" /\ fileOf[v].entries[i].items[1] = l
        BY <1>5 DEF CrlCame
    <2>2. PICK j \in DOMAIN fileOf[u].entries : fileOf[u].entries[j].kind = "crl" /\ fileOf[u].entries[j].items[1] = l
        BY DEF CrlCame
    <2>3. <<v, i>> \in CrlEntries /\ <<u, j>> \in CrlEntries /\ <<v, i>> # <<u, j>> /\ <<v, i>>[1] = v
        BY <2>1, <2>2 DEF CrlEntries, EntriesOfKind
    <2>4. CrlAt(<<v, i>>) = l /\ CrlAt(<<u, j>>) = l
        BY <2>1, <2>2 DEF CrlAt
    <2> QED
        BY <1>5, <2>3, <2>4 DEF CrlsAreOnce
<1>6. MyCrls(e, v) \subseteq MyCrls(crlBy, v) /\ (CrlsAreOnce(v) => MyCrls(e, v) = MyCrls(crlBy, v))
    <2>1. \A l \in CrlId : crlBy[l] = v => CrlCame(fileOf[v], l)
        BY BulkAssumption DEF CrlsCame
    <2> QED
        BY <1>4, <1>5, <2>1 DEF MyCrls
<1>7. Cardinality(MyCrls(e, v)) <= Cardinality(MyCrls(crlBy, v)) /\ Cardinality(MyCrls(e, v)) \in Nat
      /\ Cardinality(MyCrls(crlBy, v)) \in Nat
    <2>1. IsFiniteSet(MyCrls(crlBy, v))
        BY BulkIsFinite, FS_Subset DEF MyCrls
    <2> QED
        BY <1>6, <2>1, FS_Subset, FS_CardinalityType
<1>8. Works(m) /\ CrlsAreOnce(v) =>
          \A i \in Behind(f, m, "crl") : crlBy[f.entries[i].items[1]] = v => e[f.entries[i].items[1]] = v
    <2> SUFFICES ASSUME Works(m), CrlsAreOnce(v), NEW i \in Behind(f, m, "crl"),
                        crlBy[f.entries[i].items[1]] = v
                 PROVE  e[f.entries[i].items[1]] = v
        OBVIOUS
    <2>1. i \in DOMAIN f.entries
        BY FilesAreOK, BehindAreEntries DEF ThreadFits, Works, IdleThread
    <2>2. f.entries[i].items[1] \in CrlId /\ f.entries[i].kind = "crl"
        BY <2>1, FilesAreOK, EntriesAreOK DEF EntryOK, Behind
    <2>3. CrlCame(fileOf[v], f.entries[i].items[1])
        BY <2>1, <2>2 DEF CrlCame
    <2> QED
        BY <1>5, <2>2, <2>3
<1>9. CertCountsFit(v, f, m, d)
    <2>1. \A type, R : MineIn(d, v, type, R) = MineIn(certBy, v, type, R)
        BY <1>1 DEF MineIn
    <2> QED
        BY <1>1, <1>2, <2>1 DEF ThreadFits, CertCountsFit
<1>10. VerdictsFit(v, f, m, W)
    <2>1. \A S : VerdictCount(v, f, m, W, S) = VerdictCount(v, f, m, verdicts, S)
        BY <1>3 DEF VerdictCount
    <2>2. VerdictsFit(v, f, m, verdicts)
        BY DEF ThreadFits
    <2> QED
        BY <1>3, <2>1, <2>2 DEF VerdictsFit
<1>11. CrlCountsFit(v, f, m, e, CrlsAreOnce(v))
    <2>1. CrlCountsFit(v, f, m, crlBy, CrlsAreOnce(v))
        BY DEF ThreadFits
    <2>2. Works(m) => m.counts["crl"] \in Nat
        BY DEF Works, IdleThread, BulkThread, CountKey
    <2> QED
        BY <1>6, <1>7, <1>8, <2>1, <2>2 DEF CrlCountsFit
<1> QED
    BY <1>9, <1>10, <1>11 DEF ThreadFits

LEMMA CrlsStayOnce ==
    ASSUME fileOf' = fileOf
    PROVE  \A v : CrlsAreOnce(v)' = CrlsAreOnce(v)
<1>1. CrlEntries' = CrlEntries /\ \A p : CrlAt(p)' = CrlAt(p)
    BY DEF CrlEntries, EntriesOfKind, CrlAt
<1> QED
    BY <1>1 DEF CrlsAreOnce

LEMMA CrlsStillCame ==
    ASSUME CrlsCame, NEW u, fileOf' = fileOf, CrlsGrow(u, crlBy, crlBy')
    PROVE  CrlsCame'
<1> SUFFICES ASSUME NEW l \in CrlId, crlBy'[l] # "none" PROVE CrlCame(fileOf[crlBy'[l]], l)
    BY DEF CrlsCame, CrlCame
<1>1. CASE crlBy'[l] = crlBy[l]
    BY <1>1 DEF CrlsCame
<1>2. CASE crlBy'[l] # crlBy[l]
    BY <1>2 DEF CrlsGrow
<1> QED
    BY <1>1, <1>2

\* A step of one upload's thread leaves the others alone.
LEMMA ThreadStep ==
    ASSUME BulkInv, NEW u \in Bulk, NEW n \in BulkThread, NEW r \in BulkRow,
           fileOf' = fileOf, summary' = summary, mem' = [mem EXCEPT ![u] = n], uploadRow' = [uploadRow EXCEPT ![u] = r],
           CertsGrow(u, certBy, certBy'), VerdictsGrow(u, verdicts, verdicts'), CrlsGrow(u, crlBy, crlBy'),
           \A q \in verdicts' \ verdicts : certBy'[q.cert] # NoCertRow,
           ThreadFits(u, fileOf[u], n, certBy', crlBy', verdicts', r, CrlsAreOnce(u))
    PROVE  BulkInv'
<1> USE DEF BulkInv
<1>1. BulkShape'
    <2>1. \A q \in verdicts' : q \in [cert : Held, upload : Bulk, verdict : BulkVerdict]
        BY DEF BulkShape, VerdictsGrow
    <2> QED
        BY <2>1 DEF BulkShape, CertsGrow, CrlsGrow
<1>2. \A x \in Held : HasCert(x) => certBy'[x] = certBy[x]
    BY DEF CertsGrow, HasCert
<1>3. \A x \in Held : certBy'[x] # certBy[x] =>
          \E type \in {"CSCA", "DSC", "DSC_NC", "MLSC"} :
              certBy'[x] = [by |-> u, as |-> type] /\ CertCame(fileOf[u], x, type)
    BY DEF CertsGrow
<1>4. CertsCame'
    <2> SUFFICES ASSUME NEW x \in Held, certBy'[x] # NoCertRow PROVE CertCame(fileOf[certBy'[x].by], x, certBy'[x].as)
        BY DEF CertsCame, HasCert, CertCame
    <2>1. CASE certBy'[x] = certBy[x]
        BY <2>1 DEF CertsCame, HasCert
    <2>2. CASE certBy'[x] # certBy[x]
        BY <1>3, <2>2
    <2> QED
        BY <2>1, <2>2
<1>5. VerdictsCame'
    <2> SUFFICES ASSUME NEW q \in verdicts' PROVE certBy'[q.cert] # NoCertRow /\ VerdictCame(fileOf[q.upload], q.cert)
        BY DEF VerdictsCame, HasCert, VerdictCame
    <2>1. CASE q \in verdicts
        BY <1>2, <2>1 DEF VerdictsCame, HasCert, BulkShape
    <2>2. CASE q \notin verdicts
        BY <2>2 DEF VerdictsGrow
    <2> QED
        BY <2>1, <2>2
<1>6. CrlsCame'
    BY CrlsStillCame
<1>7. ThreadsFit'
    <2>1. \A v \in Bulk : CrlsAreOnce(v)' <=> CrlsAreOnce(v)
        BY CrlsStayOnce
    <2>2. ASSUME NEW v \in Bulk
          PROVE  ThreadFits(v, fileOf[v], mem'[v], certBy', crlBy', verdicts', uploadRow'[v], CrlsAreOnce(v))
        <3>1. CASE v = u
            <4>1. mem'[u] = n /\ uploadRow'[u] = r
                BY DEF BulkShape
            <4> QED
                BY <3>1, <4>1
        <3>2. CASE v # u
            <4>1. mem'[v] = mem[v] /\ uploadRow'[v] = uploadRow[v] /\ mem[v] \in BulkThread \cup {IdleThread}
                BY <3>2 DEF BulkShape
            <4>2. ThreadFits(v, fileOf[v], mem[v], certBy, crlBy, verdicts, uploadRow[v], CrlsAreOnce(v))
                BY DEF ThreadsFit
            <4> QED
                BY <3>2, <4>1, <4>2, ElsewhereFits
        <3> QED
            BY <3>1, <3>2
    <2>3. \A v \in Bulk : CrlsAreOnce(v)' = CrlsAreOnce(v)
        BY CrlsStayOnce
    <2> QED
        BY <2>2, <2>3 DEF ThreadsFit
<1>8. SummaryFits'
    <2>1. \A w : EntriesOfKind(w, "list")' = EntriesOfKind(w, "list")
        BY DEF EntriesOfKind
    <2>2. summary.pc # "idle" => \A x \in Held : summary.seen[x] \in {NoCertRow, certBy'[x]}
        BY <1>2 DEF SummaryFits, HasCert
    <2>3. \A x \in Held : certBy[x].as = "CSCA" => certBy'[x].as = "CSCA"
        BY <1>2 DEF HasCert, NoCertRow
    <2>4. summary.pc = "done" =>
              \E C \in SUBSET Held :
                  /\ summary.csca.selfSigned + summary.csca.link = Cardinality(C)
                  /\ \A x \in C : certBy'[x].as = "CSCA"
                  /\ \A x \in Held : summary.seen[x].as = "CSCA" => x \in C
        BY <2>3 DEF SummaryFits
    <2>5. summary.pc \in {"breakdown", "done"} => summary.verdicts \subseteq verdicts'
        BY DEF SummaryFits, VerdictsGrow
    <2> QED
        BY <2>1, <2>2, <2>4, <2>5 DEF SummaryFits
<1> QED
    BY <1>1, <1>4, <1>5, <1>6, <1>7, <1>8

-----------------------------------------------------------------------------
\* What an item adds to what is behind the thread.
LEMMA BehindCounts ==
    ASSUME NEW f, FileOK(f), NEW m \in BulkThread, NEW n, InEntry(m), AtFits(f, m), Further(f, m, n), NEW kind
    PROVE  /\ Cardinality(Behind(f, n, kind))
                 = Cardinality(Behind(f, m, kind)) + (IF n.pc = "commit" /\ kind = f.entries[m.at].kind THEN 1 ELSE 0)
           /\ Cardinality(Behind(f, m, kind)) \in Nat
<1>1. IsFiniteSet(Behind(f, m, kind)) /\ Cardinality(Behind(f, m, kind)) \in Nat
    BY BehindAreEntries DEF Works, InEntry
<1>2. m.at \notin Behind(f, m, kind)
    <2>1. m.at \in Nat
        BY DEF BulkThread
    <2> QED
        BY <2>1 DEF Behind, Whole
<1>3. Cardinality(Behind(f, m, kind) \cup {m.at}) = Cardinality(Behind(f, m, kind)) + 1
    BY <1>1, <1>2, FS_AddElement
<1>4. Behind(f, n, kind) = IF n.pc = "commit" /\ kind = f.entries[m.at].kind
                           THEN Behind(f, m, kind) \cup {m.at} ELSE Behind(f, m, kind)
    BY DEF Further
<1>5. CASE n.pc = "commit" /\ kind = f.entries[m.at].kind
    BY <1>1, <1>3, <1>4, <1>5
<1>6. CASE ~(n.pc = "commit" /\ kind = f.entries[m.at].kind)
    BY <1>1, <1>4, <1>6
<1> QED
    BY <1>5, <1>6

LEMMA CertsBehindFurther ==
    ASSUME NEW f, NEW m, NEW n, Further(f, m, n)
    PROVE  CertsBehind(f, n) = CertsBehind(f, m) \cup (IF n.pc = "commit" /\ f.entries[m.at].kind = "cert"
                                                       THEN {f.entries[m.at].items[1]} ELSE {})
BY DEF Further, CertsBehind

LEMMA ReachedFurther ==
    ASSUME NEW f, FileOK(f), NEW m \in BulkThread, NEW n, InEntry(m), AtFits(f, m), Further(f, m, n), ~(f.asList /\ m.again)
    PROVE  Reached(f, n) = Reached(f, m) \cup (IF f.entries[m.at].kind \in {"cert", "list"}
                                               THEN {f.entries[m.at].items[m.sub]} ELSE {})
<1> DEFINE e == f.entries[m.at]
           p == <<m.at, m.sub>>
<1>1. m.at \in DOMAIN f.entries /\ m.at \in Nat /\ m.sub \in Nat \ {0} /\ EntryOK(e) /\ EntryNow(f, m) = e
    BY NowFacts
<1>2. e.kind \in {"cert", "list"} => m.sub \in DOMAIN e.items
    <2>1. m.sub = 1 \/ m.sub \in 1..Len(e.items)
        BY <1>1, NowFacts
    <2>2. CASE e.kind = "cert"
        BY <1>1, <2>1, <2>2 DEF EntryOK
    <2>3. CASE e.kind = "list"
        BY <1>1, <2>1, <2>3 DEF EntryOK
    <2> QED
        BY <2>2, <2>3
<1>3. p \in CertPlaces(f) <=> e.kind \in {"cert", "list"}
    <2>1. p[1] = m.at /\ p[2] = m.sub /\ p \in Nat \X Nat
        BY <1>1
    <2> QED
        BY <1>1, <1>2, <2>1 DEF CertPlaces
<1>4. PlacesBehind(f, n) = PlacesBehind(f, m) \cup (IF e.kind \in {"cert", "list"} THEN {p} ELSE {})
    BY <1>3 DEF Further
<1>5. p[1] = m.at /\ p[2] = m.sub
    OBVIOUS
<1> HIDE DEF p
<1> QED
    BY <1>4, <1>5 DEF Reached

\* A step that keeps the thread where it is.
LEMMA InPlace ==
    ASSUME NEW f, NEW m, NEW n, InEntry(m), InEntry(n), n.at = m.at, n.sub = m.sub
    PROVE  /\ \A kind : Behind(f, n, kind) = Behind(f, m, kind)
           /\ PlacesBehind(f, n) = PlacesBehind(f, m) /\ Reached(f, n) = Reached(f, m)
           /\ CertsBehind(f, n) = CertsBehind(f, m)
<1>1. Whole(n) = Whole(m)
    BY DEF Whole
<1>2. /\ \A kind : Behind(f, n, kind) = Behind(f, m, kind)
      /\ PlacesBehind(f, n) = PlacesBehind(f, m)
    BY <1>1 DEF Behind, PlacesBehind
<1> QED
    BY <1>2 DEF Reached, CertsBehind

LEMMA CountsOfTypes ==
    /\ CountOf("CSCA") = "csca" /\ CountOf("DSC") = "dsc" /\ CountOf("DSC_NC") = "dscNc" /\ CountOf("MLSC") = "mlsc"
    /\ \A x \in Held : StoredAs(x) \in {"CSCA", "DSC", "DSC_NC", "MLSC"} /\ (StoredAs(x) = "MLSC" <=> KindOf[x] = "MLSC")
    /\ CountKey \ {"ml"} = {"csca", "dsc", "dscNc", "crl", "mlsc"}
BY HeldAssumption DEF CountOf, StoredAs, Held, CountKey

\* A certificate is saved that is counted now, or was when it was parsed.
CertCounts(f, m, n, x, type) ==
    /\ f.entries[m.at].kind \in {"cert", "list"}
    /\ ~(f.asList /\ m.again) => x = f.entries[m.at].items[m.sub]
    /\ f.asList => type \in {"CSCA", "MLSC"}
    /\ \/ /\ Awaited(f, m) /\ x = AwaitedCert(f, m) /\ type = StoredAs(x) /\ type # "MLSC"
          /\ \A k \in CountKey \ {"ml"} : n.counts[k] = m.counts[k]
       \/ /\ ~Awaited(f, m)
          /\ \A k \in CountKey \ {"ml"} : n.counts[k] = m.counts[k] + (IF k = CountOf(type) THEN 1 ELSE 0)

LEMMA CertsCome ==
    ASSUME NEW u \in Bulk, NEW f, FileOK(f), NEW m \in BulkThread, NEW n \in BulkThread, InEntry(m), AtFits(f, m),
           NEW c \in [Held -> CertRow \cup {NoCertRow}], CertCountsFit(u, f, m, c), Further(f, m, n),
           n.again = m.again, n.recount = "none", m.slipped => n.slipped, n.live["duplicate"] = m.live["duplicate"],
           NEW x \in Held, c[x] = NoCertRow, NEW type \in {"CSCA", "DSC", "DSC_NC", "MLSC"},
           CertCounts(f, m, n, x, type)
    PROVE  CertCountsFit(u, f, n, [c EXCEPT ![x] = [by |-> u, as |-> type]])
<1> SUFFICES ASSUME NEW d, d = [c EXCEPT ![x] = [by |-> u, as |-> type]] PROVE CertCountsFit(u, f, n, d)
    OBVIOUS
<1> USE DEF CertCounts
<1> DEFINE R == Reached(f, m)
<1> HIDE DEF R
<1>1. \A t : /\ Cardinality(Mine(c, u, t)) \in Nat /\ Cardinality(MineIn(c, u, t, R)) \in Nat
             /\ Cardinality(Mine(d, u, t)) = Cardinality(Mine(c, u, t)) + (IF t = type THEN 1 ELSE 0)
             /\ Cardinality(MineIn(d, u, t, R \cup {x})) = Cardinality(MineIn(c, u, t, R)) + (IF t = type THEN 1 ELSE 0)
    <2>1. u # "none"
        BY BulkAssumption
    <2>2. ASSUME NEW t
          PROVE  /\ x \notin Mine(c, u, t)
                 /\ t = type => Mine(d, u, t) = Mine(c, u, t) \cup {x}
                 /\ t # type => Mine(d, u, t) = Mine(c, u, t)
        <3>1. ASSUME NEW y \in Held PROVE d[y] = [by |-> u, as |-> t] <=> c[y] = [by |-> u, as |-> t] \/ (y = x /\ t = type)
            <4>1. [by |-> u, as |-> type] = [by |-> u, as |-> t] <=> t = type
                OBVIOUS
            <4>2. NoCertRow # [by |-> u, as |-> t]
                BY <2>1 DEF NoCertRow
            <4> QED
                BY <4>1, <4>2
        <3>2. x \notin Mine(c, u, t)
            BY <2>1 DEF Mine, NoCertRow
        <3> QED
            BY <3>1, <3>2 DEF Mine
    <2>3. ASSUME NEW t PROVE IsFiniteSet(Mine(c, u, t)) /\ IsFiniteSet(MineIn(c, u, t, R)) /\ x \notin MineIn(c, u, t, R)
        BY <2>2, BulkIsFinite, FS_Subset DEF Mine, MineIn
    <2>4. ASSUME NEW t, NEW S, IsFiniteSet(S), x \notin S, NEW T,
                 t = type => T = S \cup {x}, t # type => T = S
          PROVE  Cardinality(S) \in Nat /\ Cardinality(T) = Cardinality(S) + (IF t = type THEN 1 ELSE 0)
        <3>1. Cardinality(S \cup {x}) = Cardinality(S) + 1 /\ Cardinality(S) \in Nat
            BY <2>4, FS_AddElement, FS_CardinalityType
        <3>2. CASE t = type
            BY <2>4, <3>1, <3>2
        <3>3. CASE t # type
            BY <2>4, <3>1, <3>3
        <3> QED
            BY <3>2, <3>3
    <2>5. ASSUME NEW t
          PROVE  /\ t = type => MineIn(d, u, t, R \cup {x}) = MineIn(c, u, t, R) \cup {x}
                 /\ t # type => MineIn(d, u, t, R \cup {x}) = MineIn(c, u, t, R)
        <3>1. CASE t = type
            <4>1. Mine(d, u, t) = Mine(c, u, t) \cup {x}
                BY <2>2, <3>1
            <4> QED
                BY <3>1, <4>1 DEF MineIn
        <3>2. CASE t # type
            <4>1. Mine(d, u, t) = Mine(c, u, t) /\ x \notin Mine(c, u, t)
                BY <2>2, <3>2
            <4> QED
                BY <3>2, <4>1 DEF MineIn
        <3> QED
            BY <3>1, <3>2
    <2>6. ASSUME NEW t
          PROVE  Cardinality(Mine(c, u, t)) \in Nat
                 /\ Cardinality(Mine(d, u, t)) = Cardinality(Mine(c, u, t)) + (IF t = type THEN 1 ELSE 0)
        <3> DEFINE S == Mine(c, u, t)
                   T == Mine(d, u, t)
        <3>1. IsFiniteSet(S) /\ x \notin S /\ (t = type => T = S \cup {x}) /\ (t # type => T = S)
            BY <2>2, <2>3
        <3> HIDE DEF S, T
        <3>2. Cardinality(S) \in Nat /\ Cardinality(T) = Cardinality(S) + (IF t = type THEN 1 ELSE 0)
            BY <2>4, <3>1
        <3> QED
            BY <3>2 DEF S, T
    <2>7. ASSUME NEW t
          PROVE  Cardinality(MineIn(c, u, t, R)) \in Nat
                 /\ Cardinality(MineIn(d, u, t, R \cup {x})) = Cardinality(MineIn(c, u, t, R)) + (IF t = type THEN 1 ELSE 0)
        <3> DEFINE S == MineIn(c, u, t, R)
                   T == MineIn(d, u, t, R \cup {x})
        <3>1. IsFiniteSet(S) /\ x \notin S /\ (t = type => T = S \cup {x}) /\ (t # type => T = S)
            BY <2>3, <2>5
        <3> HIDE DEF S, T
        <3>2. Cardinality(S) \in Nat /\ Cardinality(T) = Cardinality(S) + (IF t = type THEN 1 ELSE 0)
            BY <2>4, <3>1
        <3> QED
            BY <3>2 DEF S, T
    <2> QED
        BY <2>6, <2>7
<1>2. ~(f.asList /\ m.again) => Reached(f, n) = R \cup {x}
    BY ReachedFurther DEF R
<1>3. Works(m) /\ Works(n) /\ ~Awaited(f, n) /\ m.recount = "none" /\ n.pc # "idle"
    BY NowFacts DEF Works, InEntry, Further, Awaited
<1>4. \A k \in CountKey : n.counts[k] \in Nat /\ m.counts[k] \in Nat
    BY DEF BulkThread
<1>5. f.asList => ~Awaited(f, m)
    BY NowFacts, FilesAreOK DEF FileOK, Awaited
<1>6. ~n.again => n.counts["mlsc"] = Cardinality(Mine(d, u, "MLSC"))
    <2>1. n.counts["mlsc"] = m.counts["mlsc"] + (IF type = "MLSC" THEN 1 ELSE 0)
        BY <1>4, CountsOfTypes
    <2>2. ~m.again => m.counts["mlsc"] = Cardinality(Mine(c, u, "MLSC"))
        BY <1>3 DEF CertCountsFit
    <2>3. Cardinality(Mine(d, u, "MLSC")) = Cardinality(Mine(c, u, "MLSC")) + (IF type = "MLSC" THEN 1 ELSE 0)
        BY <1>1
    <2> QED
        BY <2>1, <2>2, <2>3
<1>7. f.asList => /\ n.counts["csca"] <= Cardinality(Mine(d, u, "CSCA"))
                  /\ ~n.again => n.counts["csca"] = Cardinality(Mine(d, u, "CSCA"))
                  /\ n.counts["dsc"] = 0 /\ n.counts["dscNc"] = 0
    <2> SUFFICES ASSUME f.asList
                 PROVE  /\ n.counts["csca"] <= Cardinality(Mine(d, u, "CSCA"))
                        /\ ~n.again => n.counts["csca"] = Cardinality(Mine(d, u, "CSCA"))
                        /\ n.counts["dsc"] = 0 /\ n.counts["dscNc"] = 0
        OBVIOUS
    <2>1. /\ n.counts["csca"] = m.counts["csca"] + (IF type = "CSCA" THEN 1 ELSE 0)
          /\ n.counts["dsc"] = m.counts["dsc"] /\ n.counts["dscNc"] = m.counts["dscNc"]
        BY <1>4, <1>5, CountsOfTypes
    <2>2. /\ m.counts["csca"] <= Cardinality(Mine(c, u, "CSCA"))
          /\ ~m.again => m.counts["csca"] = Cardinality(Mine(c, u, "CSCA"))
          /\ m.counts["dsc"] = 0 /\ m.counts["dscNc"] = 0
        BY <1>3 DEF CertCountsFit
    <2>3. /\ Cardinality(Mine(d, u, "CSCA")) = Cardinality(Mine(c, u, "CSCA")) + (IF type = "CSCA" THEN 1 ELSE 0)
          /\ Cardinality(Mine(c, u, "CSCA")) \in Nat /\ m.counts["csca"] \in Nat
        <3>1. m.counts["csca"] \in Nat
            BY DEF BulkThread, CountKey
        <3> QED
            BY <1>1, <3>1
    <2> QED
        BY <2>1, <2>2, <2>3
<1>8. ASSUME ~f.asList, ~n.slipped, NEW t \in {"CSCA", "DSC", "DSC_NC"}, n.live["duplicate"] = 0
      PROVE  n.counts[CountOf(t)] = Cardinality(MineIn(d, u, t, Reached(f, n))) + 0
    <2>1. m.counts[CountOf(t)] = Cardinality(MineIn(c, u, t, R))
                                 + (IF Awaited(f, m) /\ StoredAs(AwaitedCert(f, m)) = t THEN 1 ELSE 0)
        BY <1>3, <1>8 DEF CertCountsFit, R
    <2>1a. Cardinality(MineIn(c, u, t, R)) \in Nat /\ m.counts[CountOf(t)] \in Nat
        BY <1>1, <1>4, CountsOfTypes
    <2>1b. Awaited(f, m) => (StoredAs(AwaitedCert(f, m)) = t <=> t = type)
        BY <1>4
    <2>2. CountOf(t) \in CountKey \ {"ml"} /\ (CountOf(t) = CountOf(type) <=> t = type)
        BY CountsOfTypes
    <2>3. Cardinality(MineIn(d, u, t, Reached(f, n))) = Cardinality(MineIn(c, u, t, R)) + (IF t = type THEN 1 ELSE 0)
        BY <1>1, <1>2, <1>8
    <2>4. CASE Awaited(f, m)
        <3>1. n.counts[CountOf(t)] = m.counts[CountOf(t)]
            BY <2>2, <2>4
        <3> QED
            BY <2>1, <2>1a, <2>1b, <2>3, <2>4, <3>1
    <2>5. CASE ~Awaited(f, m)
        <3>1. n.counts[CountOf(t)] = m.counts[CountOf(t)] + (IF t = type THEN 1 ELSE 0)
            BY <2>2, <2>5
        <3> QED
            BY <2>1, <2>1a, <2>3, <2>5, <3>1
    <2> QED
        BY <2>4, <2>5
<1> QED
    BY <1>3, <1>6, <1>7, <1>8 DEF CertCountsFit

\* The step that CertsCome is about, in one place.
CertSaved(u, f, m, n, c, x, type) ==
    /\ u \in Bulk /\ FileOK(f) /\ m \in BulkThread /\ n \in BulkThread /\ InEntry(m) /\ AtFits(f, m) /\ Further(f, m, n)
    /\ c \in [Held -> CertRow \cup {NoCertRow}] /\ CertCountsFit(u, f, m, c)
    /\ n.again = m.again /\ n.recount = "none" /\ (m.slipped => n.slipped) /\ n.live["duplicate"] = m.live["duplicate"]
    /\ x \in Held /\ c[x] = NoCertRow /\ type \in {"CSCA", "DSC", "DSC_NC", "MLSC"} /\ CertCounts(f, m, n, x, type)

LEMMA SavedCertFits ==
    ASSUME NEW u, NEW f, NEW m, NEW n, NEW c, NEW x, NEW type, CertSaved(u, f, m, n, c, x, type)
    PROVE  CertCountsFit(u, f, n, [c EXCEPT ![x] = [by |-> u, as |-> type]])
BY CertsCome, ZenonT(60) DEF CertSaved

\* No certificate is saved: nothing is counted, or from now on the numbers do not matter.
LEMMA CertsStay ==
    ASSUME NEW u \in Bulk, NEW f, FileOK(f), NEW m \in BulkThread, NEW n \in BulkThread, InEntry(m), AtFits(f, m),
           NEW c, CertCountsFit(u, f, m, c), Further(f, m, n),
           n.again = m.again, n.recount = "none", m.slipped => n.slipped,
           n.live["duplicate"] = 0 => m.live["duplicate"] = 0,
           \A k \in CountKey \ {"ml", "crl"} : n.counts[k] = m.counts[k],
           ~f.asList => \/ n.slipped \/ n.live["duplicate"] # 0
                        \/ f.entries[m.at].kind \notin {"cert", "list"}
                        \/ /\ f.entries[m.at].kind = "list"
                           /\ \A type \in {"CSCA", "DSC", "DSC_NC"} : f.entries[m.at].items[m.sub] \notin Mine(c, u, type)
    PROVE  CertCountsFit(u, f, n, c)
<1>1. Works(m) /\ Works(n) /\ ~Awaited(f, n) /\ m.recount = "none" /\ n.pc # "idle"
    BY NowFacts DEF Works, InEntry, Further, Awaited
<1>2. ~n.again => n.counts["mlsc"] = Cardinality(Mine(c, u, "MLSC"))
    BY <1>1, CountsOfTypes DEF CertCountsFit
<1>3. f.asList => /\ n.counts["csca"] <= Cardinality(Mine(c, u, "CSCA"))
                  /\ ~n.again => n.counts["csca"] = Cardinality(Mine(c, u, "CSCA"))
                  /\ n.counts["dsc"] = 0 /\ n.counts["dscNc"] = 0
    BY <1>1, CountsOfTypes DEF CertCountsFit
<1>4. ASSUME ~f.asList, ~n.slipped, NEW t \in {"CSCA", "DSC", "DSC_NC"}, n.live["duplicate"] = 0
      PROVE  n.counts[CountOf(t)] = Cardinality(MineIn(c, u, t, Reached(f, n))) + 0
    <2>1. m.counts[CountOf(t)] = Cardinality(MineIn(c, u, t, Reached(f, m)))
                                 + (IF Awaited(f, m) /\ StoredAs(AwaitedCert(f, m)) = t THEN 1 ELSE 0)
        BY <1>1, <1>4 DEF CertCountsFit
    <2>2. CountOf(t) \in CountKey \ {"ml", "crl"}
        BY CountsOfTypes
    <2>3. ~Awaited(f, m) /\ MineIn(c, u, t, Reached(f, n)) = MineIn(c, u, t, Reached(f, m))
        <3>1. ~Awaited(f, m)
            BY <1>4 DEF Awaited
        <3>2. Mine(c, u, t) \cap Reached(f, n) = Mine(c, u, t) \cap Reached(f, m)
            BY <1>4, ReachedFurther
        <3> QED
            BY <3>1, <3>2 DEF MineIn
    <2>4. n.counts[CountOf(t)] = m.counts[CountOf(t)] /\ m.counts[CountOf(t)] = Cardinality(MineIn(c, u, t, Reached(f, m))) + 0
        BY <2>1, <2>2, <2>3 DEF BulkThread
    <2> QED
        BY <2>2, <2>3, <2>4
<1> QED
    BY <1>1, <1>2, <1>3, <1>4 DEF CertCountsFit

LEMMA VerdictsAreFinite ==
    ASSUME BulkShape
    PROVE  IsFiniteSet(verdicts)
<1> DEFINE A == {"VALID", "EXPIRED_VALID", "INVALID", "PENDING"}
           P == (Held \X Bulk) \X (A \X BOOLEAN)
           F(p) == [cert |-> p[1][1], upload |-> p[1][2], verdict |-> [status |-> p[2][1], expired |-> p[2][2]]]
<1>1. IsFiniteSet({"VALID", "EXPIRED_VALID", "INVALID", "PENDING"}) /\ IsFiniteSet(BOOLEAN)
    <2>1. IsFiniteSet({"VALID"} \cup {"EXPIRED_VALID"}) /\ IsFiniteSet({"INVALID"} \cup {"PENDING"})
        BY FS_Singleton, FS_Union
    <2>2. IsFiniteSet(({"VALID"} \cup {"EXPIRED_VALID"}) \cup ({"INVALID"} \cup {"PENDING"}))
        BY <2>1, FS_Union
    <2>3. ({"VALID"} \cup {"EXPIRED_VALID"}) \cup ({"INVALID"} \cup {"PENDING"}) = A
        OBVIOUS
    <2>4. IsFiniteSet({TRUE} \cup {FALSE}) /\ {TRUE} \cup {FALSE} = BOOLEAN
        BY FS_Singleton, FS_Union
    <2> QED
        BY <2>2, <2>3, <2>4
<1>2. IsFiniteSet(P)
    <2>1. IsFiniteSet(Held \X Bulk) /\ IsFiniteSet(A \X BOOLEAN)
        BY <1>1, BulkIsFinite, FS_Product
    <2> QED
        BY <2>1, FS_Product
<1>3. [cert : Held, upload : Bulk, verdict : BulkVerdict] \subseteq {F(p) : p \in P}
    <2> SUFFICES ASSUME NEW q \in [cert : Held, upload : Bulk, verdict : BulkVerdict]
                 PROVE  \E p \in P : q = F(p)
        OBVIOUS
    <2> DEFINE p == <<<<q.cert, q.upload>>, <<q.verdict.status, q.verdict.expired>>>>
    <2>1. p \in P
        BY DEF BulkVerdict
    <2>2. q.verdict = [status |-> q.verdict.status, expired |-> q.verdict.expired]
        BY DEF BulkVerdict
    <2>3. q = [cert |-> q.cert, upload |-> q.upload, verdict |-> q.verdict]
        OBVIOUS
    <2>4. F(p) = [cert |-> q.cert, upload |-> q.upload, verdict |-> [status |-> q.verdict.status, expired |-> q.verdict.expired]]
        OBVIOUS
    <2> HIDE DEF p, F, P
    <2>5. q = F(p)
        BY <2>2, <2>3, <2>4
    <2> QED
        BY <2>1, <2>5
<1> QED
    <2> DEFINE g == [p \in P |-> F(p)]
               T == {g[p] : p \in P}
    <2> HIDE DEF F, P
    <2>1. IsFiniteSet(T)
        <3>1. DOMAIN g = P
            OBVIOUS
        <3> HIDE DEF g
        <3> QED
            BY <1>2, <3>1, ImageIsFinite
    <2>2. {F(p) : p \in P} = T
        OBVIOUS
    <2>3. verdicts \subseteq T
        BY <1>3, <2>2 DEF BulkShape
    <2> HIDE DEF T
    <2> QED
        BY <2>1, <2>3, FS_Subset

LEMMA VerdictCountIsNat ==
    ASSUME NEW u, NEW f, NEW m, NEW V, IsFiniteSet(V), NEW S
    PROVE  VerdictCount(u, f, m, V, S) \in Nat
<1> DEFINE T == {r \in MyVerdicts(V, u, S) : r.cert \in CertsBehind(f, m)}
<1>1. IsFiniteSet(T)
    BY FS_Subset DEF MyVerdicts
<1>2. Cardinality(T) \in Nat
    BY <1>1, FS_CardinalityType
<1> HIDE DEF T
<1> QED
    BY <1>2 DEF VerdictCount, T

\* The numbers of verdicts, when the item has none or they no longer matter.
LEMMA VerdictsStay ==
    ASSUME NEW u, NEW f, FileOK(f), NEW m \in BulkThread, NEW n \in BulkThread, InEntry(m), AtFits(f, m),
           NEW V, IsFiniteSet(V), NEW W, VerdictsFit(u, f, m, V), Further(f, m, n),
           n.recount = "none", m.slipped => n.slipped, n.live["duplicate"] = 0 => m.live["duplicate"] = 0,
           ~f.asList /\ ~n.slipped => /\ n.live["notFound"] = m.live["notFound"] /\ n.live["pending"] = m.live["pending"]
                                      /\ n.live["chainInvalid"] = m.live["chainInvalid"] /\ n.live["invalid"] = m.live["invalid"],
           ~f.asList => \/ n.slipped \/ n.live["duplicate"] # 0
                        \/ /\ f.entries[m.at].kind # "cert" /\ W = V /\ n.live["chainValid"] = m.live["chainValid"]
                           /\ \E a \in Nat : n.live["valid"] = m.live["valid"] + a /\ n.listed = m.listed + a
    PROVE  VerdictsFit(u, f, n, W)
<1>1. Works(m) /\ Works(n) /\ ~Awaited(f, n) /\ m.recount = "none" /\ n.pc # "idle"
    BY NowFacts DEF Works, InEntry, Further, Awaited
<1>2. ASSUME ~f.asList, ~n.slipped PROVE n.live["notFound"] = n.live["pending"] /\ n.live["chainInvalid"] = n.live["invalid"]
    BY <1>1, <1>2 DEF VerdictsFit
<1>3. ASSUME ~f.asList, ~n.slipped, n.live["duplicate"] = 0
      PROVE  /\ n.live["valid"] = VerdictCount(u, f, n, W, {"VALID"}) + n.listed
             /\ n.live["invalid"] = VerdictCount(u, f, n, W, {"INVALID"})
             /\ n.live["pending"] = VerdictCount(u, f, n, W, {"PENDING"})
             /\ n.live["chainValid"] = VerdictCount(u, f, n, W, {"VALID", "EXPIRED_VALID"})
    <2>1. f.entries[m.at].kind # "cert" /\ W = V
        BY <1>3
    <2>2. CertsBehind(f, n) = CertsBehind(f, m) /\ ~Awaited(f, m)
        BY <2>1, CertsBehindFurther DEF Awaited
    <2>3. \A S : VerdictCount(u, f, n, W, S) = VerdictCount(u, f, m, V, S)
        BY <1>1, <2>1, <2>2 DEF VerdictCount
    <2>4. /\ m.live["valid"] = VerdictCount(u, f, m, V, {"VALID"}) + m.listed
          /\ m.live["invalid"] = VerdictCount(u, f, m, V, {"INVALID"})
          /\ m.live["pending"] = VerdictCount(u, f, m, V, {"PENDING"})
          /\ m.live["chainValid"] = VerdictCount(u, f, m, V, {"VALID", "EXPIRED_VALID"})
        BY <1>1, <1>3 DEF VerdictsFit
    <2>5. VerdictCount(u, f, m, V, {"VALID"}) \in Nat /\ m.listed \in Nat
        BY VerdictCountIsNat DEF BulkThread
    <2>6. PICK a \in Nat : n.live["valid"] = m.live["valid"] + a /\ n.listed = m.listed + a
        BY <1>3
    <2>7. n.live["valid"] = VerdictCount(u, f, m, V, {"VALID"}) + n.listed
        BY <2>4, <2>5, <2>6
    <2> QED
        BY <1>3, <2>3, <2>4, <2>7
<1> QED
    BY <1>1, <1>2, <1>3 DEF VerdictsFit

\* A certificate of the file got its verdict, and is saved next.
LEMMA VerdictsAwaited ==
    ASSUME NEW u, NEW f, NEW m \in BulkThread, NEW n \in BulkThread, m.pc = "item", n.pc = "insert",
           n.at = m.at, n.sub = m.sub, f.entries[m.at].kind = "cert",
           NEW V, IsFiniteSet(V), VerdictsFit(u, f, m, V), m.recount = "none", n.recount = "none", n.slipped = m.slipped,
           n.listed = m.listed, n.verdict \in BulkVerdict,
           n.live = Bump(m.live, LiveOf(n.verdict))
    PROVE  VerdictsFit(u, f, n, V)
<1>1. Works(m) /\ ~Awaited(f, m) /\ Awaited(f, n) /\ InEntry(m) /\ InEntry(n)
    BY DEF Works, InEntry, Awaited
<1>2. CertsBehind(f, n) = CertsBehind(f, m)
    BY <1>1, InPlace
<1>3. ASSUME NEW S PROVE VerdictCount(u, f, n, V, S) = VerdictCount(u, f, m, V, S) + (IF n.verdict.status \in S THEN 1 ELSE 0)
    <2> DEFINE x == Cardinality({r \in MyVerdicts(V, u, S) : r.cert \in CertsBehind(f, m)})
    <2>1. VerdictCount(u, f, m, V, S) = x + 0
        BY <1>1 DEF VerdictCount
    <2>2. VerdictCount(u, f, n, V, S) = x + (IF n.verdict.status \in S THEN 1 ELSE 0)
        BY <1>1, <1>2 DEF VerdictCount
    <2>3. x \in Nat
        <3>1. IsFiniteSet({r \in MyVerdicts(V, u, S) : r.cert \in CertsBehind(f, m)})
            BY FS_Subset DEF MyVerdicts
        <3> QED
            BY <3>1, FS_CardinalityType
    <2> HIDE DEF x
    <2> QED
        BY <2>1, <2>2, <2>3
<1> DEFINE s == n.verdict.status
<1>4. s \in {"VALID", "EXPIRED_VALID", "INVALID", "PENDING"}
    BY DEF BulkVerdict
<1>5. \A k \in LiveKey : n.live[k] = m.live[k] + (IF k \in LiveOf(n.verdict) THEN 1 ELSE 0) /\ m.live[k] \in Nat
    BY DEF Bump, BulkThread
<1>6. /\ n.live["valid"] = m.live["valid"] + (IF s = "VALID" THEN 1 ELSE 0)
      /\ n.live["invalid"] = m.live["invalid"] + (IF s = "INVALID" THEN 1 ELSE 0)
      /\ n.live["pending"] = m.live["pending"] + (IF s = "PENDING" THEN 1 ELSE 0)
      /\ n.live["chainValid"] = m.live["chainValid"] + (IF s \in {"VALID", "EXPIRED_VALID"} THEN 1 ELSE 0)
      /\ n.live["notFound"] = m.live["notFound"] + (IF s = "PENDING" THEN 1 ELSE 0)
      /\ n.live["chainInvalid"] = m.live["chainInvalid"] + (IF s = "INVALID" THEN 1 ELSE 0)
      /\ n.live["duplicate"] = m.live["duplicate"]
    <2>1. LiveOf(n.verdict) \cap {"duplicate", "error"} = {}
          /\ ("valid" \in LiveOf(n.verdict) <=> s = "VALID")
          /\ ("invalid" \in LiveOf(n.verdict) <=> s = "INVALID")
          /\ ("pending" \in LiveOf(n.verdict) <=> s = "PENDING")
          /\ ("chainValid" \in LiveOf(n.verdict) <=> s \in {"VALID", "EXPIRED_VALID"})
          /\ ("notFound" \in LiveOf(n.verdict) <=> s = "PENDING")
          /\ ("chainInvalid" \in LiveOf(n.verdict) <=> s = "INVALID")
        BY <1>4 DEF LiveOf, StatusKey, ChainKey, PeriodKey, ChainIsValid
    <2>2. {"valid", "invalid", "pending", "chainValid", "notFound", "chainInvalid", "duplicate"} \subseteq LiveKey
        BY DEF LiveKey
    <2> HIDE DEF s
    <2> QED
        BY <1>5, <2>1, <2>2
<1> HIDE DEF s
<1>7. ASSUME ~f.asList, ~n.slipped PROVE n.live["notFound"] = n.live["pending"] /\ n.live["chainInvalid"] = n.live["invalid"]
    BY <1>1, <1>6, <1>7 DEF VerdictsFit
<1>8. ASSUME ~f.asList, ~n.slipped, n.live["duplicate"] = 0
      PROVE  /\ n.live["valid"] = VerdictCount(u, f, n, V, {"VALID"}) + n.listed
             /\ n.live["invalid"] = VerdictCount(u, f, n, V, {"INVALID"})
             /\ n.live["pending"] = VerdictCount(u, f, n, V, {"PENDING"})
             /\ n.live["chainValid"] = VerdictCount(u, f, n, V, {"VALID", "EXPIRED_VALID"})
    <2>1. /\ m.live["valid"] = VerdictCount(u, f, m, V, {"VALID"}) + m.listed
          /\ m.live["invalid"] = VerdictCount(u, f, m, V, {"INVALID"})
          /\ m.live["pending"] = VerdictCount(u, f, m, V, {"PENDING"})
          /\ m.live["chainValid"] = VerdictCount(u, f, m, V, {"VALID", "EXPIRED_VALID"})
        BY <1>1, <1>6, <1>8 DEF VerdictsFit
    <2>2. VerdictCount(u, f, m, V, {"VALID"}) \in Nat /\ m.listed \in Nat
        BY VerdictCountIsNat DEF BulkThread
    <2>3. /\ VerdictCount(u, f, n, V, {"VALID"}) = VerdictCount(u, f, m, V, {"VALID"}) + (IF s = "VALID" THEN 1 ELSE 0)
          /\ VerdictCount(u, f, n, V, {"INVALID"}) = VerdictCount(u, f, m, V, {"INVALID"}) + (IF s = "INVALID" THEN 1 ELSE 0)
          /\ VerdictCount(u, f, n, V, {"PENDING"}) = VerdictCount(u, f, m, V, {"PENDING"}) + (IF s = "PENDING" THEN 1 ELSE 0)
          /\ VerdictCount(u, f, n, V, {"VALID", "EXPIRED_VALID"})
                 = VerdictCount(u, f, m, V, {"VALID", "EXPIRED_VALID"}) + (IF s \in {"VALID", "EXPIRED_VALID"} THEN 1 ELSE 0)
        BY <1>3 DEF s
    <2> QED
        BY <1>6, <2>1, <2>2, <2>3
<1> QED
    BY <1>1, <1>7, <1>8 DEF VerdictsFit

\* It is saved with its verdict.
LEMMA VerdictsSaved ==
    ASSUME NEW u, NEW f, FileOK(f), NEW m \in BulkThread, NEW n \in BulkThread, m.pc = "insert", AtFits(f, m),
           f.entries[m.at].kind = "cert", Further(f, m, n), n.recount = "none", n.slipped = m.slipped,
           n.listed = m.listed, n.live = m.live, NEW x, x = f.entries[m.at].items[1],
           NEW V, IsFiniteSet(V), VerdictsFit(u, f, m, V), \A r \in V : r.cert # x,
           NEW W, W = V \cup {[cert |-> x, upload |-> u, verdict |-> m.verdict]}
    PROVE  VerdictsFit(u, f, n, W)
<1>1. Works(m) /\ Awaited(f, m) /\ Works(n) /\ ~Awaited(f, n) /\ m.recount = "none" /\ n.pc = "commit" /\ InEntry(m)
    <2>1. InEntry(m)
        BY DEF InEntry
    <2> QED
        BY <2>1, NowFacts DEF Works, Awaited, Further
<1>2. CertsBehind(f, n) = CertsBehind(f, m) \cup {x}
    BY <1>1, CertsBehindFurther
<1> DEFINE q == [cert |-> x, upload |-> u, verdict |-> m.verdict]
<1>3. ASSUME NEW S PROVE VerdictCount(u, f, n, W, S) = VerdictCount(u, f, m, V, S)
    <2> DEFINE A == {r \in MyVerdicts(V, u, S) : r.cert \in CertsBehind(f, m)}
               B == {r \in MyVerdicts(W, u, S) : r.cert \in CertsBehind(f, n)}
    <2>1. IsFiniteSet(A) /\ Cardinality(A) \in Nat
        <3>1. IsFiniteSet(A)
            BY FS_Subset DEF MyVerdicts
        <3> QED
            BY <3>1, FS_CardinalityType
    <2>2. q.cert = x /\ q.upload = u /\ q.verdict = m.verdict
        OBVIOUS
    <2>3. q \notin A
        BY <2>2 DEF MyVerdicts
    <2>4. m.verdict.status \in S => B = A \cup {q}
        BY <1>2, <2>2 DEF MyVerdicts
    <2>5. m.verdict.status \notin S => B = A
        BY <1>2, <2>2 DEF MyVerdicts
    <2>6. VerdictCount(u, f, m, V, S) = Cardinality(A) + (IF m.verdict.status \in S THEN 1 ELSE 0)
        BY <1>1 DEF VerdictCount
    <2>7. VerdictCount(u, f, n, W, S) = Cardinality(B) + 0
        BY <1>1 DEF VerdictCount
    <2> HIDE DEF A, B, q
    <2>8. Cardinality(A \cup {q}) = Cardinality(A) + 1
        BY <2>1, <2>3, FS_AddElement
    <2>9. CASE m.verdict.status \in S
        <3>1. Cardinality(B) = Cardinality(A \cup {q})
            BY <2>4, <2>9
        <3>2. Cardinality(B) = Cardinality(A) + 1
            BY <2>8, <3>1
        <3> QED
            BY <2>1, <2>6, <2>7, <2>9, <3>2
    <2>10. CASE m.verdict.status \notin S
        BY <2>1, <2>5, <2>6, <2>7, <2>10
    <2> QED
        BY <2>9, <2>10
<1> HIDE DEF q
<1> QED
    BY <1>1, <1>3 DEF VerdictsFit

\* The numbers of lists, entries and errors; the row is not written.
LEMMA OthersFit ==
    ASSUME NEW f, FileOK(f), NEW m \in BulkThread, NEW n \in BulkThread, InEntry(m), AtFits(f, m), Further(f, m, n),
           m.slipped => n.slipped,
           n.counts["ml"] = m.counts["ml"] + (IF n.pc = "commit" /\ f.entries[m.at].kind = "list" THEN 1 ELSE 0),
           ListCountsFit(f, m), EntriesFit(f, m), ErrorsFit(f, m), NEW r, RowFits(f, m, r),
           NEW a \in Nat, ~f.asList => /\ n.live["total"] + n.early = m.live["total"] + m.early + a
                                       /\ n.listed + n.listedTwice = m.listed + m.listedTwice
                                              + (IF f.entries[m.at].kind = "cert" THEN 0 ELSE a)
                                       /\ f.entries[m.at].kind = "cert" => a = (IF Awaited(f, m) THEN 0 ELSE 1),
           ~f.asList /\ ~n.slipped =>
               n.live["error"] = m.live["error"] + (IF f.entries[m.at].kind = "broken" THEN 1 ELSE 0)
    PROVE  ListCountsFit(f, n) /\ EntriesFit(f, n) /\ ErrorsFit(f, n) /\ RowFits(f, n, r)
<1> DEFINE kind == f.entries[m.at].kind
           C(q, t) == Cardinality(Behind(f, q, t))
<1>1. Works(m) /\ Works(n) /\ ~Awaited(f, n) /\ n.pc \in {"item", "commit"}
    BY DEF Works, InEntry, Further, Awaited
<1>2. \A t : C(n, t) = C(m, t) + (IF n.pc = "commit" /\ t = kind THEN 1 ELSE 0) /\ C(m, t) \in Nat
    BY BehindCounts
<1>3. kind # "list" => n.pc = "commit"
    BY DEF Further
<1>4. ListCountsFit(f, n)
    <2>1. m.counts["ml"] = C(m, "list")
        BY <1>1 DEF ListCountsFit
    <2>2. n.counts["ml"] = C(n, "list")
        BY <1>2, <2>1
    <2> QED
        BY <2>2 DEF ListCountsFit
<1>5. EntriesFit(f, n)
    <2> SUFFICES ASSUME ~f.asList PROVE n.live["total"] + n.early = n.listed + n.listedTwice + C(n, "cert") + 0
        BY <1>1 DEF EntriesFit
    <2>1. m.live["total"] + m.early = m.listed + m.listedTwice + C(m, "cert") + (IF Awaited(f, m) THEN 1 ELSE 0)
        BY <1>1 DEF EntriesFit
    <2>2. Awaited(f, m) => kind = "cert"
        BY DEF Awaited
    <2>3. C(n, "cert") = C(m, "cert") + (IF kind = "cert" THEN 1 ELSE 0) /\ C(m, "cert") \in Nat
        BY <1>2, <1>3
    <2>4. /\ m.live["total"] \in Nat /\ m.early \in Nat /\ m.listed \in Nat /\ m.listedTwice \in Nat
          /\ n.live["total"] \in Nat /\ n.early \in Nat /\ n.listed \in Nat /\ n.listedTwice \in Nat
        BY DEF BulkThread, LiveKey
    <2>5. /\ n.live["total"] + n.early = m.live["total"] + m.early + a
          /\ n.listed + n.listedTwice = m.listed + m.listedTwice + (IF kind = "cert" THEN 0 ELSE a)
          /\ kind = "cert" => a = (IF Awaited(f, m) THEN 0 ELSE 1)
        OBVIOUS
    <2> HIDE DEF C, kind
    <2> QED
        BY <2>1, <2>2, <2>3, <2>4, <2>5
<1>6. ErrorsFit(f, n)
    <2> SUFFICES ASSUME ~f.asList, ~n.slipped PROVE n.live["error"] = C(n, "broken")
        BY DEF ErrorsFit
    <2>1. m.live["error"] = C(m, "broken")
        BY <1>1 DEF ErrorsFit
    <2>2. C(n, "broken") = C(m, "broken") + (IF kind = "broken" THEN 1 ELSE 0)
        BY <1>2, <1>3
    <2> QED
        BY <2>1, <2>2
<1>7. RowFits(f, n, r)
    BY <1>1 DEF RowFits
<1> QED
    BY <1>4, <1>5, <1>6, <1>7

LEMMA CrlsStay ==
    ASSUME NEW u, NEW f, FileOK(f), NEW m \in BulkThread, NEW n \in BulkThread, InEntry(m), AtFits(f, m), Further(f, m, n),
           m.slipped => n.slipped, NEW b, NEW once, CrlCountsFit(u, f, m, b, once), n.recount = "none",
           n.slipped \/ (f.entries[m.at].kind # "crl" /\ n.counts["crl"] = m.counts["crl"])
    PROVE  CrlCountsFit(u, f, n, b, once)
<1>1. Works(m) /\ m.recount = "none"
    BY NowFacts DEF Works, InEntry
<1>2. f.entries[m.at].kind # "crl" => Behind(f, n, "crl") = Behind(f, m, "crl")
    BY DEF Further
<1> QED
    BY <1>1, <1>2 DEF CrlCountsFit

LEMMA CrlsSaved ==
    ASSUME NEW u, NEW f, FileOK(f), NEW m \in BulkThread, NEW n \in BulkThread, InEntry(m), AtFits(f, m), Further(f, m, n),
           n.slipped = m.slipped, NEW b \in [CrlId -> Bulk \cup {"none"}], NEW once, CrlCountsFit(u, f, m, b, once),
           n.recount = "none", f.entries[m.at].kind = "crl", n.counts["crl"] = m.counts["crl"] + 1
    PROVE  CrlCountsFit(u, f, n, [b EXCEPT ![f.entries[m.at].items[1]] = u], once)
<1> DEFINE l == f.entries[m.at].items[1]
           d == [b EXCEPT ![l] = u]
<1>1. Works(m) /\ m.recount = "none" /\ n.pc = "commit" /\ l \in CrlId
    BY NowFacts DEF Works, InEntry, Further, EntryOK
<1>2. Cardinality(Behind(f, n, "crl")) = Cardinality(Behind(f, m, "crl")) + 1 /\ Behind(f, n, "crl") = Behind(f, m, "crl") \cup {m.at}
    BY <1>1, BehindCounts DEF Further
<1>3. Behind(f, m, "crl") \subseteq DOMAIN f.entries
    BY <1>1, BehindAreEntries
<1>4. ASSUME NEW i \in Behind(f, n, "crl"), once, ~m.slipped PROVE d[f.entries[i].items[1]] = u
    <2>1. CASE i = m.at
        BY <1>1, <2>1
    <2>2. CASE i # m.at
        <3>1. i \in Behind(f, m, "crl") /\ f.entries[i].kind = "crl" /\ i \in DOMAIN f.entries
            BY <1>2, <1>3, <2>2 DEF Behind
        <3>2. b[f.entries[i].items[1]] = u /\ f.entries[i].items[1] \in CrlId
            BY <1>1, <1>4, <3>1, EntriesAreOK DEF CrlCountsFit, EntryOK
        <3> QED
            BY <1>1, <3>2
    <2> QED
        BY <2>1, <2>2
<1>5. ~m.slipped => n.counts["crl"] = Cardinality(Behind(f, n, "crl"))
    BY <1>1, <1>2 DEF CrlCountsFit
<1> HIDE DEF d
<1> QED
    BY <1>4, <1>5 DEF CrlCountsFit, d

\* To the next item, with or without an error.
Onto(n, o) == n = o \/ n = [o EXCEPT !.slipped = TRUE]

ItemCounts(f, m, k, o, n) ==
    /\ n.live = k.live /\ n.again = m.again /\ n.recount = "none"
    /\ n.slipped = (IF n = o THEN k.slipped ELSE TRUE)
    /\ n.listed = k.listed /\ n.listedTwice = k.listedTwice /\ n.early = k.early
    /\ \A key \in CountKey \ {"ml"} : n.counts[key] = k.counts[key]
    /\ n.counts["ml"] = k.counts["ml"] + (IF n.pc = "commit" /\ f.entries[m.at].kind = "list" THEN 1 ELSE 0)

LEMMA ItemFacts ==
    ASSUME BulkShape, NEW u \in Bulk, InEntry(mem[u]), AtFits(fileOf[u], mem[u]),
           NEW k \in BulkThread, k.at = mem[u].at, k.sub = mem[u].sub, k.again = mem[u].again, k.recount = "none",
           NEW n, Onto(n, Onward(k, u))
    PROVE  LET f == fileOf[u]
               m == mem[u]
           IN  n \in BulkThread /\ AtFits(f, n) /\ Further(f, m, n) /\ ItemCounts(f, m, k, Onward(k, u), n)
<1> DEFINE o == Onward(k, u)
           f == fileOf[u]
           m == mem[u]
<1>1. /\ Same(o, k) /\ AtFits(f, o) /\ Further(f, m, o)
      /\ \A key \in CountKey \ {"ml"} : o.counts[key] = k.counts[key]
      /\ o.counts["ml"] = k.counts["ml"] + (IF o.pc = "commit" /\ f.entries[m.at].kind = "list" THEN 1 ELSE 0)
    BY OnwardFacts
<1> HIDE DEF o, f, m
<1>2. n = o \/ n = [o EXCEPT !.slipped = TRUE]
    BY DEF o, Onto
<1>3. o \in BulkThread /\ o.slipped \in BOOLEAN
    BY <1>1 DEF Further, BulkThread
<1>4. /\ n \in BulkThread /\ n.pc = o.pc /\ n.at = o.at /\ n.sub = o.sub /\ n.counts = o.counts /\ n.live = o.live
      /\ n.again = o.again /\ n.verdict = o.verdict /\ n.listed = o.listed /\ n.listedTwice = o.listedTwice
      /\ n.early = o.early /\ n.recount = o.recount /\ n.slipped = (IF n = o THEN o.slipped ELSE TRUE)
    BY <1>2, <1>3 DEF BulkThread
<1>5. AtFits(f, n)
    <2>1. Reads(f, n) = Reads(f, o) /\ EntryNow(f, n) = EntryNow(f, o) /\ InEntry(n) = InEntry(o) /\ Works(n) = Works(o)
        BY <1>4 DEF Reads, EntryNow, InEntry, Works
    <2> QED
        BY <1>1, <1>4, <2>1 DEF AtFits
<1>6. Further(f, m, n)
    <2>1. Whole(n) = Whole(o)
        BY <1>4 DEF Whole, InEntry
    <2>2. \A kind : Behind(f, n, kind) = Behind(f, o, kind)
        BY <2>1 DEF Behind
    <2>3. PlacesBehind(f, n) = PlacesBehind(f, o)
        BY <1>4, <2>1 DEF PlacesBehind
    <2> QED
        BY <1>1, <1>4, <2>2, <2>3 DEF Further
<1>7. n.live = k.live /\ n.listed = k.listed /\ n.listedTwice = k.listedTwice /\ n.early = k.early /\ n.recount = "none"
    BY <1>1, <1>4 DEF Same
<1>8. n.again = m.again
    BY <1>1, <1>4 DEF Same, m
<1>9. n.slipped = (IF n = o THEN k.slipped ELSE TRUE)
    BY <1>1, <1>4 DEF Same
<1>10. /\ \A key \in CountKey \ {"ml"} : n.counts[key] = k.counts[key]
       /\ n.counts["ml"] = k.counts["ml"] + (IF n.pc = "commit" /\ f.entries[m.at].kind = "list" THEN 1 ELSE 0)
    BY <1>1, <1>4
<1>11. ItemCounts(f, m, k, o, n)
    BY <1>7, <1>8, <1>9, <1>10 DEF ItemCounts
<1> QED
    BY <1>4, <1>5, <1>6, <1>11 DEF f, m, o

-----------------------------------------------------------------------------
(* Each action keeps the numbers right.                                    *)

LEMMA ActorFits ==
    ASSUME BulkInv, NEW u \in Bulk, Works(mem[u])
    PROVE  LET f == fileOf[u]
               m == mem[u]
           IN  /\ FileOK(f) /\ m \in BulkThread /\ uploadRow[u] \in BulkRow /\ IsFiniteSet(verdicts)
               /\ AtFits(f, m) /\ CertCountsFit(u, f, m, certBy) /\ CrlCountsFit(u, f, m, crlBy, CrlsAreOnce(u))
               /\ ListCountsFit(f, m) /\ TotalFits(f, m) /\ EntriesFit(f, m) /\ ErrorsFit(f, m)
               /\ VerdictsFit(u, f, m, verdicts) /\ RowFits(f, m, uploadRow[u])
               /\ CurrentEntry(u) = EntryNow(f, m) /\ ThisItem(u) = EntryNow(f, m).items[m.sub]
               /\ IsListFile(u) = f.asList /\ OfRetry(u) = (f.asList /\ m.again)
<1>1. FileOK(fileOf[u]) /\ uploadRow[u] \in BulkRow /\ IsFiniteSet(verdicts)
    BY FilesAreOK, VerdictsAreFinite DEF BulkInv, BulkShape
<1>2. ThreadFits(u, fileOf[u], mem[u], certBy, crlBy, verdicts, uploadRow[u], CrlsAreOnce(u))
    BY DEF BulkInv, ThreadsFit
<1>3. /\ mem[u] \in BulkThread
      /\ CurrentEntry(u) = EntryNow(fileOf[u], mem[u]) /\ ThisItem(u) = EntryNow(fileOf[u], mem[u]).items[mem[u].sub]
      /\ IsListFile(u) = fileOf[u].asList /\ OfRetry(u) = (fileOf[u].asList /\ mem[u].again)
    BY CurrentIsNow DEF BulkInv
<1> QED
    BY <1>1, <1>2, <1>3 DEF ThreadFits

LEMMA NothingGrows ==
    ASSUME BulkShape, NEW u \in Bulk
    PROVE  CertsGrow(u, certBy, certBy) /\ VerdictsGrow(u, verdicts, verdicts) /\ CrlsGrow(u, crlBy, crlBy)
BY DEF BulkShape, CertsGrow, VerdictsGrow, CrlsGrow

LEMMA StartFits ==
    ASSUME BulkInv, NEW u \in Bulk, StartUpload(u)
    PROVE  BulkInv'
<1> DEFINE f == fileOf[u]
           m == mem[u]
           n == [pc |-> "item", at |-> 1, sub |-> 1, counts |-> Zeros(CountKey), live |-> Zeros(LiveKey),
                 again |-> mem[u].pc = "stopped", verdict |-> NoVerdict, slipped |-> FALSE,
                 listed |-> 0, listedTwice |-> 0, early |-> 0, recount |-> "none"]
           r == [uploadRow[u] EXCEPT !.status = "PROCESSING"]
<1>1. /\ mem' = [mem EXCEPT ![u] = n] /\ uploadRow' = [uploadRow EXCEPT ![u] = r]
      /\ fileOf' = fileOf /\ certBy' = certBy /\ crlBy' = crlBy /\ verdicts' = verdicts /\ summary' = summary
      /\ m.pc \in {"idle", "stopped"}
    BY DEF StartUpload
<1>2. BulkShape /\ FileOK(f)
    BY FilesAreOK DEF BulkInv
<1>3. ThreadFits(u, f, m, certBy, crlBy, verdicts, uploadRow[u], CrlsAreOnce(u))
    BY DEF BulkInv, ThreadsFit
<1>4. Zeros(CountKey) \in [CountKey -> Nat] /\ Zeros(LiveKey) \in [LiveKey -> Nat]
    BY DEF Zeros
<1>5. n \in BulkThread
    BY <1>4 DEF BulkThread, BulkPc
<1>6. r \in BulkRow /\ r.counts = uploadRow[u].counts
    BY <1>2 DEF BulkShape, BulkRow
<1>7. /\ n.pc = "item" /\ n.at = 1 /\ n.sub = 1 /\ n.counts = Zeros(CountKey) /\ n.live = Zeros(LiveKey)
      /\ (n.again <=> m.pc = "stopped") /\ ~n.slipped /\ n.listed = 0 /\ n.listedTwice = 0 /\ n.early = 0
      /\ n.recount = "none"
    OBVIOUS
<1>8. Zeros(CountKey) = [k \in CountKey |-> 0] /\ Zeros(LiveKey) = [k \in LiveKey |-> 0]
    BY DEF Zeros
<1> HIDE DEF n, r
<1>9. Works(n) /\ InEntry(n) /\ Whole(n) = 0 /\ ~Awaited(f, n)
    BY <1>7 DEF Works, InEntry, Whole, Awaited
<1>10. \A kind : Behind(f, n, kind) = {} /\ Cardinality(Behind(f, n, kind)) = 0
    BY <1>9, FS_EmptySet DEF Behind
<1>11. CertsBehind(f, n) = {}
    BY <1>10 DEF CertsBehind
<1>12. Reached(f, n) = {}
    <2>1. ASSUME NEW p \in PlacesBehind(f, n) PROVE FALSE
        <3>1. p \in CertPlaces(f) /\ p[1] \in DOMAIN f.entries /\ p[2] \in DOMAIN f.entries[p[1]].items /\ p[1] \in Nat /\ p[2] \in Nat
            BY DEF PlacesBehind, CertPlaces
        <3>2. p[1] >= 1 /\ EntryOK(f.entries[p[1]])
            BY <1>2, <3>1, EntriesAreOK
        <3>3. p[2] >= 1
            <4>1. f.entries[p[1]].kind \in {"cert", "list"}
                BY <3>1 DEF CertPlaces
            <4>2. CASE f.entries[p[1]].kind = "cert"
                BY <3>1, <3>2, <4>2 DEF EntryOK
            <4>3. CASE f.entries[p[1]].kind = "list"
                BY <3>1, <3>2, <4>3 DEF EntryOK
            <4> QED
                BY <4>1, <4>2, <4>3
        <3> QED
            BY <1>7, <1>9, <3>1, <3>2, <3>3 DEF PlacesBehind
    <2> QED
        BY <2>1 DEF Reached
<1>13. AtFits(f, n)
    BY <1>2, <1>7, <1>9, EntriesAreOK, ReadsAreOK DEF AtFits, InEntry
<1>14. CertCountsFit(u, f, n, certBy)
    <2>1. /\ n.counts["mlsc"] = 0 /\ n.counts["csca"] = 0 /\ n.counts["dsc"] = 0 /\ n.counts["dscNc"] = 0
          /\ \A type \in {"CSCA", "DSC", "DSC_NC"} : n.counts[CountOf(type)] = 0
        BY <1>7, <1>8, CountsOfTypes
    <2>2. \A type : Cardinality(Mine(certBy, u, type)) \in Nat
        BY BulkIsFinite, FS_Subset, FS_CardinalityType DEF Mine
    <2>3. ~n.again => \A type : Cardinality(Mine(certBy, u, type)) = 0
        <3> SUFFICES ASSUME ~n.again PROVE \A type : Mine(certBy, u, type) = {}
            BY FS_EmptySet
        <3>1. \A x \in Held : certBy[x].by # u
            BY <1>1, <1>3, <1>7 DEF ThreadFits, CertCountsFit
        <3> QED
            BY <3>1 DEF Mine
    <2>4. \A type : Cardinality(MineIn(certBy, u, type, Reached(f, n))) = 0
        <3>1. \A type : MineIn(certBy, u, type, Reached(f, n)) = {}
            BY <1>12 DEF MineIn
        <3> QED
            BY <3>1, FS_EmptySet
    <2> QED
        BY <1>7, <1>9, <2>1, <2>2, <2>3, <2>4 DEF CertCountsFit
<1>15. CrlCountsFit(u, f, n, crlBy, CrlsAreOnce(u))
    <2>1. n.counts["crl"] = 0
        BY <1>7, <1>8 DEF CountKey
    <2> QED
        BY <1>7, <1>10, <2>1 DEF CrlCountsFit
<1>16. ListCountsFit(f, n)
    BY <1>7, <1>8, <1>10 DEF ListCountsFit, CountKey
<1>17. \A k \in LiveKey : n.live[k] = 0
    BY <1>7, <1>8
<1>18. TotalFits(f, n) /\ EntriesFit(f, n) /\ ErrorsFit(f, n)
    BY <1>7, <1>9, <1>10, <1>17 DEF TotalFits, EntriesFit, ErrorsFit, Statuses, LiveKey
<1>19. VerdictsFit(u, f, n, verdicts)
    <2>1. \A S : VerdictCount(u, f, n, verdicts, S) = 0 + 0
        <3>1. \A S : {q \in MyVerdicts(verdicts, u, S) : q.cert \in CertsBehind(f, n)} = {}
            BY <1>11
        <3> QED
            BY <1>9, <3>1, FS_EmptySet DEF VerdictCount
    <2> QED
        BY <1>7, <1>17, <2>1 DEF VerdictsFit, LiveKey
<1>20. RowFits(f, n, r)
    BY <1>3, <1>6, <1>7 DEF ThreadFits, RowFits
<1>21. ThreadFits(u, f, n, certBy, crlBy, verdicts, r, CrlsAreOnce(u))
    BY <1>13, <1>14, <1>15, <1>16, <1>18, <1>19, <1>20 DEF ThreadFits
<1> QED
    BY <1>1, <1>2, <1>5, <1>6, <1>21, NothingGrows, ThreadStep

LEMMA CertEntry ==
    ASSUME NEW f, FileOK(f), NEW m \in BulkThread, InEntry(m), AtFits(f, m), EntryNow(f, m).kind = "cert"
    PROVE  /\ ~f.asList /\ EntryNow(f, m) = f.entries[m.at] /\ f.entries[m.at].kind = "cert" /\ m.sub = 1
           /\ m.at \in DOMAIN f.entries /\ f.entries[m.at].items[1] \in Held /\ KindOf[f.entries[m.at].items[1]] # "MLSC"
<1>1. /\ m.at \in DOMAIN f.entries /\ f.entries[m.at].kind = "cert" /\ m.sub = 1 /\ EntryOK(f.entries[m.at])
      /\ ~(f.asList /\ m.again) => EntryNow(f, m) = f.entries[m.at]
    BY NowFacts
<1>2. ~f.asList
    <2>1. f.asList => DOMAIN f.entries = {1} /\ f.entries[1].kind = "list"
        BY EntriesAreOK DEF FileOK
    <2> QED
        BY <1>1, <2>1
<1> QED
    BY <1>1, <1>2 DEF EntryOK

LEMMA BumpedKeys ==
    ASSUME NEW D, NEW g \in [D -> Nat], NEW K
    PROVE  Bump(g, K) \in [D -> Nat] /\ \A k \in D : Bump(g, K)[k] = IF k \in K THEN g[k] + 1 ELSE g[k]
BY DEF Bump

LEMMA ParseFits ==
    ASSUME BulkInv, NEW u \in Bulk, ParseCertificate(u)
    PROVE  BulkInv'
<1> DEFINE f == fileOf[u]
           m == mem[u]
           x == f.entries[m.at].items[1]
<1>1. m.pc = "item" /\ CurrentEntry(u).kind = "cert" /\ InEntry(m) /\ Works(m) /\ BulkShape
    BY DEF ParseCertificate, InEntry, Works, BulkInv
<1>2. /\ FileOK(f) /\ m \in BulkThread /\ uploadRow[u] \in BulkRow /\ IsFiniteSet(verdicts)
      /\ AtFits(f, m) /\ CertCountsFit(u, f, m, certBy) /\ CrlCountsFit(u, f, m, crlBy, CrlsAreOnce(u))
      /\ ListCountsFit(f, m) /\ TotalFits(f, m) /\ EntriesFit(f, m) /\ ErrorsFit(f, m)
      /\ VerdictsFit(u, f, m, verdicts) /\ RowFits(f, m, uploadRow[u])
      /\ CurrentEntry(u) = EntryNow(f, m) /\ ThisItem(u) = EntryNow(f, m).items[m.sub]
    BY <1>1, ActorFits
<1>3. /\ ~f.asList /\ EntryNow(f, m) = f.entries[m.at] /\ f.entries[m.at].kind = "cert" /\ m.sub = 1
      /\ x \in Held /\ KindOf[x] # "MLSC" /\ m.recount = "none" /\ ~Awaited(f, m)
    BY <1>1, <1>2, CertEntry, NowFacts DEF Awaited
<1>4. ThisItem(u) = x
    BY <1>2, <1>3
<1>5. /\ fileOf' = fileOf /\ certBy' = certBy /\ crlBy' = crlBy /\ verdicts' = verdicts /\ uploadRow' = uploadRow /\ summary' = summary
    BY DEF ParseCertificate, tables
<1>6. uploadRow' = [uploadRow EXCEPT ![u] = uploadRow[u]]
    BY <1>1, <1>5 DEF BulkShape
<1>7. ASSUME HasCert(x) PROVE BulkInv'
    <2> DEFINE k == [m EXCEPT !.live = Bump(@, {"duplicate"}), !.early = @ + 1]
               n == Onward(k, u)
    <2>1. mem' = [mem EXCEPT ![u] = n]
        BY <1>4, <1>7 DEF ParseCertificate
    <2>2a. Bump(m.live, {"duplicate"}) \in [LiveKey -> Nat] /\ m.early + 1 \in Nat
        BY <1>2, BumpedKeys DEF BulkThread
    <2>2. /\ k \in BulkThread /\ k.live = Bump(m.live, {"duplicate"}) /\ k.early = m.early + 1
          /\ k.at = m.at /\ k.sub = m.sub /\ k.again = m.again /\ k.recount = "none" /\ k.slipped = m.slipped
          /\ k.listed = m.listed /\ k.listedTwice = m.listedTwice /\ k.counts = m.counts
        BY <1>2, <1>3, <2>2a DEF BulkThread
    <2> HIDE DEF k, f, m, x
    <2>3. /\ n \in BulkThread /\ AtFits(f, n) /\ Further(f, m, n)
          /\ n.live = Bump(m.live, {"duplicate"}) /\ n.again = m.again /\ n.recount = "none" /\ n.slipped = m.slipped
          /\ n.listed = m.listed /\ n.listedTwice = m.listedTwice /\ n.early = m.early + 1
          /\ \A key \in CountKey \ {"ml"} : n.counts[key] = m.counts[key]
          /\ n.counts["ml"] = m.counts["ml"] + (IF n.pc = "commit" /\ f.entries[m.at].kind = "list" THEN 1 ELSE 0)
        <3>1. /\ n \in BulkThread /\ AtFits(f, n) /\ Further(f, m, n)
              /\ n.live = k.live /\ n.again = m.again /\ n.recount = "none" /\ n.slipped = k.slipped
              /\ n.listed = k.listed /\ n.listedTwice = k.listedTwice /\ n.early = k.early
              /\ \A key \in CountKey \ {"ml"} : n.counts[key] = k.counts[key]
              /\ n.counts["ml"] = k.counts["ml"] + (IF n.pc = "commit" /\ f.entries[m.at].kind = "list" THEN 1 ELSE 0)
            <4>1. Onto(n, n)
                BY DEF Onto
            <4>2. n \in BulkThread /\ AtFits(f, n) /\ Further(f, m, n) /\ ItemCounts(f, m, k, n, n)
                BY <1>1, <1>2, <2>2, <4>1, ItemFacts DEF f, m
            <4> HIDE DEF n
            <4> QED
                BY <4>2 DEF ItemCounts
        <3> HIDE DEF n
        <3> QED
            BY <2>2, <3>1
    <2> HIDE DEF n
    <2>4. /\ \A key \in LiveKey : n.live[key] = IF key \in {"duplicate"} THEN m.live[key] + 1 ELSE m.live[key]
          /\ \A key \in LiveKey : n.live[key] \in Nat /\ m.live[key] \in Nat
        BY <1>2, <2>3, BumpedKeys DEF BulkThread
    <2>5. n.live["duplicate"] # 0 /\ \A key \in LiveKey \ {"duplicate"} : n.live[key] = m.live[key]
        BY <2>4 DEF LiveKey
    <2>6. CertCountsFit(u, f, n, certBy)
        <3>1. \A key \in CountKey \ {"ml", "crl"} : n.counts[key] = m.counts[key]
            BY <2>3
        <3> QED
            BY <1>1, <1>2, <2>3, <2>5, <3>1, CertsStay
    <2>7. CrlCountsFit(u, f, n, crlBy, CrlsAreOnce(u))
        <3>1. n.counts["crl"] = m.counts["crl"]
            BY <2>3 DEF CountKey
        <3> QED
            BY <1>1, <1>2, <1>3, <2>3, <3>1, CrlsStay
    <2>8. TotalFits(f, n)
        BY <1>1, <1>2, <1>3, <2>3, <2>5 DEF TotalFits, Statuses, LiveKey, Works
    <2>9. ListCountsFit(f, n) /\ EntriesFit(f, n) /\ ErrorsFit(f, n) /\ RowFits(f, n, uploadRow[u])
        <3>1. n.live["total"] + n.early = m.live["total"] + m.early + 1 /\ n.listed + n.listedTwice = m.listed + m.listedTwice + 0
            BY <1>2, <2>3, <2>4, <2>5 DEF BulkThread, LiveKey
        <3>2. n.live["error"] = m.live["error"] + 0
            BY <2>4, <2>5 DEF LiveKey
        <3> QED
            BY <1>1, <1>2, <1>3, <2>3, <3>1, <3>2, OthersFit
    <2>10. VerdictsFit(u, f, n, verdicts)
        <3>1. /\ n.live["notFound"] = m.live["notFound"] /\ n.live["pending"] = m.live["pending"]
              /\ n.live["chainInvalid"] = m.live["chainInvalid"] /\ n.live["invalid"] = m.live["invalid"]
            BY <2>5 DEF LiveKey
        <3> QED
            BY <1>1, <1>2, <2>3, <2>5, <3>1, VerdictsStay
    <2>11. ThreadFits(u, f, n, certBy, crlBy, verdicts, uploadRow[u], CrlsAreOnce(u))
        BY <2>3, <2>6, <2>7, <2>8, <2>9, <2>10 DEF ThreadFits
    <2> QED
        BY <1>1, <1>2, <1>5, <1>6, <2>1, <2>3, <2>11, NothingGrows, ThreadStep DEF f
<1>8. ASSUME ~HasCert(x) PROVE BulkInv'
    <2> DEFINE type == StoredAs(x)
    <2>1. PICK v \in VerdictsOn(x) :
              mem' = [mem EXCEPT ![u] = [m EXCEPT !.pc = "insert", !.verdict = v, !.live = Bump(@, LiveOf(v)),
                                                  !.counts = Bump(@, {CountOf(type)})]]
        BY <1>4, <1>8 DEF ParseCertificate
    <2> DEFINE n == [m EXCEPT !.pc = "insert", !.verdict = v, !.live = Bump(@, LiveOf(v)), !.counts = Bump(@, {CountOf(type)})]
    <2>2. v \in BulkVerdict
        BY VerdictsAssumption DEF VerdictsOn, BulkVerdict
    <2>3. /\ n \in BulkThread /\ n.pc = "insert" /\ n.verdict = v /\ n.live = Bump(m.live, LiveOf(v))
          /\ n.counts = Bump(m.counts, {CountOf(type)})
          /\ n.at = m.at /\ n.sub = m.sub /\ n.again = m.again /\ n.recount = "none" /\ n.slipped = m.slipped
          /\ n.listed = m.listed /\ n.listedTwice = m.listedTwice /\ n.early = m.early
        <3>1. Bump(m.live, LiveOf(v)) \in [LiveKey -> Nat] /\ Bump(m.counts, {CountOf(type)}) \in [CountKey -> Nat]
            <4>1. m.live \in [LiveKey -> Nat] /\ m.counts \in [CountKey -> Nat]
                BY <1>2 DEF BulkThread
            <4> HIDE DEF m, x, type
            <4>2. Bump(m.live, LiveOf(v)) \in [LiveKey -> Nat]
                BY <4>1, BumpedKeys
            <4>3. Bump(m.counts, {CountOf(type)}) \in [CountKey -> Nat]
                BY <4>1, BumpedKeys
            <4> QED
                BY <4>2, <4>3
        <3> QED
            BY <1>2, <1>3, <2>2, <3>1 DEF BulkThread, BulkPc
    <2> HIDE DEF f, m, x, n, type
    <2>4. /\ \A key \in LiveKey : n.live[key] = IF key \in LiveOf(v) THEN m.live[key] + 1 ELSE m.live[key]
          /\ \A key \in LiveKey : n.live[key] \in Nat /\ m.live[key] \in Nat
          /\ \A key \in CountKey : n.counts[key] = IF key \in {CountOf(type)} THEN m.counts[key] + 1 ELSE m.counts[key]
          /\ \A key \in CountKey : n.counts[key] \in Nat /\ m.counts[key] \in Nat
        BY <1>2, <2>3, BumpedKeys DEF BulkThread
    <2>5. /\ type \in {"CSCA", "DSC", "DSC_NC"} /\ CountOf(type) \in {"csca", "dsc", "dscNc"}
          /\ \A t \in {"CSCA", "DSC", "DSC_NC"} : CountOf(t) = CountOf(type) <=> t = type
        BY <1>3, CountsOfTypes DEF type
    <2>6. n.counts["ml"] = m.counts["ml"] /\ n.counts["crl"] = m.counts["crl"] /\ n.counts["mlsc"] = m.counts["mlsc"]
        BY <2>4, <2>5 DEF CountKey
    <2>7. /\ LiveOf(v) \cap {"duplicate", "error"} = {} /\ "total" \in LiveOf(v)
          /\ n.live["duplicate"] = m.live["duplicate"] /\ n.live["error"] = m.live["error"] /\ n.live["total"] = m.live["total"] + 1
          /\ Statuses(n.live) + n.live["expiredValid"] = Statuses(m.live) + m.live["expiredValid"] + 1
        <3>1. v.status \in {"VALID", "EXPIRED_VALID", "INVALID", "PENDING"}
            BY <2>2 DEF BulkVerdict
        <3>2. LiveOf(v) \cap {"duplicate", "error"} = {} /\ "total" \in LiveOf(v)
            BY <3>1 DEF LiveOf, StatusKey, ChainKey, PeriodKey, ChainIsValid
        <3>3. LiveOf(v) \cap {"valid", "expiredValid", "invalid", "pending"} = {StatusKey(v)}
              /\ StatusKey(v) \in {"valid", "expiredValid", "invalid", "pending"}
            BY <3>1 DEF LiveOf, StatusKey, ChainKey, PeriodKey, ChainIsValid
        <3>4. \A key \in {"valid", "expiredValid", "invalid", "pending"} :
                  n.live[key] = IF key = StatusKey(v) THEN m.live[key] + 1 ELSE m.live[key]
            BY <2>4, <3>3 DEF LiveKey
        <3>5. Statuses(n.live) + n.live["expiredValid"] = Statuses(m.live) + m.live["expiredValid"] + 1
            BY <2>4, <3>3, <3>4 DEF Statuses, LiveKey
        <3>6. n.live["duplicate"] = m.live["duplicate"] /\ n.live["error"] = m.live["error"] /\ n.live["total"] = m.live["total"] + 1
            BY <2>4, <3>2 DEF LiveKey
        <3> QED
            BY <3>2, <3>5, <3>6
    <2>8. InEntry(n) /\ Works(n) /\ Awaited(f, n) /\ AwaitedCert(f, n) = x
        BY <1>3, <2>3 DEF InEntry, Works, Awaited, AwaitedCert, x
    <2>9. /\ \A kind : Behind(f, n, kind) = Behind(f, m, kind)
          /\ PlacesBehind(f, n) = PlacesBehind(f, m) /\ Reached(f, n) = Reached(f, m) /\ CertsBehind(f, n) = CertsBehind(f, m)
        BY <1>1, <2>3, <2>8, InPlace DEF m
    <2>10. AtFits(f, n)
        <3>1. Reads(f, n) = Reads(f, m) /\ EntryNow(f, n) = EntryNow(f, m)
            BY <2>3 DEF Reads, EntryNow
        <3>2. m.at \in 1..Len(Reads(f, m)) /\ m.sub = 1
            BY <1>1, <1>2, <1>3 DEF AtFits, m
        <3> QED
            BY <1>3, <2>2, <2>3, <2>8, <3>1, <3>2 DEF AtFits, x
    <2>11. CertCountsFit(u, f, n, certBy)
        <3>1. ASSUME ~n.slipped, NEW t \in {"CSCA", "DSC", "DSC_NC"}, n.live["duplicate"] = 0
              PROVE  n.counts[CountOf(t)] = Cardinality(MineIn(certBy, u, t, Reached(f, n))) + (IF StoredAs(x) = t THEN 1 ELSE 0)
            <4>1. m.counts[CountOf(t)] = Cardinality(MineIn(certBy, u, t, Reached(f, m))) + 0
                BY <1>1, <1>2, <1>3, <2>3, <2>7, <3>1 DEF CertCountsFit, m
            <4>2. CountOf(t) \in CountKey
                BY CountsOfTypes
            <4>3. Cardinality(MineIn(certBy, u, t, Reached(f, m))) \in Nat
                BY BulkIsFinite, FS_Subset, FS_CardinalityType DEF Mine, MineIn
            <4>4. n.counts[CountOf(t)] = m.counts[CountOf(t)] + (IF type = t THEN 1 ELSE 0)
                BY <2>4, <2>5, <4>2
            <4> QED
                BY <2>9, <4>1, <4>3, <4>4 DEF type
        <3>2. ~n.again => n.counts["mlsc"] = Cardinality(Mine(certBy, u, "MLSC"))
            BY <1>1, <1>2, <2>3, <2>6 DEF CertCountsFit, m
        <3> QED
            BY <1>3, <2>3, <2>8, <3>1, <3>2 DEF CertCountsFit
    <2>12. CrlCountsFit(u, f, n, crlBy, CrlsAreOnce(u))
        BY <1>1, <1>2, <1>3, <2>3, <2>6, <2>8, <2>9 DEF CrlCountsFit, m
    <2>13. ListCountsFit(f, n) /\ ErrorsFit(f, n)
        BY <1>1, <1>2, <2>3, <2>6, <2>7, <2>9 DEF ListCountsFit, ErrorsFit, m
    <2>14. TotalFits(f, n)
        <3>1. m.live["total"] = Statuses(m.live) + m.live["expiredValid"] + m.listedTwice
            BY <1>1, <1>2, <1>3 DEF TotalFits, m
        <3>2. m.listedTwice \in Nat /\ Statuses(m.live) + m.live["expiredValid"] \in Nat
            BY <1>2, <2>4 DEF BulkThread, Statuses, LiveKey
        <3>3. n.live["total"] = Statuses(n.live) + n.live["expiredValid"] + n.listedTwice
            BY <2>3, <2>7, <3>1, <3>2
        <3> QED
            BY <1>3, <3>3 DEF TotalFits
    <2>15. EntriesFit(f, n)
        <3>1. Cardinality(Behind(f, m, "cert")) \in Nat
            BY <1>1, <1>2, BehindAreEntries DEF m
        <3>2. m.live["total"] + m.early = m.listed + m.listedTwice + Cardinality(Behind(f, m, "cert")) + 0
            BY <1>1, <1>2, <1>3 DEF EntriesFit, m
        <3>3. m.live["total"] \in Nat /\ m.early \in Nat /\ m.listed \in Nat /\ m.listedTwice \in Nat
            BY <1>2 DEF BulkThread, LiveKey
        <3>4. n.live["total"] + n.early = n.listed + n.listedTwice + Cardinality(Behind(f, n, "cert")) + 1
            BY <2>3, <2>7, <2>9, <3>1, <3>2, <3>3
        <3> QED
            BY <2>8, <3>4 DEF EntriesFit
    <2>16. VerdictsFit(u, f, n, verdicts)
        BY <1>1, <1>2, <1>3, <2>2, <2>3, VerdictsAwaited DEF m
    <2>17. RowFits(f, n, uploadRow[u])
        BY <1>2, <2>3 DEF RowFits
    <2>18. ThreadFits(u, f, n, certBy, crlBy, verdicts, uploadRow[u], CrlsAreOnce(u))
        BY <2>10, <2>11, <2>12, <2>13, <2>14, <2>15, <2>16, <2>17 DEF ThreadFits
    <2> QED
        BY <1>1, <1>2, <1>5, <1>6, <2>1, <2>3, <2>18, NothingGrows, ThreadStep DEF f, m, n
<1> QED
    BY <1>7, <1>8

\* A certificate of a list is counted, as new or as a duplicate.
LEMMA ListedFits ==
    ASSUME BulkInv, NEW u \in Bulk, InEntry(mem[u]), CurrentEntry(u).kind = "list",
           NEW x, x = ThisItem(u), NEW g \in BulkThread, g.verdict \in BulkVerdict,
           g.at = mem[u].at, g.sub = mem[u].sub, g.again = mem[u].again, g.recount = mem[u].recount,
           g.counts = mem[u].counts, g.live = mem[u].live, g.slipped = mem[u].slipped, g.early = mem[u].early,
           g.listed = mem[u].listed, g.listedTwice = mem[u].listedTwice,
           NEW new \in BOOLEAN, NEW d,
           \/ new /\ ~HasCert(x) /\ d = [certBy EXCEPT ![x] = [by |-> u, as |-> TypeInList(u, x)]]
           \/ ~new /\ HasCert(x) /\ d = certBy
    PROVE  /\ Listed_(g, u, x, new) \in BulkThread /\ CertsGrow(u, certBy, d)
           /\ ThreadFits(u, fileOf[u], Listed_(g, u, x, new), d, crlBy, verdicts, uploadRow[u], CrlsAreOnce(u))
<1> DEFINE f == fileOf[u]
           m == mem[u]
           signer == KindOf[x] = "MLSC"
           retry == f.asList /\ m.again
           K == LiveOfListed(u, x, g.verdict, new)
           type == TypeInList(u, x)
           k == [g EXCEPT !.live = Bump(@, K),
                          !.listed = IF new /\ ~signer THEN @ + 1 ELSE @,
                          !.listedTwice = IF new \/ signer THEN @ ELSE @ + 1,
                          !.counts = IF new THEN Bump(@, {CountOf(type)}) ELSE @]
           n == Onward(k, u)
<1>1. Works(m) /\ BulkShape /\ CertsCame
    BY DEF InEntry, Works, BulkInv
<1>2. /\ FileOK(f) /\ m \in BulkThread /\ uploadRow[u] \in BulkRow /\ IsFiniteSet(verdicts)
      /\ AtFits(f, m) /\ CertCountsFit(u, f, m, certBy) /\ CrlCountsFit(u, f, m, crlBy, CrlsAreOnce(u))
      /\ ListCountsFit(f, m) /\ TotalFits(f, m) /\ EntriesFit(f, m) /\ ErrorsFit(f, m)
      /\ VerdictsFit(u, f, m, verdicts) /\ RowFits(f, m, uploadRow[u])
      /\ CurrentEntry(u) = EntryNow(f, m) /\ ThisItem(u) = EntryNow(f, m).items[m.sub]
      /\ OfRetry(u) = retry
    BY <1>1, ActorFits
<1>3. /\ f.entries[m.at].kind = "list" /\ x \in Held /\ m.recount = "none" /\ ~Awaited(f, m)
      /\ ~retry => x = f.entries[m.at].items[m.sub]
    BY <1>2, NowFacts DEF Awaited
<1>4. Listed_(g, u, x, new) = n
    BY DEF Listed_
<1>5. type = IF signer /\ ~retry THEN "MLSC" ELSE "CSCA"
    BY <1>2 DEF TypeInList
<1>6. /\ K = CASE retry -> {"total", StatusKey(g.verdict)} \cup (IF new THEN {} ELSE {"duplicate"})
               [] ~retry /\ signer -> {}
               [] OTHER -> {"total", "inPeriod", IF new THEN "valid" ELSE "duplicate"}
      /\ StatusKey(g.verdict) \in {"valid", "expiredValid", "invalid", "pending"}
    BY <1>2 DEF LiveOfListed, StatusKey, BulkVerdict
<1> DEFINE v == StatusKey(g.verdict)
<1> HIDE DEF type, K, v
<1>7. /\ k \in BulkThread /\ k.live = Bump(m.live, K) /\ k.counts = (IF new THEN Bump(m.counts, {CountOf(type)}) ELSE m.counts)
      /\ k.at = m.at /\ k.sub = m.sub /\ k.again = m.again /\ k.recount = "none" /\ k.slipped = m.slipped /\ k.early = m.early
      /\ k.listed = (IF new /\ ~signer THEN m.listed + 1 ELSE m.listed)
      /\ k.listedTwice = (IF new \/ signer THEN m.listedTwice ELSE m.listedTwice + 1)
    <2> DEFINE live == Bump(g.live, K)
               counts == IF new THEN Bump(g.counts, {CountOf(type)}) ELSE g.counts
               listed == IF new /\ ~signer THEN g.listed + 1 ELSE g.listed
               twice == IF new \/ signer THEN g.listedTwice ELSE g.listedTwice + 1
    <2>1. live \in [LiveKey -> Nat] /\ counts \in [CountKey -> Nat]
        BY BumpedKeys DEF BulkThread
    <2>2. listed \in Nat /\ twice \in Nat
        BY DEF BulkThread
    <2>3. k = [g EXCEPT !.live = live, !.listed = listed, !.listedTwice = twice, !.counts = counts]
        OBVIOUS
    <2> HIDE DEF live, counts, listed, twice, k
    <2>4. /\ k \in BulkThread /\ k.live = live /\ k.counts = counts /\ k.listed = listed /\ k.listedTwice = twice
          /\ k.at = g.at /\ k.sub = g.sub /\ k.again = g.again /\ k.recount = g.recount /\ k.slipped = g.slipped
          /\ k.early = g.early
        BY <2>1, <2>2, <2>3 DEF BulkThread
    <2> QED
        BY <1>3, <2>4 DEF live, counts, listed, twice
<1> HIDE DEF f, m, k, signer, retry
<1>8. /\ n \in BulkThread /\ AtFits(f, n) /\ Further(f, m, n)
      /\ n.live = k.live /\ n.again = m.again /\ n.recount = "none" /\ n.slipped = k.slipped
      /\ n.listed = k.listed /\ n.listedTwice = k.listedTwice /\ n.early = k.early
      /\ \A key \in CountKey \ {"ml"} : n.counts[key] = k.counts[key]
      /\ n.counts["ml"] = k.counts["ml"] + (IF n.pc = "commit" /\ f.entries[m.at].kind = "list" THEN 1 ELSE 0)
    <2>1. Onto(n, n)
        BY DEF Onto
    <2>2. n \in BulkThread /\ AtFits(f, n) /\ Further(f, m, n) /\ ItemCounts(f, m, k, n, n)
        BY <1>1, <1>2, <1>7, <2>1, ItemFacts DEF f, m
    <2> HIDE DEF n
    <2> QED
        BY <2>2 DEF ItemCounts
<1> HIDE DEF n
<1>9. \A key \in LiveKey : /\ n.live[key] = IF key \in K THEN m.live[key] + 1 ELSE m.live[key]
                           /\ n.live[key] \in Nat /\ m.live[key] \in Nat
    BY <1>2, <1>7, <1>8, BumpedKeys DEF BulkThread
<1>10. /\ CountOf(type) \in CountKey \ {"ml", "crl"} /\ type \in {"CSCA", "MLSC"} /\ CountOf(type) # "ml"
       /\ \A key \in CountKey : k.counts[key] \in Nat /\ m.counts[key] \in Nat
    BY <1>2, <1>5, <1>7, CountsOfTypes DEF BulkThread
<1>11. \A key \in CountKey \ {"ml"} : n.counts[key] = m.counts[key] + (IF new /\ key = CountOf(type) THEN 1 ELSE 0)
    <2>1. CASE new
        <3>1. \A key \in CountKey : k.counts[key] = IF key \in {CountOf(type)} THEN m.counts[key] + 1 ELSE m.counts[key]
            BY <1>2, <1>7, <2>1, BumpedKeys DEF BulkThread
        <3> QED
            BY <1>8, <1>10, <2>1, <3>1
    <2>2. CASE ~new
        BY <1>7, <1>8, <1>10, <2>2
    <2> QED
        BY <2>1, <2>2
<1>12. n.counts["ml"] = m.counts["ml"] + (IF n.pc = "commit" /\ f.entries[m.at].kind = "list" THEN 1 ELSE 0)
    <2>1. k.counts["ml"] = m.counts["ml"]
        <3>1. \A key \in CountKey : Bump(m.counts, {CountOf(type)})[key] = IF key \in {CountOf(type)} THEN m.counts[key] + 1 ELSE m.counts[key]
            BY <1>2, BumpedKeys DEF BulkThread
        <3> QED
            BY <1>7, <1>10, <3>1 DEF CountKey
    <2> QED
        BY <1>8, <2>1
<1>13. n.counts["crl"] = m.counts["crl"]
    BY <1>10, <1>11 DEF CountKey
<1>14. /\ n.live["error"] = m.live["error"] /\ n.live["notFound"] = m.live["notFound"]
       /\ n.live["chainInvalid"] = m.live["chainInvalid"] /\ n.live["chainValid"] = m.live["chainValid"]
       /\ n.live["total"] = m.live["total"] + (IF ~retry /\ signer THEN 0 ELSE 1)
       /\ n.live["duplicate"] = m.live["duplicate"] + (IF new \/ (~retry /\ signer) THEN 0 ELSE 1)
    BY <1>6, <1>9 DEF LiveKey
<1>15. ~retry => /\ n.live["pending"] = m.live["pending"] /\ n.live["invalid"] = m.live["invalid"]
                 /\ n.live["expiredValid"] = m.live["expiredValid"]
                 /\ n.live["valid"] = m.live["valid"] + (IF new /\ ~signer THEN 1 ELSE 0)
    <2>1. ~retry /\ new /\ ~signer => "valid" \in K
        BY <1>6
    <2>2. ~retry /\ ~(new /\ ~signer) => "valid" \notin K
        BY <1>6
    <2>3. ~retry => "pending" \notin K /\ "invalid" \notin K /\ "expiredValid" \notin K
        BY <1>6
    <2> QED
        BY <1>9, <2>1, <2>2, <2>3 DEF LiveKey
<1>16. retry => Statuses(n.live) + n.live["expiredValid"] = Statuses(m.live) + m.live["expiredValid"] + 1
    <2> SUFFICES ASSUME retry PROVE Statuses(n.live) + n.live["expiredValid"] = Statuses(m.live) + m.live["expiredValid"] + 1
        OBVIOUS
    <2>1. \A key \in {"valid", "expiredValid", "invalid", "pending"} :
              /\ n.live[key] = IF key = v THEN m.live[key] + 1 ELSE m.live[key]
              /\ m.live[key] \in Nat
        BY <1>6, <1>9 DEF LiveKey, v
    <2>2. v \in {"valid", "expiredValid", "invalid", "pending"}
        BY <1>6 DEF v
    <2> QED
        BY <2>1, <2>2 DEF Statuses
<1>17. \A key \in LiveKey : n.live[key] \in Nat /\ m.live[key] \in Nat
    BY <1>9
<1>18. m.listed \in Nat /\ m.listedTwice \in Nat /\ m.early \in Nat /\ n.listed \in Nat /\ n.listedTwice \in Nat
    BY <1>2, <1>8 DEF BulkThread
<1>19. TotalFits(f, n)
    <2>1. m.live["total"] = Statuses(m.live) + m.live["expiredValid"] + (IF retry THEN 0 ELSE m.listedTwice)
        BY <1>1, <1>2, <1>3 DEF TotalFits, Works, retry
    <2>2. n.live["total"] = Statuses(n.live) + n.live["expiredValid"] + (IF retry THEN 0 ELSE n.listedTwice)
        <3>1. CASE retry
            BY <1>14, <1>16, <1>17, <2>1, <3>1 DEF LiveKey, Statuses
        <3>2. CASE ~retry
            <4>1. Statuses(n.live) + n.live["expiredValid"] = Statuses(m.live) + m.live["expiredValid"] + (IF new /\ ~signer THEN 1 ELSE 0)
                BY <1>15, <1>17, <3>2 DEF LiveKey, Statuses
            <4>2. Statuses(m.live) + m.live["expiredValid"] \in Nat
                BY <1>17 DEF LiveKey, Statuses
            <4>3. n.listedTwice = m.listedTwice + (IF new \/ signer THEN 0 ELSE 1)
                BY <1>7, <1>8, <1>18
            <4> HIDE DEF Statuses
            <4> QED
                BY <1>14, <1>17, <1>18, <2>1, <3>2, <4>1, <4>2, <4>3
        <3> QED
            BY <3>1, <3>2
    <2> QED
        BY <1>8, <2>2 DEF TotalFits, retry
<1>20. ListCountsFit(f, n) /\ EntriesFit(f, n) /\ ErrorsFit(f, n) /\ RowFits(f, n, uploadRow[u])
    <2> DEFINE a == IF ~retry /\ signer THEN 0 ELSE 1
    <2>1. a \in Nat /\ n.live["total"] + n.early = m.live["total"] + m.early + a
        BY <1>7, <1>8, <1>14, <1>17, <1>18 DEF LiveKey
    <2>2. ~f.asList => n.listed + n.listedTwice = m.listed + m.listedTwice + a
        BY <1>7, <1>8, <1>18 DEF retry
    <2>3. n.live["error"] = m.live["error"] + 0
        BY <1>14, <1>17 DEF LiveKey
    <2>4. m.slipped => n.slipped
        BY <1>7, <1>8
    <2> HIDE DEF a
    <2> QED
        BY <1>1, <1>2, <1>3, <1>8, <1>12, <2>1, <2>2, <2>3, <2>4, OthersFit DEF m
<1>21. CrlCountsFit(u, f, n, crlBy, CrlsAreOnce(u))
    BY <1>2, <1>3, <1>7, <1>8, <1>13, CrlsStay DEF m
<1>22. n.live["duplicate"] = 0 => m.live["duplicate"] = 0
    BY <1>14, <1>17 DEF LiveKey
<1>23. VerdictsFit(u, f, n, verdicts)
    <2>1. ~f.asList => ~retry
        BY DEF retry
    <2>2. ~retry => n.live["duplicate"] # 0
                    \/ \E b \in Nat : n.live["valid"] = m.live["valid"] + b /\ n.listed = m.listed + b
        <3>1. CASE new /\ ~signer
            BY <1>7, <1>8, <1>15, <3>1
        <3>2. CASE ~(new /\ ~signer)
            <4>1. ~retry => n.live["valid"] = m.live["valid"] + 0 /\ n.listed = m.listed + 0
                BY <1>7, <1>8, <1>15, <1>18, <3>2
            <4> QED
                BY <4>1
        <3> QED
            BY <3>1, <3>2
    <2>3. m.slipped => n.slipped
        BY <1>7, <1>8
    <2> QED
        BY <1>2, <1>3, <1>8, <1>14, <1>15, <1>22, <2>1, <2>2, <2>3, VerdictsStay DEF m
<1>24. CASE new
    <2>1. ~HasCert(x) /\ d = [certBy EXCEPT ![x] = [by |-> u, as |-> type]]
        BY <1>24 DEF type
    <2>2. certBy \in [Held -> CertRow \cup {NoCertRow}] /\ certBy[x] = NoCertRow
        BY <1>1, <2>1 DEF BulkShape, HasCert
    <2>3. CertCountsFit(u, f, n, d)
        <3>1. \A key \in CountKey \ {"ml"} : n.counts[key] = m.counts[key] + (IF key = CountOf(type) THEN 1 ELSE 0)
            BY <1>11, <1>24
        <3>2. n.live["duplicate"] = m.live["duplicate"] /\ (m.slipped => n.slipped)
            BY <1>7, <1>8, <1>14, <1>17, <1>24 DEF LiveKey
        <3>3. type \in {"CSCA", "DSC", "DSC_NC", "MLSC"} /\ (~(f.asList /\ m.again) => x = f.entries[m.at].items[m.sub])
            BY <1>3, <1>10 DEF retry
        <3>4. InEntry(m) /\ f.entries[m.at].kind \in {"cert", "list"} /\ n.recount = "none" /\ n.again = m.again
            BY <1>3, <1>8 DEF m
        <3>5. FileOK(f) /\ m \in BulkThread /\ AtFits(f, m) /\ CertCountsFit(u, f, m, certBy) /\ Further(f, m, n) /\ n \in BulkThread
            BY <1>2, <1>8
        <3>6. CertCounts(f, m, n, x, type)
            BY <1>3, <1>10, <3>1, <3>3, <3>4 DEF CertCounts
        <3>7. x \in Held
            BY <1>3
        <3>8. CertSaved(u, f, m, n, certBy, x, type)
            BY <2>2, <3>2, <3>3, <3>4, <3>5, <3>6, <3>7 DEF CertSaved
        <3>9. CertCountsFit(u, f, n, [certBy EXCEPT ![x] = [by |-> u, as |-> type]])
            BY <3>8, SavedCertFits
        <3> QED
            BY <2>1, <3>9
    <2>4. CertCame(f, x, type)
        <3>1. CASE f.asList
            BY <1>10, <3>1 DEF CertCame
        <3>2. CASE ~f.asList
            <4>1. ~retry /\ x = f.entries[m.at].items[m.sub]
                BY <1>3, <3>2 DEF retry
            <4>2. <<m.at, m.sub>> \in CertPlaces(f)
                <5>1. /\ m.at \in DOMAIN f.entries /\ m.at \in Nat /\ m.sub \in Nat \ {0} /\ EntryOK(f.entries[m.at])
                      /\ EntryNow(f, m) = f.entries[m.at]
                      /\ m.sub = 1 \/ m.sub \in 1..Len(EntryNow(f, m).items)
                    BY <1>2, <3>2, NowFacts DEF m
                <5>2. m.sub \in DOMAIN f.entries[m.at].items
                    BY <1>3, <5>1 DEF EntryOK
                <5>3. <<m.at, m.sub>>[1] = m.at /\ <<m.at, m.sub>>[2] = m.sub /\ <<m.at, m.sub>> \in Nat \X Nat
                    BY <5>1
                <5> QED
                    BY <1>3, <5>1, <5>2, <5>3 DEF CertPlaces
            <4>3. type = "MLSC" <=> KindOf[x] = "MLSC"
                BY <1>5, <4>1 DEF signer
            <4>4. <<m.at, m.sub>>[1] = m.at /\ <<m.at, m.sub>>[2] = m.sub
                OBVIOUS
            <4>5. \E p \in CertPlaces(f) : f.entries[p[1]].items[p[2]] = x
                BY <4>1, <4>2, <4>4
            <4> QED
                BY <3>2, <4>3, <4>5 DEF CertCame
        <3> QED
            BY <3>1, <3>2
    <2>5. CertsGrow(u, certBy, d)
        <3>1. type \in {"CSCA", "DSC", "DSC_NC", "MLSC"}
            BY <1>10
        <3>2. d \in [Held -> CertRow \cup {NoCertRow}]
            BY <2>1, <2>2, <3>1 DEF CertRow
        <3>3. d[x] = [by |-> u, as |-> type] /\ \A y \in Held : y # x => d[y] = certBy[y]
            BY <1>3, <2>1, <2>2
        <3> QED
            BY <2>2, <2>4, <3>1, <3>2, <3>3 DEF CertsGrow, f
    <2>6. ThreadFits(u, f, n, d, crlBy, verdicts, uploadRow[u], CrlsAreOnce(u))
        BY <1>8, <1>19, <1>20, <1>21, <1>23, <2>3 DEF ThreadFits
    <2> QED
        BY <1>4, <1>8, <2>5, <2>6 DEF f
<1>25. CASE ~new
    <2>1. HasCert(x) /\ d = certBy
        BY <1>25
    <2>2. CertsGrow(u, certBy, d)
        BY <1>1, <2>1, NothingGrows
    <2>3. CertCountsFit(u, f, n, d)
        <3>1. ~f.asList /\ signer => \A t \in {"CSCA", "DSC", "DSC_NC"} : x \notin Mine(certBy, u, t)
            <4> SUFFICES ASSUME ~f.asList, signer, NEW t \in {"CSCA", "DSC", "DSC_NC"}, x \in Mine(certBy, u, t) PROVE FALSE
                OBVIOUS
            <4>1. certBy[x].by = u /\ certBy[x].as = t
                BY DEF Mine
            <4>2. CertCame(f, x, t)
                BY <1>1, <1>3, <2>1, <4>1 DEF CertsCame, f
            <4>3. t = "MLSC"
                BY <4>2 DEF CertCame, signer
            <4> QED
                BY <4>3
        <3>2. \A key \in CountKey \ {"ml", "crl"} : n.counts[key] = m.counts[key]
            BY <1>10, <1>11, <1>25
        <3>3. ~f.asList => n.live["duplicate"] # 0 \/ signer
            BY <1>14, <1>17, <1>25 DEF LiveKey, retry
        <3>4. ~f.asList => x = f.entries[m.at].items[m.sub]
            BY <1>3 DEF retry
        <3>5. InEntry(m) /\ (m.slipped => n.slipped) /\ n.recount = "none" /\ n.again = m.again
            BY <1>7, <1>8 DEF m
        <3>6. FileOK(f) /\ m \in BulkThread /\ AtFits(f, m) /\ CertCountsFit(u, f, m, certBy) /\ Further(f, m, n) /\ n \in BulkThread
            BY <1>2, <1>8
        <3> QED
            BY <1>3, <1>22, <2>1, <3>1, <3>2, <3>3, <3>4, <3>5, <3>6, CertsStay
    <2>4. ThreadFits(u, f, n, d, crlBy, verdicts, uploadRow[u], CrlsAreOnce(u))
        BY <1>8, <1>19, <1>20, <1>21, <1>23, <2>3 DEF ThreadFits
    <2> QED
        BY <1>4, <1>8, <2>2, <2>4 DEF f
<1> QED
    BY <1>24, <1>25

LEMMA LookUpFits ==
    ASSUME BulkInv, NEW u \in Bulk, LookUpListed(u)
    PROVE  BulkInv'
<1> DEFINE f == fileOf[u]
           m == mem[u]
           x == ThisItem(u)
<1>1. m.pc = "item" /\ CurrentEntry(u).kind = "list" /\ InEntry(m) /\ Works(m) /\ BulkShape
    BY DEF LookUpListed, InList, InEntry, Works, BulkInv
<1>2. /\ FileOK(f) /\ m \in BulkThread /\ uploadRow[u] \in BulkRow /\ IsFiniteSet(verdicts)
      /\ AtFits(f, m) /\ CertCountsFit(u, f, m, certBy) /\ CrlCountsFit(u, f, m, crlBy, CrlsAreOnce(u))
      /\ ListCountsFit(f, m) /\ TotalFits(f, m) /\ EntriesFit(f, m) /\ ErrorsFit(f, m)
      /\ VerdictsFit(u, f, m, verdicts) /\ RowFits(f, m, uploadRow[u])
      /\ CurrentEntry(u) = EntryNow(f, m)
    BY <1>1, ActorFits
<1>3. /\ f.entries[m.at].kind = "list" /\ EntryNow(f, m).kind = "list" /\ m.recount = "none" /\ ~Awaited(f, m)
    BY <1>1, <1>2, NowFacts DEF Awaited
<1>4. PICK s \in {"VALID", "INVALID"} :
          mem' = [mem EXCEPT ![u] = IF HasCert(x) THEN Listed_([m EXCEPT !.verdict = [status |-> s, expired |-> FALSE]], u, x, FALSE)
                                    ELSE [[m EXCEPT !.verdict = [status |-> s, expired |-> FALSE]] EXCEPT !.pc = "insert"]]
    <2>1. \A y : SelfSignature(y) \subseteq {"VALID", "INVALID"}
        BY DEF SelfSignature
    <2> QED
        BY <2>1 DEF LookUpListed
<1> DEFINE g == [m EXCEPT !.verdict = [status |-> s, expired |-> FALSE]]
           n == [g EXCEPT !.pc = "insert"]
<1>5. /\ fileOf' = fileOf /\ certBy' = certBy /\ crlBy' = crlBy /\ verdicts' = verdicts /\ uploadRow' = uploadRow /\ summary' = summary
      /\ uploadRow' = [uploadRow EXCEPT ![u] = uploadRow[u]]
    BY <1>1 DEF LookUpListed, tables, BulkShape
<1>6. [status |-> s, expired |-> FALSE] \in BulkVerdict
    BY DEF BulkVerdict
<1>7. /\ g \in BulkThread /\ g.verdict \in BulkVerdict
      /\ g.at = m.at /\ g.sub = m.sub /\ g.again = m.again /\ g.recount = m.recount
      /\ g.counts = m.counts /\ g.live = m.live /\ g.slipped = m.slipped /\ g.early = m.early
      /\ g.listed = m.listed /\ g.listedTwice = m.listedTwice
    BY <1>2, <1>6 DEF BulkThread
<1> HIDE DEF g, f, m, x
<1>8. ASSUME HasCert(x) PROVE BulkInv'
    <2>1. mem' = [mem EXCEPT ![u] = Listed_(g, u, x, FALSE)]
        BY <1>4, <1>8 DEF g
    <2>2. /\ Listed_(g, u, x, FALSE) \in BulkThread
          /\ ThreadFits(u, fileOf[u], Listed_(g, u, x, FALSE), certBy, crlBy, verdicts, uploadRow[u], CrlsAreOnce(u))
        BY <1>1, <1>7, <1>8, ListedFits DEF m, x
    <2> QED
        BY <1>1, <1>2, <1>5, <2>1, <2>2, NothingGrows, ThreadStep
<1>9. ASSUME ~HasCert(x) PROVE BulkInv'
    <2>1. mem' = [mem EXCEPT ![u] = n]
        BY <1>4, <1>9 DEF g
    <2>2. /\ n \in BulkThread /\ n.pc = "insert" /\ n.verdict \in BulkVerdict
          /\ n.at = m.at /\ n.sub = m.sub /\ n.again = m.again /\ n.recount = m.recount
          /\ n.counts = m.counts /\ n.live = m.live /\ n.slipped = m.slipped /\ n.early = m.early
          /\ n.listed = m.listed /\ n.listedTwice = m.listedTwice
        BY <1>7 DEF BulkThread, BulkPc
    <2> HIDE DEF n
    <2>3. InEntry(n) /\ Works(n) /\ ~Awaited(f, n)
        BY <1>3, <2>2 DEF InEntry, Works, Awaited
    <2>4. /\ \A kind : Behind(f, n, kind) = Behind(f, m, kind)
          /\ Reached(f, n) = Reached(f, m) /\ CertsBehind(f, n) = CertsBehind(f, m)
        BY <1>1, <2>2, <2>3, InPlace DEF m
    <2>5. AtFits(f, n)
        <3>1. Reads(f, n) = Reads(f, m) /\ EntryNow(f, n) = EntryNow(f, m)
            BY <2>2 DEF Reads, EntryNow
        <3>2. m.at \in 1..Len(Reads(f, m)) /\ (m.sub = 1 \/ m.sub \in 1..Len(EntryNow(f, m).items))
            BY <1>1, <1>2 DEF AtFits, m
        <3> QED
            BY <1>3, <2>2, <2>3, <3>1, <3>2 DEF AtFits
    <2>6. CertCountsFit(u, f, n, certBy)
        BY <1>1, <1>2, <1>3, <2>2, <2>3, <2>4 DEF CertCountsFit, m
    <2>7. CrlCountsFit(u, f, n, crlBy, CrlsAreOnce(u))
        BY <1>1, <1>2, <2>2, <2>3, <2>4 DEF CrlCountsFit, m
    <2>8. ListCountsFit(f, n) /\ ErrorsFit(f, n) /\ RowFits(f, n, uploadRow[u])
        BY <1>1, <1>2, <2>2, <2>3, <2>4 DEF ListCountsFit, ErrorsFit, RowFits, m
    <2>9. TotalFits(f, n)
        BY <1>1, <1>2, <2>2, <2>3 DEF TotalFits, m
    <2>10. EntriesFit(f, n)
        BY <1>1, <1>2, <1>3, <2>2, <2>3, <2>4 DEF EntriesFit, m
    <2>11. VerdictsFit(u, f, n, verdicts)
        <3>1. \A S : VerdictCount(u, f, n, verdicts, S) = VerdictCount(u, f, m, verdicts, S)
            BY <1>3, <2>3, <2>4 DEF VerdictCount
        <3>2. VerdictsFit(u, f, m, verdicts) /\ Works(m)
            BY <1>1, <1>2 DEF m
        <3> QED
            BY <2>2, <2>3, <3>1, <3>2 DEF VerdictsFit
    <2>12. ThreadFits(u, f, n, certBy, crlBy, verdicts, uploadRow[u], CrlsAreOnce(u))
        BY <2>5, <2>6, <2>7, <2>8, <2>9, <2>10, <2>11 DEF ThreadFits
    <2> QED
        BY <1>1, <1>2, <1>5, <2>1, <2>2, <2>12, NothingGrows, ThreadStep DEF f
<1> QED
    BY <1>8, <1>9

\* An item that brings nothing: it is broken, its statement failed, or it was a duplicate
\* when it was saved.
PassedOver(f, m, k, how) ==
    /\ k.at = m.at /\ k.sub = m.sub /\ k.again = m.again /\ k.recount = "none" /\ k.slipped = m.slipped
    /\ k.counts = m.counts /\ k.listed = m.listed /\ k.listedTwice = m.listedTwice /\ k.early = m.early
    /\ \A key \in LiveKey \ {"error", "duplicate"} : k.live[key] = m.live[key]
    /\ how = "broken" => /\ f.entries[m.at].kind = "broken" /\ k.live["error"] = m.live["error"] + 1
                         /\ k.live["duplicate"] = m.live["duplicate"]
    /\ how = "failed" => /\ f.entries[m.at].kind # "broken" /\ (f.entries[m.at].kind = "cert" => m.pc = "insert")
                         /\ k.live["duplicate"] = m.live["duplicate"]
    /\ how = "twice" => /\ f.entries[m.at].kind = "cert" /\ m.pc = "insert" /\ k.live["error"] = m.live["error"]
                        /\ k.live["duplicate"] = m.live["duplicate"] + 1

LEMMA PassFits ==
    ASSUME BulkInv, NEW u \in Bulk, InEntry(mem[u]), NEW k \in BulkThread,
           NEW how \in {"broken", "failed", "twice"}, PassedOver(fileOf[u], mem[u], k, how),
           NEW n, Onto(n, Onward(k, u)), how = "failed" => n.slipped, NEW W, how # "twice" => W = verdicts
    PROVE  n \in BulkThread /\ ThreadFits(u, fileOf[u], n, certBy, crlBy, W, uploadRow[u], CrlsAreOnce(u))
<1> DEFINE f == fileOf[u]
           m == mem[u]
           kind == f.entries[m.at].kind
<1>1. Works(m) /\ BulkShape
    BY DEF InEntry, Works, BulkInv
<1>2. /\ FileOK(f) /\ m \in BulkThread /\ IsFiniteSet(verdicts)
      /\ AtFits(f, m) /\ CertCountsFit(u, f, m, certBy) /\ CrlCountsFit(u, f, m, crlBy, CrlsAreOnce(u))
      /\ ListCountsFit(f, m) /\ TotalFits(f, m) /\ EntriesFit(f, m) /\ ErrorsFit(f, m)
      /\ VerdictsFit(u, f, m, verdicts) /\ RowFits(f, m, uploadRow[u])
    BY <1>1, ActorFits
<1>3. /\ k.at = m.at /\ k.sub = m.sub /\ k.again = m.again /\ k.recount = "none" /\ k.slipped = m.slipped
      /\ k.counts = m.counts /\ k.listed = m.listed /\ k.listedTwice = m.listedTwice /\ k.early = m.early
      /\ \A key \in LiveKey \ {"error", "duplicate"} : k.live[key] = m.live[key]
    BY DEF PassedOver
<1>4. /\ how = "broken" => kind = "broken" /\ k.live["error"] = m.live["error"] + 1 /\ k.live["duplicate"] = m.live["duplicate"]
      /\ how = "failed" => kind # "broken" /\ (kind = "cert" => m.pc = "insert") /\ k.live["duplicate"] = m.live["duplicate"]
      /\ how = "twice" => /\ kind = "cert" /\ m.pc = "insert" /\ k.live["error"] = m.live["error"]
                          /\ k.live["duplicate"] = m.live["duplicate"] + 1
    BY DEF PassedOver
<1> HIDE DEF f, m
<1>5. /\ n \in BulkThread /\ AtFits(f, n) /\ Further(f, m, n)
      /\ n.live = k.live /\ n.again = m.again /\ n.recount = "none"
      /\ n.slipped = (IF n = Onward(k, u) THEN k.slipped ELSE TRUE)
      /\ n.listed = k.listed /\ n.listedTwice = k.listedTwice /\ n.early = k.early
      /\ \A key \in CountKey \ {"ml"} : n.counts[key] = k.counts[key]
      /\ n.counts["ml"] = k.counts["ml"] + (IF n.pc = "commit" /\ f.entries[m.at].kind = "list" THEN 1 ELSE 0)
    <2>1. Onto(n, Onward(k, u))
        OBVIOUS
    <2>2. BulkShape /\ InEntry(mem[u]) /\ AtFits(fileOf[u], mem[u])
        BY <1>1, <1>2 DEF f, m
    <2>3. k.at = mem[u].at /\ k.sub = mem[u].sub /\ k.again = mem[u].again /\ k.recount = "none"
        BY <1>3 DEF m
    <2>4. n \in BulkThread /\ AtFits(f, n) /\ Further(f, m, n) /\ ItemCounts(f, m, k, Onward(k, u), n)
        BY <2>1, <2>2, <2>3, ItemFacts DEF f, m
    <2> QED
        BY <2>4 DEF ItemCounts
<1>6. (m.slipped => n.slipped) /\ (how = "failed" => n.slipped)
    BY <1>3, <1>5
<1>7. \A key \in LiveKey : n.live[key] \in Nat /\ m.live[key] \in Nat
    BY <1>2, <1>5 DEF BulkThread
<1>8. \A key \in LiveKey \ {"error", "duplicate"} : n.live[key] = m.live[key]
    BY <1>3, <1>5
<1>9. n.live["duplicate"] = 0 => m.live["duplicate"] = 0
    BY <1>4, <1>5, <1>7 DEF LiveKey
<1>10. how = "twice" => n.live["duplicate"] # 0
    BY <1>4, <1>5, <1>7 DEF LiveKey
<1>11. InEntry(m)
    BY DEF m
<1>12. CertCountsFit(u, f, n, certBy)
    <2>1. \A key \in CountKey \ {"ml", "crl"} : n.counts[key] = m.counts[key]
        BY <1>3, <1>5
    <2> QED
        BY <1>2, <1>4, <1>5, <1>6, <1>9, <1>10, <1>11, <2>1, CertsStay
<1>13. CrlCountsFit(u, f, n, crlBy, CrlsAreOnce(u))
    <2>1. n.counts["crl"] = m.counts["crl"]
        BY <1>3, <1>5 DEF CountKey
    <2> QED
        BY <1>2, <1>4, <1>5, <1>6, <1>11, <2>1, CrlsStay
<1>14. TotalFits(f, n)
    <2>1. m.recount = "none" /\ m.pc # "idle"
        BY <1>2, <1>11, NowFacts DEF InEntry
    <2> QED
        BY <1>2, <1>3, <1>5, <1>8, <2>1 DEF TotalFits, Statuses, LiveKey
<1>15. ListCountsFit(f, n) /\ EntriesFit(f, n) /\ ErrorsFit(f, n) /\ RowFits(f, n, uploadRow[u])
    <2> DEFINE a == 0
    <2>1. a \in Nat /\ (kind = "cert" => a = (IF Awaited(f, m) THEN 0 ELSE 1))
        BY <1>4 DEF Awaited
    <2>2. /\ n.live["total"] + n.early = m.live["total"] + m.early + a
          /\ n.listed + n.listedTwice = m.listed + m.listedTwice + (IF kind = "cert" THEN 0 ELSE a)
        BY <1>2, <1>3, <1>5, <1>7, <1>8 DEF BulkThread, LiveKey
    <2>3. ~n.slipped => n.live["error"] = m.live["error"] + (IF kind = "broken" THEN 1 ELSE 0)
        BY <1>4, <1>5, <1>6, <1>7 DEF LiveKey
    <2>4. n.counts["ml"] = m.counts["ml"] + (IF n.pc = "commit" /\ f.entries[m.at].kind = "list" THEN 1 ELSE 0)
        BY <1>3, <1>5
    <2> HIDE DEF a
    <2> QED
        BY <1>2, <1>5, <1>6, <1>11, <2>1, <2>2, <2>3, <2>4, OthersFit
<1>16. VerdictsFit(u, f, n, W)
    <2>1. /\ n.live["notFound"] = m.live["notFound"] /\ n.live["pending"] = m.live["pending"]
          /\ n.live["chainInvalid"] = m.live["chainInvalid"] /\ n.live["invalid"] = m.live["invalid"]
          /\ n.live["chainValid"] = m.live["chainValid"] /\ n.live["valid"] = m.live["valid"] + 0 /\ n.listed = m.listed + 0
        BY <1>2, <1>3, <1>5, <1>7, <1>8 DEF LiveKey, BulkThread
    <2> QED
        BY <1>2, <1>4, <1>5, <1>6, <1>9, <1>10, <1>11, <2>1, VerdictsStay
<1> QED
    BY <1>5, <1>12, <1>13, <1>14, <1>15, <1>16 DEF ThreadFits, f

LEMMA FailedFits ==
    ASSUME BulkInv, NEW u \in Bulk, InEntry(mem[u]), fileOf[u].entries[mem[u].at].kind # "broken",
           fileOf[u].entries[mem[u].at].kind = "cert" => mem[u].pc = "insert"
    PROVE  /\ Failed_(mem[u], u) \in BulkThread
           /\ ThreadFits(u, fileOf[u], Failed_(mem[u], u), certBy, crlBy, verdicts, uploadRow[u], CrlsAreOnce(u))
<1> DEFINE f == fileOf[u]
           m == mem[u]
           live == IF OfRetry(u) THEN m.live ELSE Bump(m.live, {"error"})
           k == [m EXCEPT !.live = IF OfRetry(u) THEN @ ELSE Bump(@, {"error"})]
           o == Onward(k, u)
           n == [o EXCEPT !.slipped = TRUE]
<1>1. Works(m) /\ BulkShape
    BY DEF InEntry, Works, BulkInv
<1>2. FileOK(f) /\ m \in BulkThread /\ AtFits(f, m)
    BY <1>1, ActorFits
<1>3. m.recount = "none"
    BY <1>2, NowFacts
<1>4. Failed_(m, u) = n
    BY DEF Failed_
<1>5. live \in [LiveKey -> Nat] /\ \A key \in LiveKey \ {"error", "duplicate"} : live[key] = m.live[key]
    BY <1>2, BumpedKeys DEF BulkThread
<1>6. live["duplicate"] = m.live["duplicate"]
    <2>1. \A key \in LiveKey : Bump(m.live, {"error"})[key] = IF key \in {"error"} THEN m.live[key] + 1 ELSE m.live[key]
        BY <1>2, BumpedKeys DEF BulkThread
    <2>2. Bump(m.live, {"error"})["duplicate"] = m.live["duplicate"]
        BY <2>1 DEF LiveKey
    <2> QED
        BY <2>2
<1>7. k = [m EXCEPT !.live = live]
    OBVIOUS
<1> HIDE DEF live, k
<1>8. /\ k \in BulkThread /\ k.live = live
      /\ k.at = m.at /\ k.sub = m.sub /\ k.again = m.again /\ k.recount = "none" /\ k.slipped = m.slipped
      /\ k.counts = m.counts /\ k.listed = m.listed /\ k.listedTwice = m.listedTwice /\ k.early = m.early
    BY <1>2, <1>3, <1>5, <1>7 DEF BulkThread
<1>9. PassedOver(f, m, k, "failed")
    BY <1>5, <1>6, <1>8 DEF PassedOver
<1>10. o \in BulkThread
    <2>1. Further(f, m, o)
        BY <1>1, <1>2, <1>8, OnwardFacts
    <2> QED
        BY <2>1 DEF Further
<1>11. Onto(n, o)
    BY DEF Onto
<1>12. n.slipped
    <2> HIDE DEF o
    <2> QED
        BY <1>10 DEF BulkThread
<1> HIDE DEF n
<1> QED
    BY <1>4, <1>8, <1>9, <1>11, <1>12, PassFits

LEMMA BrokenFits ==
    ASSUME BulkInv, NEW u \in Bulk, PassBroken(u)
    PROVE  BulkInv'
<1> DEFINE f == fileOf[u]
           m == mem[u]
           k == [m EXCEPT !.live = Bump(@, {"error"})]
           n == Onward(k, u)
<1>1. m.pc = "item" /\ CurrentEntry(u).kind = "broken" /\ InEntry(m) /\ Works(m) /\ BulkShape
    BY DEF PassBroken, InEntry, Works, BulkInv
<1>2. FileOK(f) /\ m \in BulkThread /\ AtFits(f, m) /\ uploadRow[u] \in BulkRow /\ CurrentEntry(u) = EntryNow(f, m)
    BY <1>1, ActorFits
<1>3. m.recount = "none" /\ f.entries[m.at].kind = "broken"
    BY <1>1, <1>2, NowFacts
<1>4. /\ fileOf' = fileOf /\ certBy' = certBy /\ crlBy' = crlBy /\ verdicts' = verdicts /\ uploadRow' = uploadRow /\ summary' = summary
      /\ uploadRow' = [uploadRow EXCEPT ![u] = uploadRow[u]] /\ mem' = [mem EXCEPT ![u] = n]
    BY <1>1 DEF PassBroken, tables, BulkShape
<1>5. /\ Bump(m.live, {"error"}) \in [LiveKey -> Nat]
      /\ \A key \in LiveKey : Bump(m.live, {"error"})[key] = IF key \in {"error"} THEN m.live[key] + 1 ELSE m.live[key]
    BY <1>2, BumpedKeys DEF BulkThread
<1>6. /\ k \in BulkThread /\ k.live = Bump(m.live, {"error"})
      /\ k.at = m.at /\ k.sub = m.sub /\ k.again = m.again /\ k.recount = "none" /\ k.slipped = m.slipped
      /\ k.counts = m.counts /\ k.listed = m.listed /\ k.listedTwice = m.listedTwice /\ k.early = m.early
    BY <1>2, <1>3, <1>5 DEF BulkThread
<1> HIDE DEF k
<1>7. PassedOver(f, m, k, "broken")
    <2>1. k.live["error"] = m.live["error"] + 1 /\ k.live["duplicate"] = m.live["duplicate"]
        BY <1>5, <1>6 DEF LiveKey
    <2>2. \A key \in LiveKey \ {"error", "duplicate"} : k.live[key] = m.live[key]
        BY <1>5, <1>6
    <2> QED
        BY <1>3, <1>6, <2>1, <2>2 DEF PassedOver
<1>8. Onto(n, n)
    BY DEF Onto
<1>9. n \in BulkThread /\ ThreadFits(u, fileOf[u], n, certBy, crlBy, verdicts, uploadRow[u], CrlsAreOnce(u))
    BY <1>1, <1>6, <1>7, <1>8, PassFits
<1> HIDE DEF n
<1> QED
    BY <1>1, <1>2, <1>4, <1>9, NothingGrows, ThreadStep

LEMMA CrlFits ==
    ASSUME BulkInv, NEW u \in Bulk, SaveParsedCrl(u)
    PROVE  BulkInv'
<1> DEFINE f == fileOf[u]
           m == mem[u]
           l == f.entries[m.at].items[1]
           k == [m EXCEPT !.counts = Bump(@, {"crl"})]
           n == Onward(k, u)
<1>1. m.pc = "item" /\ CurrentEntry(u).kind = "crl" /\ InEntry(m) /\ Works(m) /\ BulkShape
    BY DEF SaveParsedCrl, InEntry, Works, BulkInv
<1>2. /\ FileOK(f) /\ m \in BulkThread /\ uploadRow[u] \in BulkRow /\ IsFiniteSet(verdicts)
      /\ AtFits(f, m) /\ CertCountsFit(u, f, m, certBy) /\ CrlCountsFit(u, f, m, crlBy, CrlsAreOnce(u))
      /\ ListCountsFit(f, m) /\ TotalFits(f, m) /\ EntriesFit(f, m) /\ ErrorsFit(f, m)
      /\ VerdictsFit(u, f, m, verdicts) /\ RowFits(f, m, uploadRow[u])
      /\ CurrentEntry(u) = EntryNow(f, m) /\ ThisItem(u) = EntryNow(f, m).items[m.sub]
    BY <1>1, ActorFits
<1>3. /\ m.recount = "none" /\ f.entries[m.at].kind = "crl" /\ m.sub = 1 /\ m.at \in DOMAIN f.entries /\ ~Awaited(f, m)
      /\ EntryOK(f.entries[m.at]) /\ (~(f.asList /\ m.again) => EntryNow(f, m) = f.entries[m.at])
    BY <1>1, <1>2, NowFacts DEF Awaited
<1>4. ~f.asList /\ ThisItem(u) = l /\ l \in CrlId
    <2>1. f.asList => DOMAIN f.entries = {1} /\ f.entries[1].kind = "list"
        BY <1>2, EntriesAreOK DEF FileOK
    <2>2. ~f.asList
        BY <1>3, <2>1
    <2> QED
        BY <1>2, <1>3, <2>2 DEF EntryOK
<1>5. /\ fileOf' = fileOf /\ certBy' = certBy /\ verdicts' = verdicts /\ uploadRow' = uploadRow /\ summary' = summary
      /\ uploadRow' = [uploadRow EXCEPT ![u] = uploadRow[u]]
    BY <1>1 DEF SaveParsedCrl, BulkShape
<1>6. CASE mem' = [mem EXCEPT ![u] = Failed_(m, u)] /\ crlBy' = crlBy
    <2>1. /\ Failed_(m, u) \in BulkThread
          /\ ThreadFits(u, fileOf[u], Failed_(m, u), certBy, crlBy, verdicts, uploadRow[u], CrlsAreOnce(u))
        BY <1>1, <1>3, FailedFits
    <2> QED
        BY <1>1, <1>2, <1>5, <1>6, <2>1, NothingGrows, ThreadStep
<1>7. CASE mem' = [mem EXCEPT ![u] = n] /\ crlBy' = [crlBy EXCEPT ![l] = u]
    <2>1. /\ Bump(m.counts, {"crl"}) \in [CountKey -> Nat]
          /\ \A key \in CountKey : Bump(m.counts, {"crl"})[key] = IF key \in {"crl"} THEN m.counts[key] + 1 ELSE m.counts[key]
        BY <1>2, BumpedKeys DEF BulkThread
    <2>2. /\ k \in BulkThread /\ k.counts = Bump(m.counts, {"crl"})
          /\ k.at = m.at /\ k.sub = m.sub /\ k.again = m.again /\ k.recount = "none" /\ k.slipped = m.slipped
          /\ k.live = m.live /\ k.listed = m.listed /\ k.listedTwice = m.listedTwice /\ k.early = m.early
        BY <1>2, <1>3, <2>1 DEF BulkThread
    <2> HIDE DEF k, f, m, l
    <2>3. n \in BulkThread /\ AtFits(f, n) /\ Further(f, m, n) /\ ItemCounts(f, m, k, n, n)
        <3>1. Onto(n, n)
            BY DEF Onto
        <3> QED
            BY <1>1, <1>2, <2>2, <3>1, ItemFacts DEF f, m
    <2> HIDE DEF n
    <2>4. /\ n.live = m.live /\ n.again = m.again /\ n.recount = "none" /\ n.slipped = m.slipped
          /\ n.listed = m.listed /\ n.listedTwice = m.listedTwice /\ n.early = m.early
          /\ n.counts["crl"] = m.counts["crl"] + 1
          /\ \A key \in CountKey \ {"ml", "crl"} : n.counts[key] = m.counts[key]
          /\ n.counts["ml"] = m.counts["ml"] + (IF n.pc = "commit" /\ f.entries[m.at].kind = "list" THEN 1 ELSE 0)
        BY <2>1, <2>2, <2>3 DEF ItemCounts, CountKey
    <2>5. CertCountsFit(u, f, n, certBy)
        BY <1>1, <1>2, <1>3, <2>3, <2>4, CertsStay DEF m
    <2>6. CrlCountsFit(u, f, n, [crlBy EXCEPT ![f.entries[m.at].items[1]] = u], CrlsAreOnce(u))
        <3>1. crlBy \in [CrlId -> Bulk \cup {"none"}] /\ InEntry(m)
            BY <1>1 DEF BulkShape, m
        <3> QED
            BY <1>2, <1>3, <2>3, <2>4, <3>1, CrlsSaved
    <2>7. TotalFits(f, n)
        BY <1>1, <1>2, <1>3, <2>4 DEF TotalFits, Works, m
    <2>8. ListCountsFit(f, n) /\ EntriesFit(f, n) /\ ErrorsFit(f, n) /\ RowFits(f, n, uploadRow[u])
        <3> DEFINE a == 0
        <3>1. a \in Nat
            OBVIOUS
        <3>2. n.live["total"] + n.early = m.live["total"] + m.early + a /\ n.listed + n.listedTwice = m.listed + m.listedTwice + a
            BY <1>2, <2>4 DEF BulkThread, LiveKey
        <3>3. n.live["error"] = m.live["error"] + 0
            BY <1>2, <2>4 DEF BulkThread, LiveKey
        <3> HIDE DEF a
        <3> QED
            BY <1>1, <1>2, <1>3, <2>3, <2>4, <3>1, <3>2, <3>3, OthersFit DEF m
    <2>9. VerdictsFit(u, f, n, verdicts)
        <3>1. n.live["valid"] = m.live["valid"] + 0 /\ n.listed = m.listed + 0
            BY <1>2, <2>4 DEF BulkThread, LiveKey
        <3> QED
            BY <1>1, <1>2, <1>3, <2>3, <2>4, <3>1, VerdictsStay DEF m
    <2>10. ThreadFits(u, f, n, certBy, crlBy', verdicts, uploadRow[u], CrlsAreOnce(u))
        <3>1. crlBy' = [crlBy EXCEPT ![f.entries[m.at].items[1]] = u]
            BY <1>7 DEF l
        <3> QED
            BY <2>3, <2>5, <2>6, <2>7, <2>8, <2>9, <3>1 DEF ThreadFits
    <2>11. CrlsGrow(u, crlBy, crlBy')
        <3>1. CrlCame(f, l)
            BY <1>3 DEF CrlCame, l
        <3> QED
            BY <1>1, <1>4, <1>7, <3>1 DEF CrlsGrow, BulkShape, f
    <2> QED
        BY <1>1, <1>2, <1>5, <1>7, <2>3, <2>10, <2>11, NothingGrows, ThreadStep DEF f
<1>8. \/ mem' = [mem EXCEPT ![u] = Failed_(m, u)] /\ crlBy' = crlBy
      \/ mem' = [mem EXCEPT ![u] = n] /\ crlBy' = [crlBy EXCEPT ![l] = u]
    BY <1>4 DEF SaveParsedCrl
<1> QED
    BY <1>6, <1>7, <1>8

LEMMA InsertListedFits ==
    ASSUME BulkInv, NEW u \in Bulk, InsertListed(u)
    PROVE  BulkInv'
<1> DEFINE f == fileOf[u]
           m == mem[u]
           x == ThisItem(u)
           type == TypeInList(u, x)
<1>1. m.pc = "insert" /\ CurrentEntry(u).kind = "list" /\ InEntry(m) /\ Works(m) /\ BulkShape
    BY DEF InsertListed, InList, InEntry, Works, BulkInv
<1>2. FileOK(f) /\ m \in BulkThread /\ AtFits(f, m) /\ uploadRow[u] \in BulkRow /\ CurrentEntry(u) = EntryNow(f, m)
    BY <1>1, ActorFits
<1>3. f.entries[m.at].kind = "list" /\ m.verdict \in BulkVerdict
    BY <1>1, <1>2, NowFacts DEF AtFits
<1>4. /\ fileOf' = fileOf /\ crlBy' = crlBy /\ verdicts' = verdicts /\ uploadRow' = uploadRow /\ summary' = summary
      /\ uploadRow' = [uploadRow EXCEPT ![u] = uploadRow[u]]
    BY <1>1 DEF InsertListed, BulkShape
<1>5. CASE /\ ~HasCert(x) /\ certBy' = [certBy EXCEPT ![x] = [by |-> u, as |-> type]]
           /\ mem' = [mem EXCEPT ![u] = Listed_(m, u, x, TRUE)]
    <2>1. /\ Listed_(m, u, x, TRUE) \in BulkThread /\ CertsGrow(u, certBy, certBy')
          /\ ThreadFits(u, fileOf[u], Listed_(m, u, x, TRUE), certBy', crlBy, verdicts, uploadRow[u], CrlsAreOnce(u))
        BY <1>1, <1>2, <1>3, <1>5, ListedFits
    <2> HIDE DEF m, x
    <2> QED
        BY <1>1, <1>2, <1>4, <1>5, <2>1, NothingGrows, ThreadStep
<1>6. CASE HasCert(x) /\ mem' = [mem EXCEPT ![u] = Listed_(m, u, x, FALSE)] /\ certBy' = certBy
    <2>1. /\ Listed_(m, u, x, FALSE) \in BulkThread
          /\ ThreadFits(u, fileOf[u], Listed_(m, u, x, FALSE), certBy, crlBy, verdicts, uploadRow[u], CrlsAreOnce(u))
        BY <1>1, <1>2, <1>3, <1>6, ListedFits
    <2> HIDE DEF m, x
    <2> QED
        BY <1>1, <1>2, <1>4, <1>6, <2>1, NothingGrows, ThreadStep
<1>7. CASE mem' = [mem EXCEPT ![u] = Failed_(m, u)] /\ certBy' = certBy
    <2>1. /\ Failed_(m, u) \in BulkThread
          /\ ThreadFits(u, fileOf[u], Failed_(m, u), certBy, crlBy, verdicts, uploadRow[u], CrlsAreOnce(u))
        BY <1>1, <1>3, FailedFits
    <2> QED
        BY <1>1, <1>2, <1>4, <1>7, <2>1, NothingGrows, ThreadStep
<1>8. \/ /\ ~HasCert(x) /\ certBy' = [certBy EXCEPT ![x] = [by |-> u, as |-> type]]
         /\ mem' = [mem EXCEPT ![u] = Listed_(m, u, x, TRUE)]
      \/ HasCert(x) /\ mem' = [mem EXCEPT ![u] = Listed_(m, u, x, FALSE)] /\ certBy' = certBy
      \/ mem' = [mem EXCEPT ![u] = Failed_(m, u)] /\ certBy' = certBy
    BY DEF InsertListed
<1> QED
    BY <1>5, <1>6, <1>7, <1>8

LEMMA InsertFits ==
    ASSUME BulkInv, NEW u \in Bulk, InsertParsed(u)
    PROVE  BulkInv'
<1> DEFINE f == fileOf[u]
           m == mem[u]
           x == f.entries[m.at].items[1]
           type == StoredAs(x)
           q == [cert |-> x, upload |-> u, verdict |-> m.verdict]
<1>1. m.pc = "insert" /\ CurrentEntry(u).kind = "cert" /\ InEntry(m) /\ Works(m) /\ BulkShape
    BY DEF InsertParsed, InEntry, Works, BulkInv
<1>2. /\ FileOK(f) /\ m \in BulkThread /\ uploadRow[u] \in BulkRow /\ IsFiniteSet(verdicts)
      /\ AtFits(f, m) /\ CertCountsFit(u, f, m, certBy) /\ CrlCountsFit(u, f, m, crlBy, CrlsAreOnce(u))
      /\ ListCountsFit(f, m) /\ TotalFits(f, m) /\ EntriesFit(f, m) /\ ErrorsFit(f, m)
      /\ VerdictsFit(u, f, m, verdicts) /\ RowFits(f, m, uploadRow[u])
      /\ CurrentEntry(u) = EntryNow(f, m) /\ ThisItem(u) = EntryNow(f, m).items[m.sub]
    BY <1>1, ActorFits
<1>3. /\ ~f.asList /\ EntryNow(f, m) = f.entries[m.at] /\ f.entries[m.at].kind = "cert" /\ m.sub = 1
      /\ x \in Held /\ KindOf[x] # "MLSC" /\ m.recount = "none" /\ Awaited(f, m) /\ m.at \in DOMAIN f.entries
    BY <1>1, <1>2, CertEntry, NowFacts DEF Awaited
<1>4. ThisItem(u) = x /\ m.verdict \in BulkVerdict
    BY <1>1, <1>2, <1>3 DEF AtFits
<1>5. /\ fileOf' = fileOf /\ crlBy' = crlBy /\ uploadRow' = uploadRow /\ summary' = summary
      /\ uploadRow' = [uploadRow EXCEPT ![u] = uploadRow[u]]
    BY <1>1 DEF InsertParsed, BulkShape
<1>6. VerdictCame(f, x) /\ q \in [cert : Held, upload : {u}, verdict : BulkVerdict] /\ q.cert = x
    BY <1>3, <1>4 DEF VerdictCame
<1>7. VerdictsGrow(u, verdicts, AddVerdict(x, u, m.verdict)) /\ \A r \in AddVerdict(x, u, m.verdict) \ verdicts : r.cert = x
    <2>1. AddVerdict(x, u, m.verdict) \in {verdicts, verdicts \cup {q}}
        BY DEF AddVerdict
    <2> HIDE DEF q
    <2> QED
        BY <1>6, <2>1 DEF VerdictsGrow
<1>8. type \in {"CSCA", "DSC", "DSC_NC"} /\ type # "MLSC"
    BY <1>3, CountsOfTypes
<1> DEFINE k == [m EXCEPT !.live = Bump(@, {"duplicate"})]
<1>9. \/ /\ ~HasCert(x) /\ certBy' = [certBy EXCEPT ![x] = [by |-> u, as |-> type]]
         /\ verdicts' = AddVerdict(x, u, m.verdict) /\ mem' = [mem EXCEPT ![u] = Onward(m, u)]
      \/ /\ HasCert(x) /\ verdicts' = AddVerdict(x, u, m.verdict)
         /\ mem' = [mem EXCEPT ![u] = Onward(k, u)] /\ certBy' = certBy
      \/ mem' = [mem EXCEPT ![u] = Failed_(m, u)] /\ certBy' = certBy /\ verdicts' = verdicts
    BY <1>4 DEF InsertParsed
<1>10. CASE /\ ~HasCert(x) /\ certBy' = [certBy EXCEPT ![x] = [by |-> u, as |-> type]]
            /\ verdicts' = AddVerdict(x, u, m.verdict) /\ mem' = [mem EXCEPT ![u] = Onward(m, u)]
    <2> DEFINE n == Onward(m, u)
    <2>1. \A r \in verdicts : r.cert # x
        BY <1>10 DEF BulkInv, VerdictsCame
    <2>2. verdicts' = verdicts \cup {q}
        BY <1>10, <2>1 DEF AddVerdict
    <2>3. certBy \in [Held -> CertRow \cup {NoCertRow}] /\ certBy[x] = NoCertRow
        BY <1>1, <1>10 DEF BulkShape, HasCert
    <2> HIDE DEF f, m, x, type
    <2>4. n \in BulkThread /\ AtFits(f, n) /\ Further(f, m, n) /\ ItemCounts(f, m, m, n, n)
        <3>1. Onto(n, n)
            BY DEF Onto
        <3> QED
            BY <1>1, <1>2, <1>3, <3>1, ItemFacts DEF f, m
    <2> HIDE DEF n
    <2>5. /\ n.live = m.live /\ n.again = m.again /\ n.recount = "none" /\ n.slipped = m.slipped
          /\ n.listed = m.listed /\ n.listedTwice = m.listedTwice /\ n.early = m.early
          /\ \A key \in CountKey \ {"ml"} : n.counts[key] = m.counts[key]
          /\ n.counts["ml"] = m.counts["ml"] + (IF n.pc = "commit" /\ f.entries[m.at].kind = "list" THEN 1 ELSE 0)
        BY <2>4 DEF ItemCounts
    <2>6. InEntry(m)
        BY <1>1 DEF m
    <2>7. CertCountsFit(u, f, n, certBy')
        <3>1. CertCounts(f, m, n, x, type)
            BY <1>3, <1>8, <2>5 DEF CertCounts, AwaitedCert, x, type
        <3>2. CertSaved(u, f, m, n, certBy, x, type)
            BY <1>2, <1>3, <1>8, <2>3, <2>4, <2>5, <2>6, <3>1 DEF CertSaved
        <3>3. CertCountsFit(u, f, n, [certBy EXCEPT ![x] = [by |-> u, as |-> type]])
            BY <3>2, SavedCertFits
        <3> QED
            BY <1>10, <3>3
    <2>8. CrlCountsFit(u, f, n, crlBy, CrlsAreOnce(u))
        <3>1. n.counts["crl"] = m.counts["crl"]
            BY <2>5 DEF CountKey
        <3> QED
            BY <1>2, <1>3, <2>4, <2>5, <2>6, <3>1, CrlsStay
    <2>9. TotalFits(f, n)
        BY <1>1, <1>2, <1>3, <2>5 DEF TotalFits, m
    <2>10. ListCountsFit(f, n) /\ EntriesFit(f, n) /\ ErrorsFit(f, n) /\ RowFits(f, n, uploadRow[u])
        <3> DEFINE a == 0
        <3>1. a \in Nat /\ a = (IF Awaited(f, m) THEN 0 ELSE 1)
            BY <1>3
        <3>2. n.live["total"] + n.early = m.live["total"] + m.early + a /\ n.listed + n.listedTwice = m.listed + m.listedTwice + 0
            BY <1>2, <2>5 DEF BulkThread, LiveKey
        <3>3. n.live["error"] = m.live["error"] + 0
            BY <1>2, <2>5 DEF BulkThread, LiveKey
        <3> HIDE DEF a
        <3> QED
            BY <1>2, <1>3, <2>4, <2>5, <2>6, <3>1, <3>2, <3>3, OthersFit
    <2>11. VerdictsFit(u, f, n, verdicts')
        <3>1. x = f.entries[m.at].items[1] /\ m.pc = "insert"
            BY <1>1 DEF x, m
        <3>2. VerdictsFit(u, f, n, verdicts \cup {[cert |-> x, upload |-> u, verdict |-> m.verdict]})
            BY <1>2, <1>3, <2>1, <2>4, <2>5, <3>1, VerdictsSaved
        <3> QED
            BY <2>2, <3>2
    <2>12. ThreadFits(u, f, n, certBy', crlBy, verdicts', uploadRow[u], CrlsAreOnce(u))
        BY <2>4, <2>7, <2>8, <2>9, <2>10, <2>11 DEF ThreadFits
    <2>13. certBy'[x] = [by |-> u, as |-> type] /\ \A y \in Held : y # x => certBy'[y] = certBy[y]
        BY <1>3, <1>10, <2>3
    <2>14. CertsGrow(u, certBy, certBy')
        <3>1. CertCame(f, x, type)
            <4>1. <<m.at, 1>> \in CertPlaces(f) /\ <<m.at, 1>>[1] = m.at /\ <<m.at, 1>>[2] = 1
                <5>1. m.at \in Nat /\ EntryOK(f.entries[m.at])
                    BY <1>2, <2>6, NowFacts
                <5>2. 1 \in DOMAIN f.entries[m.at].items
                    BY <1>3, <5>1 DEF EntryOK
                <5>3. <<m.at, 1>>[1] = m.at /\ <<m.at, 1>>[2] = 1 /\ <<m.at, 1>> \in Nat \X Nat
                    BY <5>1
                <5> QED
                    BY <1>3, <5>2, <5>3 DEF CertPlaces
            <4>2. \E p \in CertPlaces(f) : f.entries[p[1]].items[p[2]] = x
                BY <4>1 DEF x
            <4> QED
                BY <1>3, <1>8, <4>2 DEF CertCame
        <3>2. certBy' \in [Held -> CertRow \cup {NoCertRow}]
            BY <1>8, <1>10, <2>3 DEF CertRow
        <3> QED
            BY <1>8, <2>3, <2>13, <3>1, <3>2 DEF CertsGrow, f
    <2>15. \A r \in verdicts' \ verdicts : certBy'[r.cert] # NoCertRow
        <3>1. certBy'[x] # NoCertRow
            BY <2>13, BulkAssumption DEF NoCertRow
        <3>2. \A r \in verdicts' \ verdicts : r.cert = x
            BY <1>7, <1>10
        <3> QED
            BY <3>1, <3>2
    <2>16. VerdictsGrow(u, verdicts, verdicts') /\ mem' = [mem EXCEPT ![u] = n]
        BY <1>7, <1>10 DEF n
    <2> QED
        BY <1>1, <1>2, <1>5, <2>4, <2>12, <2>14, <2>15, <2>16, NothingGrows, ThreadStep DEF f
<1>11. CASE /\ HasCert(x) /\ verdicts' = AddVerdict(x, u, m.verdict)
            /\ mem' = [mem EXCEPT ![u] = Onward(k, u)] /\ certBy' = certBy
    <2> DEFINE n == Onward(k, u)
    <2>1. /\ Bump(m.live, {"duplicate"}) \in [LiveKey -> Nat]
          /\ \A key \in LiveKey : Bump(m.live, {"duplicate"})[key] = IF key \in {"duplicate"} THEN m.live[key] + 1 ELSE m.live[key]
        BY <1>2, BumpedKeys DEF BulkThread
    <2>2. /\ k \in BulkThread /\ k.live = Bump(m.live, {"duplicate"})
          /\ k.at = m.at /\ k.sub = m.sub /\ k.again = m.again /\ k.recount = "none" /\ k.slipped = m.slipped
          /\ k.counts = m.counts /\ k.listed = m.listed /\ k.listedTwice = m.listedTwice /\ k.early = m.early
        BY <1>2, <1>3, <2>1 DEF BulkThread
    <2> HIDE DEF k
    <2>3. PassedOver(f, m, k, "twice")
        <3>1. k.live["duplicate"] = m.live["duplicate"] + 1 /\ k.live["error"] = m.live["error"]
            BY <2>1, <2>2 DEF LiveKey
        <3>2. \A key \in LiveKey \ {"error", "duplicate"} : k.live[key] = m.live[key]
            BY <2>1, <2>2
        <3> QED
            BY <1>1, <1>3, <2>2, <3>1, <3>2 DEF PassedOver
    <2>4. Onto(n, n)
        BY DEF Onto
    <2>5. n \in BulkThread /\ ThreadFits(u, fileOf[u], n, certBy, crlBy, verdicts', uploadRow[u], CrlsAreOnce(u))
        BY <1>1, <2>2, <2>3, <2>4, PassFits
    <2>6. \A r \in verdicts' \ verdicts : certBy'[r.cert] # NoCertRow
        BY <1>7, <1>11 DEF HasCert
    <2>7. VerdictsGrow(u, verdicts, verdicts') /\ mem' = [mem EXCEPT ![u] = n] /\ certBy' = certBy
        BY <1>7, <1>11
    <2> HIDE DEF n
    <2> QED
        BY <1>1, <1>2, <1>5, <2>5, <2>6, <2>7, NothingGrows, ThreadStep
<1>12. CASE mem' = [mem EXCEPT ![u] = Failed_(m, u)] /\ certBy' = certBy /\ verdicts' = verdicts
    <2>1. /\ Failed_(m, u) \in BulkThread
          /\ ThreadFits(u, fileOf[u], Failed_(m, u), certBy, crlBy, verdicts, uploadRow[u], CrlsAreOnce(u))
        BY <1>1, <1>3, FailedFits
    <2> QED
        BY <1>1, <1>2, <1>5, <1>12, <2>1, NothingGrows, ThreadStep
<1> QED
    BY <1>9, <1>10, <1>11, <1>12

-----------------------------------------------------------------------------
(* After the entries, and at their end.                                    *)

\* The thread moves on, and its numbers stay.
Moved(m, n) ==
    /\ n.sub = m.sub /\ n.counts = m.counts /\ n.live = m.live /\ n.again = m.again /\ n.recount = m.recount
    /\ n.listed = m.listed /\ n.listedTwice = m.listedTwice /\ n.early = m.early /\ (m.slipped => n.slipped)

LEMMA BehindMoved ==
    ASSUME NEW f, FileOK(f), NEW m \in BulkThread, NEW n \in BulkThread, Works(m), AtFits(f, m), ~InEntry(m), Works(n),
           n.sub = m.sub, Whole(n) = Whole(m)
    PROVE  /\ \A kind : Behind(f, n, kind) = Behind(f, m, kind)
           /\ CertsBehind(f, n) = CertsBehind(f, m) /\ Reached(f, n) = Reached(f, m)
<1>1. \A kind : Behind(f, n, kind) = Behind(f, m, kind)
    BY DEF Behind
<1>2. m.sub = 1
    BY DEF AtFits
<1>3. PlacesBehind(f, n) = PlacesBehind(f, m)
    <2>1. ASSUME NEW p \in CertPlaces(f) PROVE ~(p[2] < 1)
        <3>1. /\ p[1] \in DOMAIN f.entries /\ p[2] \in DOMAIN f.entries[p[1]].items /\ p[2] \in Nat
              /\ f.entries[p[1]].kind \in {"cert", "list"}
            BY DEF CertPlaces
        <3>2. EntryOK(f.entries[p[1]])
            BY <3>1, EntriesAreOK
        <3>3. CASE f.entries[p[1]].kind = "cert"
            BY <3>1, <3>2, <3>3 DEF EntryOK
        <3>4. CASE f.entries[p[1]].kind = "list"
            BY <3>1, <3>2, <3>4 DEF EntryOK
        <3> QED
            BY <3>1, <3>3, <3>4
    <2> QED
        BY <1>2, <2>1 DEF PlacesBehind
<1> QED
    BY <1>1, <1>3 DEF CertsBehind, Reached

LEMMA MovedFits ==
    ASSUME NEW u, NEW f, FileOK(f), NEW m \in BulkThread, NEW n \in BulkThread, Works(m), AtFits(f, m), ~InEntry(m),
           Works(n), Moved(m, n), Whole(n) = Whole(m), n.pc # "insert",
           NEW c, NEW b, NEW once, NEW V, CertCountsFit(u, f, m, c), CrlCountsFit(u, f, m, b, once), ListCountsFit(f, m),
           TotalFits(f, m), EntriesFit(f, m), ErrorsFit(f, m), VerdictsFit(u, f, m, V)
    PROVE  /\ CertCountsFit(u, f, n, c) /\ CrlCountsFit(u, f, n, b, once) /\ ListCountsFit(f, n)
           /\ TotalFits(f, n) /\ EntriesFit(f, n) /\ ErrorsFit(f, n) /\ VerdictsFit(u, f, n, V)
<1>1. /\ n.sub = m.sub /\ n.counts = m.counts /\ n.live = m.live /\ n.again = m.again /\ n.recount = m.recount
      /\ n.listed = m.listed /\ n.listedTwice = m.listedTwice /\ n.early = m.early /\ (m.slipped => n.slipped)
    BY DEF Moved
<1>2. /\ \A kind : Behind(f, n, kind) = Behind(f, m, kind)
      /\ CertsBehind(f, n) = CertsBehind(f, m) /\ Reached(f, n) = Reached(f, m)
    BY <1>1, BehindMoved
<1>3. ~Awaited(f, m) /\ ~Awaited(f, n) /\ n.pc # "idle" /\ m.pc # "idle"
    BY DEF Awaited, InEntry, Works
<1>4. CertCountsFit(u, f, n, c)
    BY <1>1, <1>2, <1>3 DEF CertCountsFit
<1>5. CrlCountsFit(u, f, n, b, once)
    BY <1>1, <1>2 DEF CrlCountsFit
<1>6. ListCountsFit(f, n) /\ ErrorsFit(f, n)
    BY <1>1, <1>2 DEF ListCountsFit, ErrorsFit
<1>7. TotalFits(f, n)
    BY <1>1, <1>3 DEF TotalFits
<1>8. EntriesFit(f, n)
    BY <1>1, <1>2, <1>3 DEF EntriesFit
<1>9. VerdictsFit(u, f, n, V)
    <2>1. \A S : VerdictCount(u, f, n, V, S) = VerdictCount(u, f, m, V, S)
        BY <1>2, <1>3 DEF VerdictCount
    <2> QED
        BY <1>1, <2>1 DEF VerdictsFit
<1> QED
    BY <1>4, <1>5, <1>6, <1>7, <1>8, <1>9

\* No more lists are behind the thread than the file has.
LEMMA ListsBehind ==
    ASSUME NEW f, FileOK(f), NEW m \in BulkThread, Works(m), AtFits(f, m), ListCountsFit(f, m)
    PROVE  /\ m.counts["ml"] <= Cardinality({i \in DOMAIN f.entries : f.entries[i].kind = "list"})
           /\ 0 <= Cardinality({i \in DOMAIN f.entries : f.entries[i].kind = "list"})
           /\ f.asList => Cardinality({i \in DOMAIN f.entries : f.entries[i].kind = "list"}) = 1
<1> DEFINE L == {i \in DOMAIN f.entries : f.entries[i].kind = "list"}
<1>1. IsFiniteSet(L) /\ Cardinality(L) \in Nat
    <2>0. DOMAIN f.entries = 1..Len(f.entries) /\ Len(f.entries) \in Nat
        BY EntriesAreOK
    <2>1. IsFiniteSet(DOMAIN f.entries)
        BY <2>0, FS_Interval
    <2> QED
        BY <2>1, FS_Subset, FS_CardinalityType
<1>2. Behind(f, m, "list") \subseteq L
    <2>1. Behind(f, m, "list") \subseteq DOMAIN f.entries
        BY BehindAreEntries
    <2> QED
        BY <2>1 DEF Behind
<1>3. m.counts["ml"] = Cardinality(Behind(f, m, "list"))
    BY DEF ListCountsFit
<1>4. Cardinality(Behind(f, m, "list")) <= Cardinality(L)
    BY <1>1, <1>2, FS_Subset
<1>5. f.asList => L = {1}
    <2>1. f.asList => DOMAIN f.entries = {1} /\ f.entries[1].kind = "list"
        BY EntriesAreOK DEF FileOK
    <2> QED
        BY <2>1
<1>6. Cardinality({1}) = 1
    BY FS_Singleton
<1> HIDE DEF L
<1>7. f.asList => Cardinality(L) = 1
    BY <1>5, <1>6
<1>8. m.counts["ml"] <= Cardinality(L) /\ 0 <= Cardinality(L)
    BY <1>1, <1>3, <1>4
<1> QED
    BY <1>7, <1>8 DEF L

LEMMA CommitFits ==
    ASSUME BulkInv, NEW u \in Bulk, CommitEntries(u)
    PROVE  BulkInv'
<1> DEFINE f == fileOf[u]
           m == mem[u]
           last == m.at = Len(EntriesOf(u))
           to == IF last THEN AfterEntries(m, u) ELSE "item"
           place == IF last THEN m.at ELSE m.at + 1
           n == [m EXCEPT !.pc = to, !.at = place]
           r == IF f.asList THEN uploadRow[u] ELSE [uploadRow[u] EXCEPT !.counts = m.counts]
<1>1. m.pc = "commit" /\ ~InEntry(m) /\ Works(m) /\ BulkShape
    BY DEF CommitEntries, InEntry, Works, BulkInv
<1>2. /\ FileOK(f) /\ m \in BulkThread /\ uploadRow[u] \in BulkRow
      /\ AtFits(f, m) /\ CertCountsFit(u, f, m, certBy) /\ CrlCountsFit(u, f, m, crlBy, CrlsAreOnce(u))
      /\ ListCountsFit(f, m) /\ TotalFits(f, m) /\ EntriesFit(f, m) /\ ErrorsFit(f, m)
      /\ VerdictsFit(u, f, m, verdicts) /\ RowFits(f, m, uploadRow[u])
      /\ IsListFile(u) = f.asList
    BY <1>1, ActorFits
<1>3. EntriesOf(u) = Reads(f, m)
    BY <1>1, CurrentIsNow
<1>4. m.at \in Nat \ {0} /\ m.at \in 1..Len(Reads(f, m)) /\ Len(Reads(f, m)) \in Nat /\ m.sub = 1 /\ m.recount = "none"
    BY <1>1, <1>2, EntriesAreOK, ReadsAreOK DEF AtFits, BulkThread
<1>5. /\ fileOf' = fileOf /\ certBy' = certBy /\ crlBy' = crlBy /\ verdicts' = verdicts /\ summary' = summary
      /\ mem' = [mem EXCEPT ![u].pc = to, ![u].at = place]
      /\ uploadRow' = IF f.asList THEN uploadRow ELSE [uploadRow EXCEPT ![u].counts = m.counts]
    BY DEF CommitEntries, IsListFile
<1>6. uploadRow' = [uploadRow EXCEPT ![u] = r] /\ r \in BulkRow /\ r.counts \in {uploadRow[u].counts, m.counts}
    <2>1. CASE f.asList
        BY <1>1, <1>2, <1>5, <2>1 DEF BulkShape
    <2>2. CASE ~f.asList
        <3>1. m.counts \in [CountKey -> Nat]
            BY <1>2 DEF BulkThread
        <3> QED
            BY <1>1, <1>2, <1>5, <2>2, <3>1 DEF BulkShape, BulkRow
    <2> QED
        BY <2>1, <2>2
<1>7. to \in {"item", "recount", "status"} /\ place \in Nat
    BY <1>4 DEF AfterEntries
<1>8. mem' = [mem EXCEPT ![u] = n]
    <2> HIDE DEF to, place
    <2> QED
        BY <1>1, <1>5 DEF BulkShape
<1>9. /\ n \in BulkThread /\ n.pc = to /\ n.at = place /\ n.sub = m.sub /\ n.counts = m.counts /\ n.live = m.live /\ n.again = m.again
      /\ n.recount = m.recount /\ n.listed = m.listed /\ n.listedTwice = m.listedTwice /\ n.early = m.early
      /\ n.slipped = m.slipped
    <2> HIDE DEF to, place
    <2> QED
        BY <1>2, <1>7 DEF BulkThread, BulkPc
<1>10. Reads(f, n) = Reads(f, m)
    <2> HIDE DEF n, f, m
    <2> QED
        BY <1>9 DEF Reads
<1>11. /\ last => n.pc = AfterEntries(m, u) /\ n.at = m.at
       /\ ~last => n.pc = "item" /\ n.at = m.at + 1
       /\ last <=> m.at = Len(Reads(f, m))
    BY <1>3, <1>9
<1> HIDE DEF f, m, n, r, to, place, last
<1>12. Works(n) /\ n.pc # "insert" /\ Moved(m, n)
    BY <1>7, <1>9 DEF Works, Moved
<1>13. Whole(n) = Whole(m)
    <2>1. CASE last
        <3>1. n.pc \in {"recount", "status"} /\ n.at = m.at
            BY <1>11, <2>1 DEF AfterEntries
        <3> QED
            BY <1>1, <3>1 DEF Whole, InEntry, m
    <2>2. CASE ~last
        <3>1. n.pc = "item" /\ n.at = m.at + 1
            BY <1>11, <2>2
        <3> QED
            BY <1>1, <1>4, <3>1 DEF Whole, InEntry, m
    <2> QED
        BY <2>1, <2>2
<1>14. AtFits(f, n)
    <2>1. CASE last
        <3>1. \/ n.pc = "recount" /\ ~f.asList /\ m.live["duplicate"] > 0
              \/ n.pc = "status" /\ ~(~f.asList /\ m.live["duplicate"] > 0)
            BY <1>2, <1>11, <2>1 DEF AfterEntries, f, m
        <3>2. m.live["duplicate"] \in Nat
            BY <1>2 DEF BulkThread, LiveKey
        <3>3. n.at = Len(Reads(f, n)) /\ n.at \in 1..Len(Reads(f, n)) /\ n.sub = 1 /\ ~InEntry(n)
            BY <1>4, <1>9, <1>10, <1>11, <2>1, <3>1 DEF InEntry
        <3>4. ~f.asList /\ n.pc = "status" => n.live["duplicate"] = 0
            BY <1>9, <3>1, <3>2
        <3>5. n.pc = "recount" => ~f.asList /\ n.live["duplicate"] > 0
            BY <1>9, <3>1
        <3> QED
            BY <1>4, <1>9, <3>1, <3>3, <3>4, <3>5 DEF AtFits
    <2>2. CASE ~last
        <3>1. n.pc = "item" /\ n.at \in 1..Len(Reads(f, n)) /\ n.sub = 1 /\ InEntry(n)
            BY <1>4, <1>9, <1>10, <1>11, <2>2 DEF InEntry
        <3> QED
            BY <1>4, <1>9, <3>1 DEF AtFits
    <2> QED
        BY <2>1, <2>2
<1>15. RowFits(f, n, r)
    <2>1. n.pc \in {"item", "recount", "status"}
        BY <1>7, <1>9
    <2>2. r.counts["ml"] <= Cardinality({i \in DOMAIN f.entries : f.entries[i].kind = "list"})
        <3>1. uploadRow[u].counts["ml"] <= Cardinality({i \in DOMAIN f.entries : f.entries[i].kind = "list"})
            BY <1>2 DEF RowFits
        <3>2. m.counts["ml"] <= Cardinality({i \in DOMAIN f.entries : f.entries[i].kind = "list"})
            BY <1>1, <1>2, ListsBehind DEF m
        <3> QED
            BY <1>6, <3>1, <3>2
    <2> QED
        BY <2>1, <2>2 DEF RowFits
<1>16. Works(m) /\ ~InEntry(m)
    BY <1>1 DEF m
<1>17. ThreadFits(u, f, n, certBy, crlBy, verdicts, r, CrlsAreOnce(u))
    <2>1. /\ CertCountsFit(u, f, n, certBy) /\ CrlCountsFit(u, f, n, crlBy, CrlsAreOnce(u)) /\ ListCountsFit(f, n)
          /\ TotalFits(f, n) /\ EntriesFit(f, n) /\ ErrorsFit(f, n) /\ VerdictsFit(u, f, n, verdicts)
        BY <1>2, <1>9, <1>12, <1>13, <1>16, MovedFits
    <2> QED
        BY <1>14, <1>15, <2>1 DEF ThreadFits
<1> QED
    BY <1>1, <1>5, <1>6, <1>8, <1>9, <1>17, NothingGrows, ThreadStep DEF f

\* The tables are phase for the numbers.
LEMMA AskedCounts ==
    ASSUME BulkShape, NEW u \in Bulk
    PROVE  /\ \A type : Owned(u, type) = Mine(certBy, u, type) /\ Cardinality(Owned(u, type)) \in Nat
           /\ CrlsOf(u) = MyCrls(crlBy, u) /\ Cardinality(CrlsOf(u)) \in Nat
           /\ \A S : Count(u, S) = Cardinality(MyVerdicts(verdicts, u, S)) /\ Count(u, S) \in Nat
<1>1. \A type : Owned(u, type) = Mine(certBy, u, type) /\ Cardinality(Owned(u, type)) \in Nat
    BY BulkIsFinite, FS_Subset, FS_CardinalityType DEF Owned, Mine
<1>2. CrlsOf(u) = MyCrls(crlBy, u) /\ Cardinality(CrlsOf(u)) \in Nat
    BY BulkIsFinite, FS_Subset, FS_CardinalityType DEF CrlsOf, MyCrls
<1>3. ASSUME NEW S PROVE Count(u, S) = Cardinality(MyVerdicts(verdicts, u, S)) /\ Count(u, S) \in Nat
    <2>1. MyVerdicts(verdicts, u, S) \subseteq verdicts /\ IsFiniteSet(verdicts)
        BY VerdictsAreFinite DEF MyVerdicts
    <2>2. Cardinality(MyVerdicts(verdicts, u, S)) \in Nat
        BY <2>1, FS_Subset, FS_CardinalityType
    <2>3. Count(u, S) = Cardinality(MyVerdicts(verdicts, u, S))
        BY DEF Count, MyVerdicts
    <2> QED
        BY <2>2, <2>3
<1> QED
    BY <1>1, <1>2, <1>3

LEMMA RecountFits ==
    ASSUME BulkInv, NEW u \in Bulk, Recount(u)
    PROVE  BulkInv'
<1> DEFINE f == fileOf[u]
           m == mem[u]
           p == [m EXCEPT !.pc = "status"]
           counts == Recounted(m.counts, u)
           byStatus == RecountedByStatus(m.live, u)
           byChain == RecountedByChain(byStatus, u)
<1>1. m.pc = "recount" /\ ~InEntry(m) /\ Works(m) /\ BulkShape
    BY DEF Recount, InEntry, Works, BulkInv
<1>2. /\ FileOK(f) /\ m \in BulkThread /\ uploadRow[u] \in BulkRow
      /\ AtFits(f, m) /\ CertCountsFit(u, f, m, certBy) /\ CrlCountsFit(u, f, m, crlBy, CrlsAreOnce(u))
      /\ ListCountsFit(f, m) /\ TotalFits(f, m) /\ EntriesFit(f, m) /\ ErrorsFit(f, m)
      /\ VerdictsFit(u, f, m, verdicts) /\ RowFits(f, m, uploadRow[u])
    BY <1>1, ActorFits
<1>3. /\ ~f.asList /\ m.live["duplicate"] > 0 /\ m.sub = 1 /\ m.at = Len(Reads(f, m)) /\ m.at \in 1..Len(Reads(f, m))
      /\ m.recount = "none"
    BY <1>1, <1>2 DEF AtFits
<1>4. /\ fileOf' = fileOf /\ certBy' = certBy /\ crlBy' = crlBy /\ verdicts' = verdicts /\ summary' = summary
      /\ uploadRow' = uploadRow /\ uploadRow' = [uploadRow EXCEPT ![u] = uploadRow[u]]
    BY <1>1 DEF Recount, tables, BulkShape
<1>5. PICK n : /\ mem' = [mem EXCEPT ![u] = n]
               /\ \/ n = [p EXCEPT !.counts = counts, !.recount = "whole", !.live = byChain]
                  \/ n = [p EXCEPT !.counts = counts, !.recount = "part", !.live = byStatus]
                  \/ n = [p EXCEPT !.slipped = TRUE]
    BY DEF Recount
<1> DEFINE C(type) == Cardinality(Mine(certBy, u, type))
           V(S) == Cardinality(MyVerdicts(verdicts, u, S))
           L == Cardinality(MyCrls(crlBy, u))
<1>6. L \in Nat /\ (\A type : C(type) \in Nat) /\ (\A S : V(S) \in Nat)
    BY <1>1, AskedCounts
<1>7. counts = [m.counts EXCEPT !["csca"] = C("CSCA"), !["dsc"] = C("DSC"), !["dscNc"] = C("DSC_NC"), !["crl"] = L]
    BY <1>1, AskedCounts DEF Recounted
<1>8. byStatus = [m.live EXCEPT !["valid"] = V({"VALID"}), !["invalid"] = V({"INVALID"}),
                                !["pending"] = V({"PENDING"}), !["expiredValid"] = V({"EXPIRED_VALID"})]
    BY <1>1, AskedCounts DEF RecountedByStatus
<1>9. byChain = [byStatus EXCEPT !["chainValid"] = V({"VALID", "EXPIRED_VALID"}), !["notFound"] = V({"PENDING"}),
                                 !["chainInvalid"] = byStatus["invalid"]]
    BY <1>1, AskedCounts DEF RecountedByChain
<1> HIDE DEF counts, byStatus, byChain, C, V, L
<1>10. /\ counts \in [CountKey -> Nat] /\ counts["csca"] = C("CSCA") /\ counts["dsc"] = C("DSC") /\ counts["dscNc"] = C("DSC_NC")
       /\ counts["crl"] = L /\ counts["ml"] = m.counts["ml"] /\ counts["mlsc"] = m.counts["mlsc"]
    <2>1. m.counts \in [CountKey -> Nat]
        BY <1>2 DEF BulkThread
    <2> QED
        BY <1>6, <1>7, <2>1 DEF CountKey
<1>11. /\ byStatus \in [LiveKey -> Nat]
       /\ byStatus["valid"] = V({"VALID"}) /\ byStatus["invalid"] = V({"INVALID"}) /\ byStatus["pending"] = V({"PENDING"})
       /\ \A key \in {"total", "error", "duplicate"} : byStatus[key] = m.live[key]
    <2>1. m.live \in [LiveKey -> Nat]
        BY <1>2 DEF BulkThread
    <2> QED
        BY <1>6, <1>8, <2>1 DEF LiveKey
<1>12. /\ byChain \in [LiveKey -> Nat]
       /\ byChain["valid"] = V({"VALID"}) /\ byChain["invalid"] = V({"INVALID"}) /\ byChain["pending"] = V({"PENDING"})
       /\ byChain["chainValid"] = V({"VALID", "EXPIRED_VALID"}) /\ byChain["notFound"] = byChain["pending"]
       /\ byChain["chainInvalid"] = byChain["invalid"]
       /\ \A key \in {"total", "error", "duplicate"} : byChain[key] = m.live[key]
    BY <1>6, <1>9, <1>11 DEF LiveKey
<1>13. CASE n = [p EXCEPT !.slipped = TRUE]
    <2>1. /\ n \in BulkThread /\ n.pc = "status" /\ n.at = m.at /\ n.sub = m.sub /\ n.counts = m.counts /\ n.live = m.live
          /\ n.again = m.again /\ n.recount = m.recount /\ n.listed = m.listed /\ n.listedTwice = m.listedTwice
          /\ n.early = m.early /\ n.slipped
        BY <1>2, <1>13 DEF BulkThread, BulkPc
    <2> HIDE DEF f, m
    <2>2. Works(n) /\ n.pc # "insert" /\ Moved(m, n) /\ ~InEntry(n)
        BY <2>1 DEF Works, Moved, InEntry
    <2>3. Whole(n) = Whole(m) /\ Reads(f, n) = Reads(f, m)
        BY <1>1, <2>1, <2>2 DEF Whole, Reads, m
    <2>4. AtFits(f, n)
        BY <1>3, <2>1, <2>2, <2>3 DEF AtFits
    <2>5. RowFits(f, n, uploadRow[u])
        BY <1>2, <2>1 DEF RowFits
    <2>6. Works(m) /\ ~InEntry(m)
        BY <1>1 DEF m
    <2>7. /\ CertCountsFit(u, f, n, certBy) /\ CrlCountsFit(u, f, n, crlBy, CrlsAreOnce(u)) /\ ListCountsFit(f, n)
          /\ TotalFits(f, n) /\ EntriesFit(f, n) /\ ErrorsFit(f, n) /\ VerdictsFit(u, f, n, verdicts)
        BY <1>2, <2>1, <2>2, <2>3, <2>6, MovedFits
    <2>8. ThreadFits(u, f, n, certBy, crlBy, verdicts, uploadRow[u], CrlsAreOnce(u))
        BY <2>4, <2>5, <2>7 DEF ThreadFits
    <2> QED
        BY <1>1, <1>2, <1>4, <1>5, <2>1, <2>8, NothingGrows, ThreadStep DEF f
<1>14. CASE n # [p EXCEPT !.slipped = TRUE]
    <2>1. PICK how \in {"whole", "part"} :
              n = [p EXCEPT !.counts = counts, !.recount = how, !.live = IF how = "whole" THEN byChain ELSE byStatus]
        BY <1>5, <1>14
    <2> DEFINE now == IF how = "whole" THEN byChain ELSE byStatus
    <2>2. /\ now \in [LiveKey -> Nat]
          /\ now["valid"] = V({"VALID"}) /\ now["invalid"] = V({"INVALID"}) /\ now["pending"] = V({"PENDING"})
          /\ how = "whole" => /\ now["chainValid"] = V({"VALID", "EXPIRED_VALID"}) /\ now["notFound"] = now["pending"]
                              /\ now["chainInvalid"] = now["invalid"]
          /\ now["total"] = m.live["total"] /\ now["error"] = m.live["error"] /\ now["duplicate"] = m.live["duplicate"]
        BY <1>11, <1>12
    <2>3. n = [p EXCEPT !.counts = counts, !.recount = how, !.live = now]
        BY <2>1
    <2> HIDE DEF now
    <2>4. /\ n \in BulkThread /\ n.pc = "status" /\ n.at = m.at /\ n.sub = m.sub /\ n.counts = counts /\ n.live = now
          /\ n.again = m.again /\ n.recount = how /\ n.listed = m.listed /\ n.listedTwice = m.listedTwice
          /\ n.early = m.early /\ n.slipped = m.slipped
        BY <1>2, <1>10, <2>2, <2>3 DEF BulkThread, BulkPc
    <2> HIDE DEF f, m, p
    <2>5. Works(n) /\ ~InEntry(n) /\ ~Awaited(f, n) /\ n.recount # "none"
        BY <2>4 DEF Works, InEntry, Awaited
    <2>6. Whole(n) = Whole(m) /\ Reads(f, n) = Reads(f, m)
        BY <1>1, <2>4, <2>5 DEF Whole, Reads, m
    <2>6a. Works(m) /\ ~InEntry(m) /\ ~Awaited(f, m)
        BY <1>1 DEF m, Awaited
    <2>7. /\ \A kind : Behind(f, n, kind) = Behind(f, m, kind)
          /\ CertsBehind(f, n) = CertsBehind(f, m) /\ Reached(f, n) = Reached(f, m)
        BY <1>2, <2>4, <2>5, <2>6, <2>6a, BehindMoved
    <2>8. AtFits(f, n)
        BY <1>3, <2>4, <2>5, <2>6 DEF AtFits
    <2>9. CertCountsFit(u, f, n, certBy)
        <3>1. \A type \in {"CSCA", "DSC", "DSC_NC"} : n.counts[CountOf(type)] = Cardinality(Mine(certBy, u, type))
            BY <1>10, <2>4, CountsOfTypes DEF C
        <3>2. ~n.again => n.counts["mlsc"] = Cardinality(Mine(certBy, u, "MLSC"))
            BY <1>2, <1>10, <2>4, <2>6a DEF CertCountsFit
        <3> QED
            BY <1>3, <2>5, <3>1, <3>2 DEF CertCountsFit, Works
    <2>10. CrlCountsFit(u, f, n, crlBy, CrlsAreOnce(u))
        <3>1. n.counts["crl"] = Cardinality(MyCrls(crlBy, u)) /\ Cardinality(MyCrls(crlBy, u)) \in Nat
            BY <1>6, <1>10, <2>4 DEF L
        <3>2. n.counts["crl"] >= Cardinality(MyCrls(crlBy, u))
            BY <3>1
        <3>3. ~n.slipped => (CrlsAreOnce(u) => \A i \in Behind(f, n, "crl") : crlBy[f.entries[i].items[1]] = u)
            BY <1>2, <2>4, <2>6a, <2>7 DEF CrlCountsFit
        <3> QED
            BY <2>5, <3>1, <3>2, <3>3 DEF CrlCountsFit
    <2>11. ListCountsFit(f, n)
        BY <1>2, <1>10, <2>4, <2>6a, <2>7 DEF ListCountsFit
    <2>12. TotalFits(f, n)
        BY <2>5 DEF TotalFits
    <2>13. EntriesFit(f, n)
        BY <1>2, <2>2, <2>4, <2>5, <2>6a, <2>7 DEF EntriesFit
    <2>14. ErrorsFit(f, n)
        BY <1>2, <2>2, <2>4, <2>6a, <2>7 DEF ErrorsFit
    <2>15. VerdictsFit(u, f, n, verdicts)
        BY <2>2, <2>4, <2>5 DEF VerdictsFit, V
    <2>16. RowFits(f, n, uploadRow[u])
        BY <1>2, <2>4 DEF RowFits
    <2>17. ThreadFits(u, f, n, certBy, crlBy, verdicts, uploadRow[u], CrlsAreOnce(u))
        BY <2>8, <2>9, <2>10, <2>11, <2>12, <2>13, <2>14, <2>15, <2>16 DEF ThreadFits
    <2> QED
        BY <1>1, <1>2, <1>4, <1>5, <2>4, <2>17, NothingGrows, ThreadStep DEF f
<1> QED
    BY <1>13, <1>14

\* A statement at the end of an upload, that is carried out or fails.
LEMMA WriteFits ==
    ASSUME BulkInv, NEW u \in Bulk, NEW phase \in {"status", "counts", "lists", "verdicts"},
           NEW next \in {"counts", "lists", "verdicts", "over"}, NEW to \in BulkRow, Write(u, phase, next, to),
           next = "lists" => ~OfRetry(u),
           to.counts["ml"] <= Cardinality({i \in DOMAIN fileOf[u].entries : fileOf[u].entries[i].kind = "list"}),
           ~mem[u].slipped =>
               /\ to.status = "COMPLETED"
               /\ next = "over" \/ (next = "verdicts" /\ fileOf[u].asList) => to.counts = FinalCounts(fileOf[u], mem[u])
               /\ next \in {"lists", "over"} /\ ~fileOf[u].asList => to.stored = [k \in StoredKey |-> mem[u].live[k]]
    PROVE  BulkInv'
<1> DEFINE f == fileOf[u]
           m == mem[u]
<1>1. m.pc = phase /\ ~InEntry(m) /\ Works(m) /\ BulkShape
    BY DEF Write, InEntry, Works, BulkInv
<1>2. /\ FileOK(f) /\ m \in BulkThread /\ uploadRow[u] \in BulkRow
      /\ AtFits(f, m) /\ CertCountsFit(u, f, m, certBy) /\ CrlCountsFit(u, f, m, crlBy, CrlsAreOnce(u))
      /\ ListCountsFit(f, m) /\ TotalFits(f, m) /\ EntriesFit(f, m) /\ ErrorsFit(f, m)
      /\ VerdictsFit(u, f, m, verdicts) /\ RowFits(f, m, uploadRow[u])
      /\ OfRetry(u) = (f.asList /\ m.again)
    BY <1>1, ActorFits
<1>3. /\ m.at = Len(Reads(f, m)) /\ m.at \in 1..Len(Reads(f, m)) /\ m.sub = 1
      /\ m.recount # "none" => ~f.asList
      /\ ~f.asList /\ ~m.slipped /\ m.recount = "none" => m.live["duplicate"] = 0
    BY <1>1, <1>2 DEF AtFits
<1>4. /\ fileOf' = fileOf /\ certBy' = certBy /\ crlBy' = crlBy /\ verdicts' = verdicts /\ summary' = summary
    BY DEF Write
<1>5. ASSUME NEW n \in BulkThread, NEW r \in BulkRow, Moved(m, n), n.at = m.at, n.pc = next, n.recount = m.recount,
             mem' = [mem EXCEPT ![u] = n], uploadRow' = [uploadRow EXCEPT ![u] = r],
             r.counts["ml"] <= Cardinality({i \in DOMAIN f.entries : f.entries[i].kind = "list"}),
             ~n.slipped => ~m.slipped /\ r = to
      PROVE  BulkInv'
    <2>1. n.sub = m.sub /\ n.live = m.live /\ n.again = m.again /\ n.counts = m.counts
        BY <1>5 DEF Moved
    <2> HIDE DEF f, m
    <2>2. Works(n) /\ n.pc # "insert" /\ ~InEntry(n) /\ Works(m) /\ ~InEntry(m)
        BY <1>1, <1>5 DEF Works, InEntry, m
    <2>3. Whole(n) = Whole(m) /\ Reads(f, n) = Reads(f, m) /\ FinalCounts(f, n) = FinalCounts(f, m)
        BY <1>5, <2>1, <2>2 DEF Whole, Reads, FinalCounts
    <2>4. AtFits(f, n)
        <3>1. n.pc = "lists" => ~(f.asList /\ n.again)
            BY <1>2, <1>5, <2>1
        <3>2. ~f.asList /\ ~n.slipped /\ n.recount = "none" => n.live["duplicate"] = 0
            BY <1>3, <1>5, <2>1
        <3>3. n.pc \notin {"commit", "recount", "insert"}
            BY <1>5
        <3>4. n.at = Len(Reads(f, n)) /\ n.at \in 1..Len(Reads(f, n)) /\ n.sub = 1
            BY <1>3, <1>5, <2>1, <2>3
        <3>5. n.recount # "none" => ~f.asList
            BY <1>3, <1>5
        <3> QED
            BY <2>2, <3>1, <3>2, <3>3, <3>4, <3>5 DEF AtFits
    <2>5. RowFits(f, n, r)
        <3>1. CASE n.slipped
            BY <1>5, <3>1 DEF RowFits
        <3>2. CASE ~n.slipped
            <4>1. ~m.slipped /\ r = to
                BY <1>5, <3>2
            <4>2. /\ r.status = "COMPLETED"
                  /\ next = "over" \/ (next = "verdicts" /\ f.asList) => r.counts = FinalCounts(f, n)
                  /\ next \in {"lists", "over"} /\ ~f.asList => r.stored = [k \in StoredKey |-> n.live[k]]
                BY <2>1, <2>3, <4>1 DEF f, m
            <4> QED
                BY <1>5, <4>2 DEF RowFits
        <3> QED
            BY <3>1, <3>2
    <2>6. /\ CertCountsFit(u, f, n, certBy) /\ CrlCountsFit(u, f, n, crlBy, CrlsAreOnce(u)) /\ ListCountsFit(f, n)
          /\ TotalFits(f, n) /\ EntriesFit(f, n) /\ ErrorsFit(f, n) /\ VerdictsFit(u, f, n, verdicts)
        BY <1>2, <1>5, <2>2, <2>3, MovedFits
    <2>7. ThreadFits(u, f, n, certBy, crlBy, verdicts, r, CrlsAreOnce(u))
        BY <2>4, <2>5, <2>6 DEF ThreadFits
    <2> QED
        BY <1>1, <1>4, <1>5, <2>7, NothingGrows, ThreadStep DEF f
<1>6. CASE uploadRow' = [uploadRow EXCEPT ![u] = to] /\ mem' = [mem EXCEPT ![u].pc = next]
    <2> DEFINE n == [m EXCEPT !.pc = next]
    <2>1. mem' = [mem EXCEPT ![u] = n]
        BY <1>1, <1>6 DEF BulkShape
    <2>2. /\ n \in BulkThread /\ n.pc = next /\ n.at = m.at /\ n.sub = m.sub /\ n.counts = m.counts /\ n.live = m.live
          /\ n.again = m.again /\ n.recount = m.recount /\ n.listed = m.listed /\ n.listedTwice = m.listedTwice
          /\ n.early = m.early /\ n.slipped = m.slipped
        BY <1>2 DEF BulkThread, BulkPc
    <2> HIDE DEF n, m
    <2>3. Moved(m, n) /\ (~n.slipped => ~m.slipped)
        BY <2>2 DEF Moved
    <2> QED
        BY <1>5, <1>6, <2>1, <2>2, <2>3
<1>7. CASE uploadRow' = uploadRow /\ mem' = [mem EXCEPT ![u].pc = next, ![u].slipped = TRUE]
    <2> DEFINE n == [m EXCEPT !.pc = next, !.slipped = TRUE]
    <2>1. mem' = [mem EXCEPT ![u] = n] /\ uploadRow' = [uploadRow EXCEPT ![u] = uploadRow[u]]
        BY <1>1, <1>7 DEF BulkShape
    <2>2. /\ n \in BulkThread /\ n.pc = next /\ n.at = m.at /\ n.sub = m.sub /\ n.counts = m.counts /\ n.live = m.live
          /\ n.again = m.again /\ n.recount = m.recount /\ n.listed = m.listed /\ n.listedTwice = m.listedTwice
          /\ n.early = m.early /\ n.slipped
        BY <1>2 DEF BulkThread, BulkPc
    <2>3. uploadRow[u].counts["ml"] <= Cardinality({i \in DOMAIN f.entries : f.entries[i].kind = "list"})
        BY <1>2 DEF RowFits
    <2> HIDE DEF n, m
    <2>4. Moved(m, n)
        BY <2>2 DEF Moved
    <2> QED
        BY <1>2, <1>5, <2>1, <2>2, <2>3, <2>4
<1> QED
    BY <1>6, <1>7 DEF Write

LEMMA WritesFit ==
    ASSUME BulkInv, NEW u \in Bulk, WriteStatus(u) \/ WriteCounts(u) \/ WriteLists(u) \/ WriteVerdicts(u)
    PROVE  BulkInv'
<1> DEFINE f == fileOf[u]
           m == mem[u]
           lists == Cardinality({i \in DOMAIN f.entries : f.entries[i].kind = "list"})
<1>1. m.pc \in {"status", "counts", "lists", "verdicts"} /\ ~InEntry(m) /\ Works(m) /\ BulkShape
    BY DEF WriteStatus, WriteCounts, WriteLists, WriteVerdicts, Write, InEntry, Works, BulkInv
<1>2. /\ FileOK(f) /\ m \in BulkThread /\ uploadRow[u] \in BulkRow
      /\ AtFits(f, m) /\ ListCountsFit(f, m) /\ RowFits(f, m, uploadRow[u])
      /\ OfRetry(u) = (f.asList /\ m.again) /\ IsListFile(u) = f.asList
    BY <1>1, ActorFits
<1>3. /\ uploadRow[u].status \in {"PENDING", "PROCESSING", "COMPLETED", "FAILED"} /\ uploadRow[u].counts \in [CountKey -> Nat]
      /\ uploadRow[u].stored \in [StoredKey -> Nat] /\ m.counts \in [CountKey -> Nat] /\ m.live \in [LiveKey -> Nat]
    BY <1>2 DEF BulkRow, BulkThread
<1>4. uploadRow[u].counts["ml"] <= lists /\ m.counts["ml"] <= lists /\ 0 <= lists /\ (f.asList => lists = 1)
    BY <1>1, <1>2, ListsBehind DEF RowFits
<1> HIDE DEF lists
<1>5. CASE WriteStatus(u)
    <2> DEFINE to == [uploadRow[u] EXCEPT !.status = "COMPLETED"]
    <2>1. to \in BulkRow /\ to.status = "COMPLETED" /\ to.counts = uploadRow[u].counts
        BY <1>2, <1>3 DEF BulkRow
    <2>2. Write(u, "status", "counts", to)
        BY <1>5 DEF WriteStatus
    <2> HIDE DEF to
    <2> QED
        BY <1>4, <2>1, <2>2, WriteFits DEF lists
<1>6. CASE WriteCounts(u)
    <2> DEFINE one == IF OfRetry(u) THEN 1 ELSE 0
               c == [m.counts EXCEPT !["ml"] = one, !["mlsc"] = one]
               to == [uploadRow[u] EXCEPT !.counts = c]
               next == IF f.asList /\ ~OfRetry(u) THEN "lists" ELSE "verdicts"
    <2>1. Write(u, "counts", next, to) /\ m.pc = "counts"
        BY <1>2, <1>6 DEF WriteCounts, Write
    <2>2. one \in Nat /\ one <= lists
        <3>1. CASE OfRetry(u)
            <4>1. lists = 1 /\ one = 1
                BY <1>2, <1>4, <3>1
            <4> QED
                BY <4>1
        <3>2. CASE ~OfRetry(u)
            <4>1. one = 0
                BY <3>2
            <4> QED
                BY <1>4, <4>1
        <3> QED
            BY <3>1, <3>2
    <2>3. OfRetry(u) => c = FinalCounts(f, m)
        BY <1>2 DEF FinalCounts
    <2> HIDE DEF one
    <2>4. c \in [CountKey -> Nat] /\ c["ml"] = one
        BY <1>3, <2>2 DEF CountKey
    <2> HIDE DEF c
    <2>5. to \in BulkRow /\ to.counts = c /\ to.status = uploadRow[u].status
        BY <1>2, <2>4 DEF BulkRow
    <2>6. ~m.slipped => uploadRow[u].status = "COMPLETED"
        BY <1>2, <2>1 DEF RowFits
    <2>7. /\ next \in {"lists", "verdicts"} /\ (next = "lists" => ~OfRetry(u) /\ f.asList)
          /\ next = "verdicts" /\ f.asList => OfRetry(u)
        OBVIOUS
    <2> HIDE DEF to, next
    <2>8. /\ next \in {"counts", "lists", "verdicts", "over"} /\ to.counts["ml"] <= lists
          /\ next = "over" \/ (next = "verdicts" /\ f.asList) => to.counts = FinalCounts(f, m)
          /\ ~(next \in {"lists", "over"} /\ ~f.asList)
        BY <2>2, <2>3, <2>4, <2>5, <2>7
    <2> QED
        BY <2>1, <2>5, <2>6, <2>7, <2>8, WriteFits DEF lists
<1>7. CASE WriteLists(u)
    <2> DEFINE to == [uploadRow[u] EXCEPT !.counts = m.counts]
               next == IF f.asList THEN "verdicts" ELSE "over"
    <2>1. Write(u, "lists", next, to) /\ m.pc = "lists"
        BY <1>2, <1>7 DEF WriteLists, Write
    <2>2. to \in BulkRow /\ to.counts = m.counts /\ to.status = uploadRow[u].status /\ to.stored = uploadRow[u].stored
        BY <1>2, <1>3 DEF BulkRow
    <2>3. /\ ~m.slipped => uploadRow[u].status = "COMPLETED"
          /\ ~m.slipped /\ ~f.asList => uploadRow[u].stored = [k \in StoredKey |-> m.live[k]]
        BY <1>2, <2>1 DEF RowFits
    <2>4. m.counts = FinalCounts(f, m)
        BY <1>1, <1>2, <2>1 DEF AtFits, FinalCounts
    <2>5. next \in {"verdicts", "over"}
        OBVIOUS
    <2> HIDE DEF to, next
    <2> QED
        BY <1>4, <2>1, <2>2, <2>3, <2>4, <2>5, WriteFits DEF lists
<1>8. CASE WriteVerdicts(u)
    <2> DEFINE s == [k \in StoredKey |-> m.live[k]]
               to == [uploadRow[u] EXCEPT !.stored = s]
               next == IF f.asList THEN "over" ELSE "lists"
    <2>1. Write(u, "verdicts", next, to) /\ m.pc = "verdicts"
        BY <1>2, <1>8 DEF WriteVerdicts, Write
    <2>2. s \in [StoredKey -> Nat]
        BY <1>3 DEF StoredKey
    <2>3. to \in BulkRow /\ to.counts = uploadRow[u].counts /\ to.status = uploadRow[u].status /\ to.stored = s
        <3> HIDE DEF s
        <3> QED
            BY <1>2, <2>2 DEF BulkRow
    <2>4. /\ ~m.slipped => uploadRow[u].status = "COMPLETED"
          /\ ~m.slipped /\ f.asList => uploadRow[u].counts = FinalCounts(f, m)
        BY <1>2, <2>1 DEF RowFits
    <2>5. next \in {"lists", "over"} /\ (next = "over" => f.asList) /\ (next = "lists" => ~f.asList)
        OBVIOUS
    <2> HIDE DEF to, next, s
    <2>6. next = "lists" => ~OfRetry(u)
        BY <1>2, <2>5
    <2> QED
        BY <1>4, <2>1, <2>3, <2>4, <2>5, <2>6, WriteFits DEF lists, s
<1> QED
    BY <1>5, <1>6, <1>7, <1>8

LEMMA StopFits ==
    ASSUME BulkInv, NEW u \in Bulk, Stop(u)
    PROVE  BulkInv'
<1> DEFINE f == fileOf[u]
           m == mem[u]
           n == [m EXCEPT !.pc = "stopped"]
           lists == Cardinality({i \in DOMAIN f.entries : f.entries[i].kind = "list"})
<1>1. m.pc \notin {"idle", "stopped"} /\ Works(m) /\ BulkShape
    BY DEF Stop, Works, BulkInv
<1>2. /\ FileOK(f) /\ m \in BulkThread /\ uploadRow[u] \in BulkRow
      /\ AtFits(f, m) /\ ListCountsFit(f, m) /\ TotalFits(f, m) /\ RowFits(f, m, uploadRow[u])
    BY <1>1, ActorFits
<1>3. /\ fileOf' = fileOf /\ certBy' = certBy /\ crlBy' = crlBy /\ verdicts' = verdicts /\ summary' = summary
      /\ mem' = [mem EXCEPT ![u] = n]
    BY <1>1 DEF Stop, BulkShape
<1>4. /\ n \in BulkThread /\ n.pc = "stopped" /\ n.live = m.live /\ n.again = m.again /\ n.recount = m.recount
      /\ n.listedTwice = m.listedTwice
    BY <1>2 DEF BulkThread, BulkPc
<1>5. uploadRow[u].counts["ml"] <= lists /\ 0 <= lists
    BY <1>1, <1>2, ListsBehind DEF RowFits
<1> DEFINE r1 == [uploadRow[u] EXCEPT !.status = IF @ = "PROCESSING" THEN "FAILED" ELSE @]
           r2 == [uploadRow[u] EXCEPT !.status = "FAILED", !.counts = Zeros(CountKey)]
<1>6. PICK r : uploadRow' = [uploadRow EXCEPT ![u] = r] /\ r \in {r1, r2}
    <2>1. CASE uploadRow' = [uploadRow EXCEPT ![u].status = IF @ = "PROCESSING" THEN "FAILED" ELSE @]
        <3>1. uploadRow' = [uploadRow EXCEPT ![u] = r1]
            BY <1>1, <2>1 DEF BulkShape
        <3> QED
            BY <3>1
    <2>2. CASE uploadRow' = [uploadRow EXCEPT ![u].status = "FAILED", ![u].counts = Zeros(CountKey)]
        <3>1. uploadRow' = [uploadRow EXCEPT ![u] = r2]
            BY <1>1, <2>2 DEF BulkShape
        <3> QED
            BY <3>1
    <2> QED
        BY <2>1, <2>2 DEF Stop
<1>7. r1 \in BulkRow /\ r1.counts = uploadRow[u].counts
    BY <1>2 DEF BulkRow
<1>8. r2 \in BulkRow /\ r2.counts["ml"] = 0
    <2>1. Zeros(CountKey) \in [CountKey -> Nat] /\ Zeros(CountKey)["ml"] = 0
        BY DEF Zeros, CountKey
    <2> QED
        BY <1>2, <2>1 DEF BulkRow
<1> HIDE DEF r1, r2, n, lists
<1>9. r \in BulkRow /\ r.counts["ml"] <= lists
    BY <1>5, <1>6, <1>7, <1>8
<1>10. ~Works(n)
    BY <1>4 DEF Works
<1>11. AtFits(f, n)
    BY <1>10 DEF AtFits
<1>12. CertCountsFit(u, f, n, certBy) /\ CrlCountsFit(u, f, n, crlBy, CrlsAreOnce(u)) /\ VerdictsFit(u, f, n, verdicts)
    BY <1>4, <1>10 DEF CertCountsFit, CrlCountsFit, VerdictsFit
<1>13. ListCountsFit(f, n) /\ EntriesFit(f, n) /\ ErrorsFit(f, n)
    BY <1>10 DEF ListCountsFit, EntriesFit, ErrorsFit
<1>14. TotalFits(f, n)
    BY <1>1, <1>2, <1>4 DEF TotalFits
<1>15. RowFits(f, n, r)
    BY <1>4, <1>9 DEF RowFits, lists
<1>16. ThreadFits(u, f, n, certBy, crlBy, verdicts, r, CrlsAreOnce(u))
    BY <1>11, <1>12, <1>13, <1>14, <1>15 DEF ThreadFits
<1> QED
    BY <1>1, <1>3, <1>4, <1>6, <1>9, <1>16, NothingGrows, ThreadStep
-----------------------------------------------------------------------------
(* Sums over a finite set, as SumFunction forms them.                      *)

Pick(s) == CHOOSE x \in s : TRUE

LEMMA PickIsIn ==
    ASSUME NEW S, IsFiniteSet(S), NEW s \in SUBSET S, s # {}
    PROVE  /\ Pick(s) \in s /\ s \ {Pick(s)} \in SUBSET S
           /\ IsFiniteSet(s) /\ Cardinality(s) \in Nat \ {0} /\ Cardinality(s \ {Pick(s)}) = Cardinality(s) - 1
<1>1. Pick(s) \in s
    BY DEF Pick
<1>2. IsFiniteSet(s)
    BY FS_Subset
<1>3. Cardinality(s) \in Nat
    BY <1>2, FS_CardinalityType
<1>4. Cardinality(s) # 0
    BY <1>2, FS_EmptySet
<1>5. Cardinality(s \ {Pick(s)}) = Cardinality(s) - 1
    BY <1>1, <1>2, FS_RemoveElement
<1> QED
    BY <1>1, <1>2, <1>3, <1>4, <1>5

\* Induction over the subsets of a finite set.
LEMMA SubsetInduction ==
    ASSUME NEW S, IsFiniteSet(S), NEW K, {} \in K, \A s \in SUBSET S : s # {} /\ s \ {Pick(s)} \in K => s \in K
    PROVE  SUBSET S \subseteq K
<1> DEFINE N == {n \in Nat : \A s \in SUBSET S : Cardinality(s) = n => s \in K}
<1>1. 0 \in N
    <2>1. \A s \in SUBSET S : Cardinality(s) = 0 => s = {}
        <3> TAKE s \in SUBSET S
        <3>1. IsFiniteSet(s)
            BY FS_Subset
        <3> QED
            BY <3>1, FS_EmptySet
    <2> QED
        BY <2>1
<1>2. \A n \in Nat : n \in N => n + 1 \in N
    <2> SUFFICES ASSUME NEW n \in Nat, n \in N, NEW s \in SUBSET S, Cardinality(s) = n + 1 PROVE s \in K
        OBVIOUS
    <2>1. s # {}
        BY FS_EmptySet
    <2>2. s \ {Pick(s)} \in SUBSET S /\ Cardinality(s \ {Pick(s)}) = n
        <3>1. s \ {Pick(s)} \in SUBSET S /\ Cardinality(s \ {Pick(s)}) = Cardinality(s) - 1
            BY <2>1, PickIsIn
        <3> QED
            BY <3>1
    <2>3. s \ {Pick(s)} \in K
        BY <2>2
    <2> QED
        BY <2>1, <2>3
<1> HIDE DEF N
<1>3. Nat \subseteq N
    BY <1>1, <1>2, Induction
<1> QED
    <2> SUFFICES ASSUME NEW s \in SUBSET S PROVE s \in K
        OBVIOUS
    <2>1. IsFiniteSet(s)
        BY FS_Subset
    <2>2. Cardinality(s) \in Nat
        BY <2>1, FS_CardinalityType
    <2>3. Cardinality(s) \in N
        BY <1>3, <2>2
    <2> QED
        BY <2>3 DEF N

\* The sums over the subsets, each with one element more.
SumsOf(h, S, g) ==
    /\ g \in [SUBSET S -> Nat] /\ g[{}] = 0 /\ SumFunction(h) = g[S]
    /\ \A s \in SUBSET S : s # {} => g[s] = h[Pick(s)] + g[s \ {Pick(s)}]

LEMMA Sums ==
    ASSUME NEW S, IsFiniteSet(S), NEW h \in [S -> Nat]
    PROVE  \E g : SumsOf(h, S, g)
<1> DEFINE Round(g, s) == IF s = {} THEN 0 ELSE h[Pick(s)] + g[s \ {Pick(s)}]
           D(n) == {s \in SUBSET S : Cardinality(s) <= n}
           size == Cardinality(S)
<1>1. size \in Nat
    BY FS_CardinalityType
<1>2. ASSUME NEW v, NEW w, NEW s \in SUBSET S, s # {} => v[s \ {Pick(s)}] = w[s \ {Pick(s)}]
      PROVE  Round(v, s) = Round(w, s)
    BY <1>2
<1>3. SumFunction(h) = (CHOOSE g : g = [s \in SUBSET S |-> Round(g, s)])[S]
    <2>1. DOMAIN h = S
        OBVIOUS
    <2> QED
        BY <2>1 DEF SumFunction, SumFunctionOnSet, FoldFunctionOnSet, MapThenFoldSet, Pick
<1>4. \A g : Round(g, {}) = 0 /\ \A s : s # {} => Round(g, s) = h[Pick(s)] + g[s \ {Pick(s)}]
    OBVIOUS
<1>5. \A s \in SUBSET S : /\ Cardinality(s) \in Nat /\ Cardinality(s) <= size
                          /\ s # {} => /\ s \ {Pick(s)} \in SUBSET S /\ Cardinality(s \ {Pick(s)}) = Cardinality(s) - 1
    BY FS_Subset, FS_CardinalityType, PickIsIn
<1> HIDE DEF Round, size
<1>6. \A n \in Nat : \E g : g = [s \in D(n) |-> Round(g, s)]
    <2> DEFINE K == {n \in Nat : \E g : g = [s \in D(n) |-> Round(g, s)]}
    <2>1. 0 \in K
        <3> DEFINE w == [s \in D(0) |-> Round(<<>>, s)]
        <3>1. \A s \in D(0) : s = {}
            <4> TAKE s \in D(0)
            <4>0. s \in SUBSET S /\ Cardinality(s) <= 0 /\ Cardinality(s) \in Nat
                BY <1>5
            <4>1. s \in SUBSET S /\ Cardinality(s) = 0
                BY <4>0
            <4>2. IsFiniteSet(s)
                BY <4>1, FS_Subset
            <4> QED
                BY <4>1, <4>2, FS_EmptySet
        <3>2. \A s \in D(0) : Round(w, s) = Round(<<>>, s)
            BY <1>4, <3>1
        <3>3. w = [s \in D(0) |-> Round(w, s)]
            BY <3>2
        <3> QED
            BY <3>3
    <2>2. ASSUME NEW n \in Nat, n \in K PROVE n + 1 \in K
        <3>1. PICK v : v = [s \in D(n) |-> Round(v, s)]
            BY <2>2
        <3> DEFINE w == [s \in D(n + 1) |-> Round(v, s)]
        <3>2. \A s \in D(n) : v[s] = Round(v, s)
            BY <3>1
        <3>3. \A s \in D(n) : s \in D(n + 1) /\ w[s] = v[s]
            <4>1. ASSUME NEW s \in D(n) PROVE s \in D(n + 1)
                <5>1. s \in SUBSET S /\ Cardinality(s) <= n /\ Cardinality(s) \in Nat
                    BY <1>5
                <5>2. Cardinality(s) <= n + 1
                    BY <5>1
                <5> QED
                    BY <5>1, <5>2
            <4> QED
                BY <3>2, <4>1
        <3>4. w = [s \in D(n + 1) |-> w[s]] /\ \A s \in D(n + 1) : w[s] = Round(v, s)
            OBVIOUS
        <3> HIDE DEF w
        <3>5. \A s \in D(n + 1) : w[s] = Round(w, s)
            <4> TAKE s \in D(n + 1)
            <4>1. s # {} => s \ {Pick(s)} \in D(n)
                <5>1. Cardinality(s) \in Nat /\ Cardinality(s) <= n + 1 => Cardinality(s) - 1 <= n
                    OBVIOUS
                <5>2. s \in SUBSET S /\ Cardinality(s) <= n + 1
                    OBVIOUS
                <5> QED
                    BY <1>5, <5>1, <5>2
            <4>2. s # {} => v[s \ {Pick(s)}] = w[s \ {Pick(s)}]
                BY <3>3, <4>1
            <4>3. Round(v, s) = Round(w, s)
                BY <1>2, <4>2
            <4> QED
                BY <3>4, <4>3
        <3>6. w = [s \in D(n + 1) |-> Round(w, s)]
            BY <3>4, <3>5
        <3>7. \E o : o = [s \in D(n + 1) |-> Round(o, s)]
            BY <3>6
        <3>8. n + 1 \in Nat
            OBVIOUS
        <3> HIDE DEF D
        <3> QED
            BY <3>7, <3>8
    <2> HIDE DEF D
    <2>3. Nat \subseteq K
        BY <2>1, <2>2, Induction
    <2> QED
        BY <2>3
<1> DEFINE g == CHOOSE g : g = [s \in SUBSET S |-> Round(g, s)]
<1>7. g = [s \in SUBSET S |-> Round(g, s)]
    <2>1. D(size) = SUBSET S
        <3>1. \A s \in SUBSET S : Cardinality(s) <= size
            BY <1>5
        <3> QED
            BY <3>1
    <2>2. \E v : v = [s \in SUBSET S |-> Round(v, s)]
        BY <1>1, <1>6, <2>1
    <2> QED
        BY <2>2
<1>8. SumFunction(h) = g[S]
    BY <1>3
<1> HIDE DEF g
<1>9. g[{}] = 0 /\ \A s \in SUBSET S : s # {} => g[s] = h[Pick(s)] + g[s \ {Pick(s)}]
    BY <1>4, <1>7
<1>10. \A s \in SUBSET S : g[s] \in Nat
    <2> DEFINE K == {s \in SUBSET S : g[s] \in Nat}
    <2>1. {} \in K
        BY <1>9
    <2>2. ASSUME NEW s \in SUBSET S, s # {}, s \ {Pick(s)} \in K PROVE s \in K
        <3>1. g[s] = h[Pick(s)] + g[s \ {Pick(s)}] /\ Pick(s) \in S
            BY <1>9, <2>2, PickIsIn
        <3> QED
            BY <2>2, <3>1
    <2> HIDE DEF K
    <2>3. SUBSET S \subseteq K
        BY <2>1, <2>2, SubsetInduction
    <2> QED
        BY <2>3 DEF K
<1>11. g \in [SUBSET S -> Nat]
    BY <1>7, <1>10
<1> QED
    BY <1>8, <1>9, <1>11 DEF SumsOf

\* A sum of numbers that are not smaller is not smaller.
LEMMA SumsGrow ==
    ASSUME NEW S, IsFiniteSet(S), NEW h \in [S -> Nat], NEW k \in [S -> Nat], \A x \in S : h[x] <= k[x]
    PROVE  SumFunction(h) <= SumFunction(k)
<1> PICK g : SumsOf(h, S, g)
    BY Sums
<1> PICK l : SumsOf(k, S, l)
    BY Sums
<1> DEFINE K == {s \in SUBSET S : g[s] <= l[s]}
<1>1. {} \in K
    BY DEF SumsOf
<1>2. ASSUME NEW s \in SUBSET S, s # {}, s \ {Pick(s)} \in K PROVE s \in K
    <2> DEFINE x == Pick(s)
               t == s \ {x}
    <2>1. x \in S /\ t \in SUBSET S
        BY <1>2, PickIsIn
    <2>2. g[s] = h[x] + g[t] /\ l[s] = k[x] + l[t] /\ g[t] \in Nat /\ l[t] \in Nat
        BY <1>2, <2>1 DEF SumsOf
    <2>3. h[x] \in Nat /\ k[x] \in Nat /\ h[x] <= k[x] /\ g[t] <= l[t]
        BY <1>2, <2>1
    <2> HIDE DEF x, t
    <2>4. g[s] <= l[s]
        BY <2>2, <2>3
    <2> QED
        BY <2>4
<1> HIDE DEF K
<1>3. SUBSET S \subseteq K
    BY <1>1, <1>2, SubsetInduction
<1>4. S \in K
    BY <1>3
<1> QED
    BY <1>4 DEF SumsOf, K

\* What is sorted into heaps is as many as the heaps have together.
LEMMA SumsCount ==
    ASSUME NEW S, IsFiniteSet(S), NEW X, IsFiniteSet(X), NEW place, NEW h,
           h = [u \in S |-> Cardinality({x \in X : place[x] = u})]
    PROVE  SumFunction(h) = Cardinality({x \in X : place[x] \in S})
<1> DEFINE H(u) == {x \in X : place[x] = u}
           A(s) == {x \in X : place[x] \in s}
<1>1. \A u : IsFiniteSet(H(u)) /\ Cardinality(H(u)) \in Nat
    BY FS_Subset, FS_CardinalityType
<1>2. \A s : IsFiniteSet(A(s)) /\ Cardinality(A(s)) \in Nat
    BY FS_Subset, FS_CardinalityType
<1>3. h \in [S -> Nat] /\ \A u \in S : h[u] = Cardinality(H(u))
    BY <1>1
<1> PICK g : SumsOf(h, S, g)
    BY <1>3, Sums
<1> DEFINE K == {s \in SUBSET S : g[s] = Cardinality(A(s))}
<1>4. {} \in K
    <2>1. A({}) = {}
        OBVIOUS
    <2> QED
        BY <2>1, FS_EmptySet DEF SumsOf
<1>5. ASSUME NEW s \in SUBSET S, s # {}, s \ {Pick(s)} \in K PROVE s \in K
    <2> DEFINE u == Pick(s)
               t == s \ {u}
    <2>1. u \in s /\ u \in S /\ t \in SUBSET S
        BY <1>5, PickIsIn
    <2>2. g[s] = h[u] + g[t]
        BY <1>5, <2>1 DEF SumsOf
    <2>3. A(s) = H(u) \cup A(t) /\ H(u) \cap A(t) = {}
        BY <2>1
    <2>4. g[t] = Cardinality(A(t)) /\ h[u] = Cardinality(H(u))
        BY <1>3, <1>5, <2>1
    <2> HIDE DEF u, t, A, H
    <2>5. Cardinality(H(u) \cup A(t)) = Cardinality(H(u)) + Cardinality(A(t)) - Cardinality(H(u) \cap A(t))
        BY <1>1, <1>2, FS_Union
    <2>6. Cardinality(H(u) \cap A(t)) = 0
        BY <2>3, FS_EmptySet
    <2>7. Cardinality(A(s)) = Cardinality(H(u)) + Cardinality(A(t))
        <3>1. Cardinality(A(s)) = Cardinality(H(u) \cup A(t))
            BY <2>3
        <3>2. Cardinality(H(u)) \in Nat /\ Cardinality(A(t)) \in Nat
            BY <1>1, <1>2
        <3> QED
            BY <2>5, <2>6, <3>1, <3>2
    <2> QED
        BY <2>2, <2>4, <2>7
<1> HIDE DEF K
<1>6. SUBSET S \subseteq K
    BY <1>4, <1>5, SubsetInduction
<1>7. S \in K
    BY <1>6
<1> QED
    BY <1>7 DEF SumsOf, K
-----------------------------------------------------------------------------
\* One statement of the summary: nothing else changes.
LEMMA TablesStay ==
    ASSUME BulkShape, CertsCame, VerdictsCame, CrlsCame,
           UNCHANGED <<bulkDb, fileOf, uploadRow, certBy, crlBy, verdicts, mem>>
    PROVE  BulkShape' /\ CertsCame' /\ VerdictsCame' /\ CrlsCame'
<1>1. BulkShape'
    BY DEF BulkShape
<1>2. CertsCame'
    BY DEF CertsCame, HasCert
<1>3. VerdictsCame'
    BY DEF VerdictsCame, HasCert
<1>4. CrlsCame'
    BY DEF CrlsCame
<1> QED
    BY <1>1, <1>2, <1>3, <1>4

LEMMA AskStep ==
    ASSUME BulkInv, NEW phase, NEW next, NEW field, NEW value, Ask(phase, next, field, value),
           phase \in {"idle", "lists", "chains", "breakdown"}, field # "pc"
    PROVE  /\ summary.pc = phase
           /\ DOMAIN summary' = AskedFor(phase) \cup {field} /\ summary'.pc = next /\ summary'[field] = value
           /\ \A k \in AskedFor(phase) \ {"pc", field} : summary'[k] = summary[k]
           /\ UNCHANGED <<bulkDb, fileOf, tables, mem>>
          /\ (SummaryFits' => BulkInv')
<1>1. summary.pc = phase /\ DOMAIN summary = AskedFor(phase) /\ "pc" \in AskedFor(phase)
    BY DEF BulkInv, SummaryFits, Ask, AskedFor
<1>2. summary' = [k \in AskedFor(phase) \cup {field} |->
                     CASE k = "pc" -> next [] k = field -> value [] OTHER -> summary[k]]
    BY <1>1 DEF Ask
<1>3. /\ DOMAIN summary' = AskedFor(phase) \cup {field} /\ summary'.pc = next /\ summary'[field] = value
      /\ \A k \in AskedFor(phase) \ {"pc", field} : summary'[k] = summary[k]
    BY <1>1, <1>2
<1>4. UNCHANGED <<bulkDb, fileOf, uploadRow, certBy, crlBy, verdicts, mem>>
    BY DEF Ask, tables
<1>5. BulkShape' /\ CertsCame' /\ VerdictsCame' /\ CrlsCame'
    BY <1>4, TablesStay DEF BulkInv
<1>6. ThreadsFit'
    <2>1. \A v \in Bulk : CrlsAreOnce(v)' = CrlsAreOnce(v)
        BY <1>4, CrlsStayOnce
    <2> QED
        BY <1>4, <2>1 DEF BulkInv, ThreadsFit
<1> QED
    BY <1>1, <1>3, <1>4, <1>5, <1>6 DEF BulkInv, tables

LEMMA ListsAskedFor ==
    ASSUME BulkInv
    PROVE  SumOverUploads("ml") <= SumFunction([u \in Bulk |-> Cardinality(EntriesOfKind(u, "list"))])
<1> DEFINE h == [u \in Bulk |-> uploadRow[u].counts["ml"]]
           k == [u \in Bulk |-> Cardinality(EntriesOfKind(u, "list"))]
<1>1. ASSUME NEW u \in Bulk
      PROVE  h[u] \in Nat /\ k[u] \in Nat /\ h[u] <= k[u]
    <2>1. FileOK(fileOf[u]) /\ RowFits(fileOf[u], mem[u], uploadRow[u]) /\ uploadRow[u] \in BulkRow
        BY FilesAreOK DEF BulkInv, BulkShape, ThreadsFit, ThreadFits
    <2>2. uploadRow[u].counts["ml"] \in Nat
        BY <2>1 DEF BulkRow, CountKey
    <2>3. IsFiniteSet(EntriesOfKind(u, "list"))
        <3>1. Len(fileOf[u].entries) \in Nat /\ DOMAIN fileOf[u].entries = 1..Len(fileOf[u].entries)
            BY <2>1, EntriesAreOK
        <3>2. IsFiniteSet(DOMAIN fileOf[u].entries)
            BY <3>1, FS_Interval
        <3> QED
            BY <3>2, FS_Subset DEF EntriesOfKind
    <2>4. Cardinality(EntriesOfKind(u, "list")) \in Nat
        BY <2>3, FS_CardinalityType
    <2>5. uploadRow[u].counts["ml"] <= Cardinality(EntriesOfKind(u, "list"))
        BY <2>1 DEF RowFits, EntriesOfKind
    <2> QED
        BY <2>2, <2>4, <2>5
<1>2. SumOverUploads("ml") = SumFunction(h)
    BY DEF SumOverUploads
<1> HIDE DEF h, k
<1>3. h \in [Bulk -> Nat] /\ k \in [Bulk -> Nat] /\ \A u \in Bulk : h[u] <= k[u]
    BY <1>1 DEF h, k
<1>4. SumFunction(h) <= SumFunction(k)
    BY <1>3, BulkIsFinite, SumsGrow
<1> QED
    BY <1>2, <1>4 DEF k

LEMMA AsksFit ==
    ASSUME BulkInv, AskCertificates \/ AskLists \/ AskVerdicts \/ AskBreakdown
    PROVE  BulkInv'
<1>1. CASE AskCertificates
    <2>1. /\ summary.pc = "idle" /\ DOMAIN summary' = {"pc"} \cup {"seen"} /\ summary'.pc = "lists"
          /\ summary'["seen"] = certBy /\ certBy' = certBy
          /\ (SummaryFits' => BulkInv')
        BY <1>1, AskStep DEF AskCertificates, AskedFor, tables
    <2>2. SummaryFits'
        BY <2>1 DEF SummaryFits, AskedFor
    <2> QED
        BY <2>1, <2>2
<1>2. CASE AskLists
    <2>1. /\ summary.pc = "lists" /\ DOMAIN summary' = {"pc", "seen"} \cup {"ml"} /\ summary'.pc = "chains"
          /\ summary'["ml"] = SumOverUploads("ml") /\ summary'["seen"] = summary["seen"]
          /\ certBy' = certBy /\ fileOf' = fileOf
          /\ (SummaryFits' => BulkInv')
        <3>1. Ask("lists", "chains", "ml", SumOverUploads("ml"))
            BY <1>2 DEF AskLists
        <3>2. AskedFor("lists") = {"pc", "seen"}
            BY DEF AskedFor
        <3>3. /\ summary.pc = "lists" /\ DOMAIN summary' = AskedFor("lists") \cup {"ml"} /\ summary'.pc = "chains"
              /\ summary'["ml"] = SumOverUploads("ml")
              /\ \A k \in AskedFor("lists") \ {"pc", "ml"} : summary'[k] = summary[k]
              /\ UNCHANGED <<bulkDb, fileOf, tables, mem>> /\ (SummaryFits' => BulkInv')
            BY <3>1, AskStep
        <3> QED
            BY <3>2, <3>3 DEF tables
    <2>2. \A w : EntriesOfKind(w, "list")' = EntriesOfKind(w, "list")
        BY <2>1 DEF EntriesOfKind
    <2>3. \A x \in Held : summary.seen[x] \in {NoCertRow, certBy[x]}
        BY <2>1 DEF BulkInv, SummaryFits
    <2>4. SummaryFits'
        BY <2>1, <2>2, <2>3, ListsAskedFor DEF SummaryFits, AskedFor
    <2> QED
        BY <2>1, <2>4
<1>3. CASE AskVerdicts
    <2>1. /\ summary.pc = "chains" /\ DOMAIN summary' = {"pc", "seen", "ml"} \cup {"verdicts"}
          /\ summary'.pc = "breakdown" /\ summary'["verdicts"] = verdicts
          /\ summary'["seen"] = summary["seen"] /\ summary'["ml"] = summary["ml"]
          /\ certBy' = certBy /\ fileOf' = fileOf /\ verdicts' = verdicts
          /\ (SummaryFits' => BulkInv')
        BY <1>3, AskStep DEF AskVerdicts, AskedFor, tables
    <2>2. \A w : EntriesOfKind(w, "list")' = EntriesOfKind(w, "list")
        BY <2>1 DEF EntriesOfKind
    <2>3. /\ \A x \in Held : summary.seen[x] \in {NoCertRow, certBy[x]}
          /\ summary.ml <= SumFunction([u \in Bulk |-> Cardinality(EntriesOfKind(u, "list"))])
        BY <2>1 DEF BulkInv, SummaryFits
    <2>4. SummaryFits'
        BY <2>1, <2>2, <2>3 DEF SummaryFits, AskedFor
    <2> QED
        BY <2>1, <2>4
<1>4. CASE AskBreakdown
    <2> DEFINE C == OfType("CSCA")
               A == {x \in C : KindOf[x] = "CSCA"}
               B == {x \in C : KindOf[x] # "CSCA"}
    <2>1. /\ summary.pc = "breakdown" /\ DOMAIN summary' = {"pc", "seen", "ml", "verdicts"} \cup {"csca"}
          /\ summary'.pc = "done" /\ summary'["csca"] = [selfSigned |-> Cardinality(A), link |-> Cardinality(B)]
          /\ summary'["seen"] = summary["seen"] /\ summary'["ml"] = summary["ml"]
          /\ summary'["verdicts"] = summary["verdicts"]
          /\ certBy' = certBy /\ fileOf' = fileOf /\ verdicts' = verdicts
          /\ (SummaryFits' => BulkInv')
        BY <1>4, AskStep DEF AskBreakdown, AskedFor, tables
    <2>2. \A w : EntriesOfKind(w, "list")' = EntriesOfKind(w, "list")
        BY <2>1 DEF EntriesOfKind
    <2>3. /\ \A x \in Held : summary.seen[x] \in {NoCertRow, certBy[x]}
          /\ summary.ml <= SumFunction([u \in Bulk |-> Cardinality(EntriesOfKind(u, "list"))])
          /\ summary.verdicts \subseteq verdicts
        BY <2>1 DEF BulkInv, SummaryFits
    <2>4. C \in SUBSET Held /\ \A x \in C : certBy[x].as = "CSCA"
        BY DEF OfType
    <2>5. \A x \in Held : summary.seen[x].as = "CSCA" => x \in C
        BY <2>3 DEF OfType, NoCertRow
    <2>6. Cardinality(A) + Cardinality(B) = Cardinality(C)
        <3>1. IsFiniteSet(A) /\ IsFiniteSet(B) /\ IsFiniteSet(C)
            BY <2>4, BulkIsFinite, FS_Subset
        <3>2. C = A \cup B /\ A \cap B = {}
            OBVIOUS
        <3> HIDE DEF A, B, C
        <3>3. Cardinality(A \cup B) = Cardinality(A) + Cardinality(B) - Cardinality(A \cap B)
            BY <3>1, FS_Union
        <3>4. Cardinality(A \cap B) = 0 /\ Cardinality(C) = Cardinality(A \cup B)
            BY <3>2, FS_EmptySet
        <3>5. Cardinality(A) \in Nat /\ Cardinality(B) \in Nat
            BY <3>1, FS_CardinalityType
        <3> QED
            BY <3>3, <3>4, <3>5
    <2> HIDE DEF A, B, C
    <2>7. summary'.csca.selfSigned + summary'.csca.link = Cardinality(C)
        BY <2>1, <2>6
    <2>8. \E D \in SUBSET Held :
              /\ summary'.csca.selfSigned + summary'.csca.link = Cardinality(D)
              /\ \A x \in D : certBy'[x].as = "CSCA"
              /\ \A x \in Held : summary'.seen[x].as = "CSCA" => x \in D
        BY <2>1, <2>4, <2>5, <2>7
    <2>9. SummaryFits'
        BY <2>1, <2>2, <2>3, <2>8 DEF SummaryFits, AskedFor
    <2> QED
        BY <2>1, <2>9
<1> QED
    BY <1>1, <1>2, <1>3, <1>4
-----------------------------------------------------------------------------
LEMMA BulkStarts ==
    ASSUME BulkInit
    PROVE  BulkInv
<1>1. uploadRow = [u \in Bulk |-> [status |-> "PENDING", counts |-> Zeros(CountKey), stored |-> Zeros(StoredKey)]]
    BY DEF BulkInit
<1>2. /\ certBy = [x \in Held |-> NoCertRow] /\ crlBy = [l \in CrlId |-> "none"] /\ verdicts = {}
      /\ mem = [u \in Bulk |-> [pc |-> "idle"]] /\ fileOf \in Bundles /\ summary = [pc |-> "idle"]
    BY DEF BulkInit
<1>3. \A u \in Bulk : uploadRow[u] \in BulkRow /\ uploadRow[u].counts["ml"] = 0
    <2>1. Zeros(CountKey) \in [CountKey -> Nat] /\ Zeros(StoredKey) \in [StoredKey -> Nat] /\ Zeros(CountKey)["ml"] = 0
        BY DEF Zeros, CountKey
    <2> HIDE DEF Zeros
    <2> QED
        BY <1>1, <2>1 DEF BulkRow
<1>4. BulkShape
    <2>1. uploadRow \in [Bulk -> BulkRow]
        BY <1>1, <1>3
    <2> QED
        BY <1>2, <2>1 DEF BulkShape, IdleThread
<1>5. CertsCame /\ VerdictsCame /\ CrlsCame
    BY <1>2 DEF CertsCame, VerdictsCame, CrlsCame, HasCert
<1>6. SummaryFits
    <2>1. summary.pc = "idle" /\ DOMAIN summary = {"pc"}
        BY <1>2
    <2> QED
        BY <2>1 DEF SummaryFits, AskedFor
<1>7. ASSUME NEW u \in Bulk
      PROVE  ThreadFits(u, fileOf[u], mem[u], certBy, crlBy, verdicts, uploadRow[u], CrlsAreOnce(u))
    <2> DEFINE m == mem[u]
               f == fileOf[u]
    <2>1. m.pc = "idle" /\ ~Works(m) /\ \A x \in Held : certBy[x].by # u
        BY <1>2, BulkAssumption DEF Works, NoCertRow
    <2>2. AtFits(f, m) /\ ListCountsFit(f, m) /\ TotalFits(f, m) /\ EntriesFit(f, m) /\ ErrorsFit(f, m)
        BY <2>1 DEF AtFits, ListCountsFit, TotalFits, EntriesFit, ErrorsFit
    <2>3. CertCountsFit(u, f, m, certBy) /\ CrlCountsFit(u, f, m, crlBy, CrlsAreOnce(u)) /\ VerdictsFit(u, f, m, verdicts)
        BY <2>1 DEF CertCountsFit, CrlCountsFit, VerdictsFit
    <2>4. RowFits(f, m, uploadRow[u])
        <3>1. uploadRow[u].counts["ml"] <= Cardinality({i \in DOMAIN f.entries : f.entries[i].kind = "list"})
            <4>1. FileOK(f)
                BY <1>4, FilesAreOK
            <4>1a. DOMAIN f.entries = 1..Len(f.entries) /\ Len(f.entries) \in Nat
                BY <4>1, EntriesAreOK
            <4>2. IsFiniteSet(DOMAIN f.entries)
                BY <4>1a, FS_Interval
            <4>3. IsFiniteSet({i \in DOMAIN f.entries : f.entries[i].kind = "list"})
                BY <4>2, FS_Subset
            <4>4. Cardinality({i \in DOMAIN f.entries : f.entries[i].kind = "list"}) \in Nat
                BY <4>3, FS_CardinalityType
            <4> QED
                BY <1>3, <4>4
        <3> QED
            BY <2>1, <3>1 DEF RowFits
    <2> QED
        BY <2>2, <2>3, <2>4 DEF ThreadFits
<1> QED
    BY <1>4, <1>5, <1>6, <1>7 DEF BulkInv, ThreadsFit

LEMMA BulkGoesOn ==
    ASSUME BulkInv, [BulkNext]_bulkVars
    PROVE  BulkInv'
<1>1. ASSUME NEW u \in Bulk,
             \/ StartUpload(u) \/ ParseCertificate(u) \/ LookUpListed(u)
             \/ InsertParsed(u) \/ InsertListed(u) \/ SaveParsedCrl(u) \/ PassBroken(u)
             \/ CommitEntries(u) \/ Recount(u)
             \/ WriteStatus(u) \/ WriteCounts(u) \/ WriteLists(u) \/ WriteVerdicts(u)
             \/ Stop(u)
      PROVE  BulkInv'
    BY <1>1, StartFits, ParseFits, LookUpFits, InsertFits, InsertListedFits, CrlFits, BrokenFits, CommitFits,
       RecountFits, WritesFit, StopFits
<1>2. ASSUME UNCHANGED bulkVars PROVE BulkInv'
    <2> BulkShape /\ CertsCame /\ VerdictsCame /\ CrlsCame /\ SummaryFits
        BY DEF BulkInv
    <2>1. BulkShape' /\ CertsCame' /\ VerdictsCame' /\ CrlsCame'
        BY <1>2, TablesStay DEF bulkVars, tables
    <2>2. SummaryFits'
        <3>1. [u \in Bulk |-> Cardinality(EntriesOfKind(u, "list"))]' = [u \in Bulk |-> Cardinality(EntriesOfKind(u, "list"))]
            BY <1>2 DEF bulkVars, EntriesOfKind
        <3>2. summary' = summary /\ certBy' = certBy /\ verdicts' = verdicts
            BY <1>2 DEF bulkVars, tables
        <3> QED
            BY <3>1, <3>2 DEF SummaryFits
    <2>3. \A v \in Bulk : CrlsAreOnce(v)' = CrlsAreOnce(v)
        BY <1>2, CrlsStayOnce DEF bulkVars
    <2>4. ThreadsFit'
        BY <1>2, <2>3 DEF BulkInv, bulkVars, tables, ThreadsFit
    <2> QED
        BY <2>1, <2>2, <2>4 DEF BulkInv
<1> QED
    BY <1>1, <1>2, AsksFit DEF BulkNext

-----------------------------------------------------------------------------
\* At its end a thread has its whole file behind it.
LEMMA AllBehind ==
    ASSUME BulkInv, NEW u \in Bulk, mem[u].pc = "over"
    PROVE  /\ mem[u] \in BulkThread /\ Works(mem[u]) /\ ~InEntry(mem[u]) /\ mem[u].pc # "insert" /\ FileOK(fileOf[u])
           /\ \A kind : Behind(fileOf[u], mem[u], kind) = EntriesOfKind(u, kind)
           /\ PlacesBehind(fileOf[u], mem[u]) = CertPlaces(fileOf[u])
           /\ uploadRow[u] \in BulkRow
           /\ ThreadFits(u, fileOf[u], mem[u], certBy, crlBy, verdicts, uploadRow[u], CrlsAreOnce(u))
<1> DEFINE f == fileOf[u]
           m == mem[u]
<1>1. Works(m) /\ ~InEntry(m) /\ m.pc # "insert"
    BY DEF Works, InEntry
<1>2. m \in BulkThread /\ FileOK(f) /\ uploadRow[u] \in BulkRow
    BY <1>1, CurrentIsNow, FilesAreOK DEF BulkInv, BulkShape
<1>3. ThreadFits(u, f, m, certBy, crlBy, verdicts, uploadRow[u], CrlsAreOnce(u))
    BY DEF BulkInv, ThreadsFit
<1>4. m.at = Len(f.entries) /\ DOMAIN f.entries = 1..Len(f.entries) /\ Len(f.entries) \in Nat
    <2>1. m.at = Len(Reads(f, m))
        BY <1>1, <1>3 DEF ThreadFits, AtFits
    <2> QED
        BY <1>2, <2>1, ReadsAreOK, EntriesAreOK
<1>5. Whole(m) = Len(f.entries)
    BY <1>1, <1>4 DEF Whole
<1>6. \A kind : Behind(f, m, kind) = EntriesOfKind(u, kind)
    BY <1>4, <1>5 DEF Behind, EntriesOfKind
<1>7. PlacesBehind(f, m) = CertPlaces(f)
    <2>1. \A p \in CertPlaces(f) : p[1] <= Len(f.entries)
        BY <1>4 DEF CertPlaces
    <2> QED
        BY <1>5, <2>1 DEF PlacesBehind
<1> QED
    BY <1>1, <1>2, <1>3, <1>6, <1>7

\* Every certificate of an LDIF upload came from one of its entries.
LEMMA AllReached ==
    ASSUME BulkInv, NEW u \in Bulk, mem[u].pc = "over", ~fileOf[u].asList
    PROVE  \A type : MineIn(certBy, u, type, Reached(fileOf[u], mem[u])) = Mine(certBy, u, type)
<1> DEFINE f == fileOf[u]
           m == mem[u]
<1>1. ASSUME NEW type, NEW x \in Mine(certBy, u, type) PROVE x \in Reached(f, m)
    <2>1. x \in Held /\ certBy[x].by = u /\ HasCert(x)
        BY BulkAssumption DEF Mine, HasCert, NoCertRow
    <2>2. CertCame(f, x, certBy[x].as)
        BY <2>1 DEF BulkInv, CertsCame
    <2>3. PICK p \in CertPlaces(f) : f.entries[p[1]].items[p[2]] = x
        BY <2>2 DEF CertCame
    <2> QED
        BY <2>3, AllBehind DEF Reached
<1> QED
    BY <1>1 DEF MineIn

LEMMA AllVerdictsBehind ==
    ASSUME BulkInv, NEW u \in Bulk, mem[u].pc = "over", ~fileOf[u].asList
    PROVE  \A S : VerdictCount(u, fileOf[u], mem[u], verdicts, S) = Count(u, S)
<1> DEFINE f == fileOf[u]
           m == mem[u]
<1>1. ASSUME NEW S
      PROVE  VerdictCount(u, f, m, verdicts, S) = Count(u, S)
    <2>1. ASSUME NEW r \in MyVerdicts(verdicts, u, S) PROVE r.cert \in CertsBehind(f, m)
        <3>1. r \in verdicts /\ r.upload = u
            BY DEF MyVerdicts
        <3>2. VerdictCame(f, r.cert)
            BY <3>1 DEF BulkInv, VerdictsCame
        <3>3. PICK i \in DOMAIN f.entries : f.entries[i].kind = "cert" /\ f.entries[i].items[1] = r.cert
            BY <3>2 DEF VerdictCame
        <3>4. i \in Behind(f, m, "cert")
            BY <3>3, AllBehind DEF EntriesOfKind
        <3> QED
            BY <3>3, <3>4 DEF CertsBehind
    <2>2. {r \in MyVerdicts(verdicts, u, S) : r.cert \in CertsBehind(f, m)} = MyVerdicts(verdicts, u, S)
        BY <2>1
    <2>3. ~Awaited(f, m)
        BY AllBehind DEF Awaited
    <2>4. MyVerdicts(verdicts, u, S) = {r \in verdicts : r.upload = u /\ r.verdict.status \in S}
        BY DEF MyVerdicts
    <2>5. IsFiniteSet(MyVerdicts(verdicts, u, S))
        BY VerdictsAreFinite, FS_Subset DEF BulkInv, MyVerdicts
    <2>6. Cardinality(MyVerdicts(verdicts, u, S)) \in Nat
        BY <2>5, FS_CardinalityType
    <2>7. VerdictCount(u, f, m, verdicts, S) = Cardinality(MyVerdicts(verdicts, u, S)) + 0
        BY <2>2, <2>3 DEF VerdictCount
    <2>8. Count(u, S) = Cardinality(MyVerdicts(verdicts, u, S))
        BY <2>4 DEF Count
    <2> QED
        BY <2>6, <2>7, <2>8
<1> QED
    BY <1>1
\* The CRLs an upload has left are not more than its entries with a CRL.
LEMMA CrlsFromEntries ==
    ASSUME BulkInv, NEW u \in Bulk
    PROVE  /\ Cardinality(CrlsOf(u)) \in Nat /\ Cardinality(EntriesOfKind(u, "crl")) \in Nat
           /\ Cardinality(CrlsOf(u)) <= Cardinality(EntriesOfKind(u, "crl"))
           /\ CrlsAreOnce(u) /\ (\A i \in EntriesOfKind(u, "crl") : crlBy[fileOf[u].entries[i].items[1]] = u)
                  => Cardinality(CrlsOf(u)) = Cardinality(EntriesOfKind(u, "crl"))
<1> DEFINE f == fileOf[u]
           E == EntriesOfKind(u, "crl")
           g == [i \in E |-> f.entries[i].items[1]]
           T == {g[i] : i \in E}
<1>1. /\ FileOK(f) /\ DOMAIN f.entries = 1..Len(f.entries) /\ Len(f.entries) \in Nat
      /\ \A i \in E : EntryOK(f.entries[i]) /\ f.entries[i].kind = "crl"
    BY FilesAreOK, EntriesAreOK DEF BulkInv, EntriesOfKind
<1>2. IsFiniteSet(E)
    <2>1. IsFiniteSet(DOMAIN f.entries)
        BY <1>1, FS_Interval
    <2> QED
        BY <2>1, FS_Subset DEF EntriesOfKind
<1>3. CrlsOf(u) \subseteq T
    <2> SUFFICES ASSUME NEW l \in CrlsOf(u) PROVE l \in T
        OBVIOUS
    <2>1. l \in CrlId /\ crlBy[l] = u /\ crlBy[l] # "none"
        BY BulkAssumption DEF CrlsOf
    <2>2. CrlCame(f, l)
        BY <2>1 DEF BulkInv, CrlsCame
    <2>3. PICK i \in DOMAIN f.entries : f.entries[i].kind = "crl" /\ f.entries[i].items[1] = l
        BY <2>2 DEF CrlCame
    <2>4. i \in E
        BY <2>3 DEF EntriesOfKind
    <2> QED
        BY <2>3, <2>4
<1>4. g \in Surjection(E, T)
    BY DEF Surjection
<1>5. CrlsAreOnce(u) => g \in Injection(E, T)
    <2> SUFFICES ASSUME CrlsAreOnce(u), NEW i \in E, NEW j \in E, g[i] = g[j] PROVE i = j
        BY DEF Injection, IsInjective
    <2>1. <<u, i>> \in CrlEntries /\ <<u, j>> \in CrlEntries
        BY DEF CrlEntries
    <2>2. CrlAt(<<u, i>>) = g[i] /\ CrlAt(<<u, j>>) = g[j]
        BY DEF CrlAt
    <2>3. <<u, i>> = <<u, j>>
        BY <2>1, <2>2 DEF CrlsAreOnce
    <2> QED
        BY <2>3
<1>6. ASSUME \A i \in E : crlBy[f.entries[i].items[1]] = u PROVE T \subseteq CrlsOf(u)
    BY <1>1, <1>6 DEF CrlsOf, EntryOK
<1> HIDE DEF f, E, g, T
<1>7. IsFiniteSet(T) /\ Cardinality(T) <= Cardinality(E) /\ (CrlsAreOnce(u) => Cardinality(T) = Cardinality(E))
    BY <1>2, <1>4, <1>5, FS_Surjection
<1>8. IsFiniteSet(CrlsOf(u)) /\ Cardinality(CrlsOf(u)) <= Cardinality(T)
    BY <1>3, <1>7, FS_Subset
<1>9. Cardinality(CrlsOf(u)) \in Nat /\ Cardinality(E) \in Nat /\ Cardinality(T) \in Nat
    BY <1>2, <1>7, <1>8, FS_CardinalityType
<1>10. Cardinality(CrlsOf(u)) <= Cardinality(E)
    BY <1>7, <1>8, <1>9
<1>11. CrlsAreOnce(u) /\ (\A i \in E : crlBy[f.entries[i].items[1]] = u) => Cardinality(CrlsOf(u)) = Cardinality(E)
    <2>1. (\A i \in E : crlBy[f.entries[i].items[1]] = u) => CrlsOf(u) = T
        BY <1>3, <1>6
    <2>2. (\A i \in E : crlBy[f.entries[i].items[1]] = u) => Cardinality(CrlsOf(u)) = Cardinality(T)
        BY <2>1
    <2> QED
        BY <1>7, <2>2
<1> QED
    BY <1>9, <1>10, <1>11 DEF E, f

LEMMA CountsHold ==
    ASSUME BulkInv
    PROVE  CountsAreRows
<1> SUFFICES ASSUME NEW u \in Bulk, Settled(u)
    PROVE  LET c == uploadRow[u].counts IN
           /\ uploadRow[u].status = "COMPLETED"
           /\ ~OfRetry(u) => c["csca"] = Cardinality(Owned(u, "CSCA"))
           /\ OfRetry(u) => c["csca"] <= Cardinality(Owned(u, "CSCA"))
           /\ ~mem[u].again => c["mlsc"] = Cardinality(Owned(u, "MLSC"))
           /\ c["ml"] = Cardinality(EntriesOfKind(u, "list"))
           /\ c["dsc"] = Cardinality(Owned(u, "DSC")) /\ c["dscNc"] = Cardinality(Owned(u, "DSC_NC"))
           /\ c["crl"] >= Cardinality(CrlsOf(u))
           /\ CrlsAreOnce(u) => c["crl"] = Cardinality(CrlsOf(u))
    BY DEF CountsAreRows
<1> DEFINE f == fileOf[u]
           m == mem[u]
           c == uploadRow[u].counts
           Own(type) == Cardinality(Mine(certBy, u, type))
<1>1. m.pc = "over" /\ ~m.slipped
    BY DEF Settled
<1>2. /\ m \in BulkThread /\ Works(m) /\ ~InEntry(m) /\ FileOK(f) /\ uploadRow[u] \in BulkRow
      /\ ThreadFits(u, f, m, certBy, crlBy, verdicts, uploadRow[u], CrlsAreOnce(u))
    BY <1>1, AllBehind
<1>3. uploadRow[u].status = "COMPLETED" /\ c = FinalCounts(f, m)
    BY <1>1, <1>2 DEF ThreadFits, RowFits
<1>4. OfRetry(u) = (f.asList /\ m.again) /\ \A type : Owned(u, type) = Mine(certBy, u, type)
    BY DEF OfRetry, IsListFile, Owned, Mine
<1>5. /\ \A key \in CountKey \ {"ml", "mlsc"} : c[key] = m.counts[key]
      /\ ~OfRetry(u) => c["ml"] = m.counts["ml"] /\ c["mlsc"] = m.counts["mlsc"]
      /\ OfRetry(u) => c["ml"] = 1
    <2>1. m.counts \in [CountKey -> Nat] /\ "ml" \in CountKey /\ "mlsc" \in CountKey
        BY <1>2 DEF BulkThread, CountKey
    <2> QED
        BY <1>3, <1>4, <2>1 DEF FinalCounts
<1>6. c["ml"] = Cardinality(EntriesOfKind(u, "list"))
    <2>1. m.counts["ml"] = Cardinality(EntriesOfKind(u, "list"))
        BY <1>1, <1>2, AllBehind DEF ThreadFits, ListCountsFit
    <2>2. CASE OfRetry(u)
        <3>0. Len(f.entries) = 1 /\ f.entries[1].kind = "list"
            BY <1>2, <1>4, <2>2 DEF FileOK
        <3>1. DOMAIN f.entries = {1} /\ f.entries[1].kind = "list"
            <4>1. DOMAIN f.entries = 1..Len(f.entries)
                BY <1>2, EntriesAreOK
            <4> QED
                BY <3>0, <4>1
        <3>2. EntriesOfKind(u, "list") = {1}
            BY <3>1 DEF EntriesOfKind
        <3>3. Cardinality(EntriesOfKind(u, "list")) = 1
            BY <3>2, FS_Singleton
        <3> QED
            BY <1>5, <2>2, <3>3
    <2> QED
        BY <1>5, <2>1, <2>2
<1>7. ~m.again => c["mlsc"] = Own("MLSC")
    BY <1>2, <1>4, <1>5 DEF ThreadFits, CertCountsFit
<1>8. /\ ~OfRetry(u) => c["csca"] = Own("CSCA")
      /\ OfRetry(u) => c["csca"] <= Own("CSCA")
      /\ c["dsc"] = Own("DSC") /\ c["dscNc"] = Own("DSC_NC")
    <2>0. "csca" \in CountKey \ {"ml", "mlsc"} /\ "dsc" \in CountKey \ {"ml", "mlsc"} /\ "dscNc" \in CountKey \ {"ml", "mlsc"}
        BY DEF CountKey
    <2>1. CASE f.asList
        <3>1. /\ m.counts["csca"] <= Own("CSCA") /\ (~m.again => m.counts["csca"] = Own("CSCA"))
              /\ m.counts["dsc"] = 0 /\ m.counts["dscNc"] = 0
            BY <1>2, <2>1 DEF ThreadFits, CertCountsFit
        <3>2. ASSUME NEW type \in {"DSC", "DSC_NC"} PROVE Mine(certBy, u, type) = {}
            <4> SUFFICES ASSUME NEW x \in Mine(certBy, u, type) PROVE FALSE
                OBVIOUS
            <4>1. x \in Held /\ certBy[x].by = u /\ certBy[x].as = type /\ HasCert(x)
                BY BulkAssumption DEF Mine, HasCert, NoCertRow
            <4>2. CertCame(f, x, type)
                BY <4>1 DEF BulkInv, CertsCame
            <4> QED
                BY <2>1, <3>2, <4>2 DEF CertCame
        <3>3. Own("DSC") = 0 /\ Own("DSC_NC") = 0
            BY <3>2, FS_EmptySet
        <3> HIDE DEF Own
        <3> QED
            BY <1>4, <1>5, <2>0, <2>1, <3>1, <3>3
    <2>2. CASE ~f.asList
        <3>1. ASSUME NEW type \in {"CSCA", "DSC", "DSC_NC"} PROVE m.counts[CountOf(type)] = Own(type)
            <4>1. CASE m.recount = "none"
                <5>1. m.live["duplicate"] = 0
                    BY <1>1, <1>2, <2>2, <4>1 DEF ThreadFits, AtFits
                <5>2. m.counts[CountOf(type)] = Cardinality(MineIn(certBy, u, type, Reached(f, m)))
                          + (IF Awaited(f, m) /\ StoredAs(AwaitedCert(f, m)) = type THEN 1 ELSE 0)
                    BY <1>1, <1>2, <2>2, <4>1, <5>1 DEF ThreadFits, CertCountsFit
                <5>3. ~Awaited(f, m)
                    BY <1>1 DEF Awaited
                <5>4. MineIn(certBy, u, type, Reached(f, m)) = Mine(certBy, u, type)
                    BY <1>1, <2>2, AllReached
                <5>5. IsFiniteSet(Mine(certBy, u, type))
                    BY BulkIsFinite, FS_Subset DEF Mine
                <5>6. Own(type) \in Nat
                    BY <5>5, FS_CardinalityType
                <5>7. m.counts[CountOf(type)] = Own(type) + 0
                    BY <5>2, <5>3, <5>4
                <5> HIDE DEF Own
                <5> QED
                    BY <5>6, <5>7
            <4>2. CASE m.recount # "none"
                BY <1>1, <1>2, <2>2, <4>2 DEF ThreadFits, CertCountsFit
            <4> QED
                BY <4>1, <4>2
        <3>2. CountOf("CSCA") = "csca" /\ CountOf("DSC") = "dsc" /\ CountOf("DSC_NC") = "dscNc"
            BY DEF CountOf
        <3>3. m.counts["csca"] = Own("CSCA") /\ m.counts["dsc"] = Own("DSC") /\ m.counts["dscNc"] = Own("DSC_NC")
            BY <3>1, <3>2
        <3> HIDE DEF Own
        <3> QED
            BY <1>4, <1>5, <2>0, <2>2, <3>3
    <2> QED
        BY <2>1, <2>2
<1>9. c["crl"] >= Cardinality(CrlsOf(u)) /\ (CrlsAreOnce(u) => c["crl"] = Cardinality(CrlsOf(u)))
    <2>1. c["crl"] = m.counts["crl"] /\ m.counts["crl"] \in Nat
        BY <1>2, <1>5 DEF BulkThread, CountKey
    <2>2. CrlCountsFit(u, f, m, crlBy, CrlsAreOnce(u)) /\ CrlsOf(u) = MyCrls(crlBy, u)
        BY <1>2 DEF ThreadFits, CrlsOf, MyCrls
    <2>3. CASE m.recount = "none"
        <3>1. m.counts["crl"] = Cardinality(EntriesOfKind(u, "crl"))
            BY <1>1, <1>2, <2>2, <2>3, AllBehind DEF CrlCountsFit
        <3>2. CrlsAreOnce(u) => \A i \in EntriesOfKind(u, "crl") : crlBy[f.entries[i].items[1]] = u
            BY <1>1, <1>2, <2>2, AllBehind DEF CrlCountsFit
        <3>3. /\ Cardinality(CrlsOf(u)) \in Nat
              /\ Cardinality(CrlsOf(u)) <= Cardinality(EntriesOfKind(u, "crl"))
              /\ CrlsAreOnce(u) => Cardinality(CrlsOf(u)) = Cardinality(EntriesOfKind(u, "crl"))
            BY <3>2, CrlsFromEntries
        <3> QED
            BY <2>1, <3>1, <3>3
    <2>4. CASE m.recount # "none"
        BY <1>1, <1>2, <2>1, <2>2, <2>4 DEF CrlCountsFit
    <2> QED
        BY <2>3, <2>4
<1> HIDE DEF c
<1> QED
    BY <1>3, <1>4, <1>6, <1>7, <1>8, <1>9 DEF c

LEMMA VerdictsAreSummed ==
    ASSUME BulkInv
    PROVE  VerdictsAddUp
<1> DEFINE Right(u) ==
               LET m == mem[u]
                   s == uploadRow[u].stored
                   fromLists == IF m.recount = "none" THEN m.listed ELSE 0
               IN  /\ m.recount = "none" =>
                          m.live["total"] = Statuses(m.live) + m.live["expiredValid"]
                                            + (IF OfRetry(u) THEN 0 ELSE m.listedTwice)
                   /\ Settled(u) /\ ~IsListFile(u) =>
                          /\ s["valid"] = Count(u, {"VALID"}) + fromLists
                          /\ s["invalid"] = Count(u, {"INVALID"})
                          /\ s["pending"] = Count(u, {"PENDING"})
                          /\ m.recount # "part" =>
                                 /\ s["chainValid"] = Count(u, {"VALID", "EXPIRED_VALID"})
                                 /\ s["notFound"] = s["pending"] /\ s["chainInvalid"] = s["invalid"]
                          /\ Cardinality(EntriesOfKind(u, "cert"))
                                 = m.live["total"] - m.listed - m.listedTwice + m.early
                          /\ s["error"] = Cardinality(EntriesOfKind(u, "broken"))
<1> SUFFICES ASSUME NEW u \in Bulk, mem[u].pc # "idle" PROVE Right(u)
    BY DEF VerdictsAddUp
<1> DEFINE f == fileOf[u]
           m == mem[u]
           s == uploadRow[u].stored
           fromLists == IF m.recount = "none" THEN m.listed ELSE 0
<1>1. OfRetry(u) = (f.asList /\ m.again) /\ IsListFile(u) = f.asList
    BY DEF OfRetry, IsListFile
<1>2. ThreadFits(u, f, m, certBy, crlBy, verdicts, uploadRow[u], CrlsAreOnce(u))
    BY DEF BulkInv, ThreadsFit
<1>3. m.recount = "none" => m.live["total"] = Statuses(m.live) + m.live["expiredValid"]
                                              + (IF OfRetry(u) THEN 0 ELSE m.listedTwice)
    BY <1>1, <1>2 DEF ThreadFits, TotalFits
<1>4. ASSUME Settled(u), ~IsListFile(u)
      PROVE  /\ s["valid"] = Count(u, {"VALID"}) + fromLists
             /\ s["invalid"] = Count(u, {"INVALID"})
             /\ s["pending"] = Count(u, {"PENDING"})
             /\ m.recount # "part" =>
                    /\ s["chainValid"] = Count(u, {"VALID", "EXPIRED_VALID"})
                    /\ s["notFound"] = s["pending"] /\ s["chainInvalid"] = s["invalid"]
             /\ Cardinality(EntriesOfKind(u, "cert")) = m.live["total"] - m.listed - m.listedTwice + m.early
             /\ s["error"] = Cardinality(EntriesOfKind(u, "broken"))
    <2>1. m.pc = "over" /\ ~m.slipped /\ ~f.asList
        BY <1>1, <1>4 DEF Settled
    <2>2. m \in BulkThread /\ Works(m) /\ ~InEntry(m) /\ \A kind : Behind(f, m, kind) = EntriesOfKind(u, kind)
        BY <2>1, AllBehind
    <2>3. s = [k \in StoredKey |-> m.live[k]]
        BY <1>2, <2>1 DEF ThreadFits, RowFits
    <2>4. \A k \in StoredKey : s[k] = m.live[k]
        BY <2>3
    <2>5. {"valid", "invalid", "pending", "error", "chainValid", "notFound", "chainInvalid"} \subseteq StoredKey
        BY DEF StoredKey, LiveKey
    <2>6. m.listed \in Nat /\ m.listedTwice \in Nat /\ m.early \in Nat /\ m.live["total"] \in Nat
        BY <2>2 DEF BulkThread, LiveKey
    <2>7. \A S : Count(u, S) = Cardinality(MyVerdicts(verdicts, u, S)) /\ Count(u, S) \in Nat
        <3>1. ASSUME NEW S PROVE Count(u, S) = Cardinality(MyVerdicts(verdicts, u, S)) /\ Count(u, S) \in Nat
            <4>1. IsFiniteSet(MyVerdicts(verdicts, u, S))
                BY VerdictsAreFinite, FS_Subset DEF BulkInv, MyVerdicts
            <4>2. Cardinality(MyVerdicts(verdicts, u, S)) \in Nat
                BY <4>1, FS_CardinalityType
            <4> QED
                BY <4>2 DEF Count, MyVerdicts
        <3> QED
            BY <3>1
    <2>8. m.recount = "none" => m.live["duplicate"] = 0
        BY <1>2, <2>1, <2>2 DEF ThreadFits, AtFits
    <2>9. VerdictsFit(u, f, m, verdicts)
        BY <1>2 DEF ThreadFits
    <2>10. /\ m.live["valid"] = Count(u, {"VALID"}) + fromLists
           /\ m.live["invalid"] = Count(u, {"INVALID"})
           /\ m.live["pending"] = Count(u, {"PENDING"})
           /\ m.recount # "part" => m.live["chainValid"] = Count(u, {"VALID", "EXPIRED_VALID"})
        <3>1. CASE m.recount = "none"
            BY <2>1, <2>2, <2>8, <2>9, <3>1, AllVerdictsBehind DEF VerdictsFit
        <3>2. CASE m.recount # "none"
            <4>1. /\ m.live["valid"] = Count(u, {"VALID"})
                  /\ m.live["invalid"] = Count(u, {"INVALID"})
                  /\ m.live["pending"] = Count(u, {"PENDING"})
                  /\ m.recount = "whole" => m.live["chainValid"] = Count(u, {"VALID", "EXPIRED_VALID"})
                BY <2>1, <2>2, <2>7, <2>9, <3>2 DEF VerdictsFit
            <4>2. Count(u, {"VALID"}) + fromLists = Count(u, {"VALID"})
                BY <2>7, <3>2
            <4>3. m.recount \in {"whole", "part"}
                BY <2>2, <3>2 DEF BulkThread
            <4> QED
                BY <4>1, <4>2, <4>3
        <3> QED
            BY <3>1, <3>2
    <2>11. m.recount # "part" => m.live["notFound"] = m.live["pending"] /\ m.live["chainInvalid"] = m.live["invalid"]
        BY <2>1, <2>2, <2>9 DEF VerdictsFit
    <2>12. m.live["error"] = Cardinality(EntriesOfKind(u, "broken"))
        BY <1>2, <2>1, <2>2 DEF ThreadFits, ErrorsFit
    <2>13. Cardinality(EntriesOfKind(u, "cert")) = m.live["total"] - m.listed - m.listedTwice + m.early
        <3>1. m.live["total"] + m.early = m.listed + m.listedTwice + Cardinality(EntriesOfKind(u, "cert")) + 0
            BY <1>2, <2>1, <2>2 DEF ThreadFits, EntriesFit, Awaited
        <3>2. Cardinality(EntriesOfKind(u, "cert")) \in Nat
            <4>1. Len(f.entries) \in Nat /\ DOMAIN f.entries = 1..Len(f.entries)
                BY FilesAreOK, EntriesAreOK DEF BulkInv
            <4>2. IsFiniteSet(DOMAIN f.entries)
                BY <4>1, FS_Interval
            <4>3. IsFiniteSet(EntriesOfKind(u, "cert"))
                BY <4>2, FS_Subset DEF EntriesOfKind
            <4> QED
                BY <4>3, FS_CardinalityType
        <3> QED
            BY <2>6, <3>1, <3>2
    <2> HIDE DEF s, m, f, fromLists
    <2> QED
        BY <2>4, <2>5, <2>10, <2>11, <2>12, <2>13
<1> HIDE DEF s, m, f, fromLists
<1> QED
    BY <1>3, <1>4 DEF s, m, fromLists

\* What the rows of all uploads say together is what there is.
LEMMA UploadsSum ==
    ASSUME BulkInv, \A u \in Bulk : Settled(u) /\ ~OfRetry(u)
    PROVE  SumOverUploads("csca") = Cardinality(OfType("CSCA"))
<1> DEFINE X == OfType("CSCA")
           place == [x \in Held |-> certBy[x].by]
           h == [u \in Bulk |-> Cardinality({x \in X : place[x] = u})]
<1>1. IsFiniteSet(X) /\ IsFiniteSet(Bulk)
    BY BulkIsFinite, FS_Subset DEF OfType
<1>2. \A x \in X : x \in Held /\ certBy[x] \in CertRow /\ certBy[x].as = "CSCA" /\ place[x] = certBy[x].by
    BY DEF OfType, BulkInv, BulkShape, NoCertRow
<1>3. {x \in X : place[x] \in Bulk} = X
    BY <1>2 DEF CertRow
<1>4. ASSUME NEW u \in Bulk PROVE uploadRow[u].counts["csca"] = Cardinality({x \in X : place[x] = u})
    <2>1. uploadRow[u].counts["csca"] = Cardinality(Owned(u, "CSCA"))
        BY CountsHold DEF CountsAreRows
    <2>2. {x \in X : place[x] = u} = Owned(u, "CSCA")
        <3>1. ASSUME NEW x \in X PROVE place[x] = u <=> certBy[x] = [by |-> u, as |-> "CSCA"]
            <4>1. certBy[x] = [by |-> certBy[x].by, as |-> "CSCA"]
                BY <1>2 DEF CertRow
            <4> QED
                BY <1>2, <4>1
        <3>2. Owned(u, "CSCA") \subseteq X
            BY DEF Owned, OfType
        <3> QED
            BY <1>2, <3>1, <3>2 DEF Owned
    <2> QED
        BY <2>1, <2>2
<1>5. SumOverUploads("csca") = SumFunction(h)
    <2>1. [u \in Bulk |-> uploadRow[u].counts["csca"]] = h
        BY <1>4
    <2> HIDE DEF h
    <2> QED
        BY <2>1 DEF SumOverUploads
<1>6. h = [u \in Bulk |-> Cardinality({x \in X : place[x] = u})]
    OBVIOUS
<1> HIDE DEF h, place, X
<1>7. SumFunction(h) = Cardinality({x \in X : place[x] \in Bulk})
    BY <1>1, <1>6, SumsCount
<1> QED
    BY <1>3, <1>5, <1>7 DEF X

LEMMA SummaryHolds ==
    ASSUME BulkInv
    PROVE  SummaryAddsUp
<1> SUFFICES ASSUME summary.pc = "done"
    PROVE  LET csca == Cardinality({x \in Held : summary.seen[x].as = "CSCA"})
               parts == summary.csca.selfSigned + summary.csca.link
           IN  /\ csca <= parts
               /\ summary.seen = certBy => csca = parts
               /\ summary.ml <= SumFunction([u \in Bulk |-> Cardinality(EntriesOfKind(u, "list"))])
               /\ \A r \in summary.verdicts : HasCert(r.cert)
               /\ (\A u \in Bulk : Settled(u) /\ ~OfRetry(u)) =>
                      /\ csca <= SumOverUploads("csca")
                      /\ summary.seen = certBy => csca = SumOverUploads("csca")
    BY DEF SummaryAddsUp
<1> DEFINE A == {x \in Held : summary.seen[x].as = "CSCA"}
           X == OfType("CSCA")
           parts == summary.csca.selfSigned + summary.csca.link
<1>1. /\ \A x \in Held : summary.seen[x] \in {NoCertRow, certBy[x]}
      /\ summary.ml <= SumFunction([u \in Bulk |-> Cardinality(EntriesOfKind(u, "list"))])
      /\ summary.verdicts \subseteq verdicts
    BY DEF BulkInv, SummaryFits
<1>2. PICK C \in SUBSET Held : parts = Cardinality(C) /\ C \subseteq X /\ A \subseteq C
    BY DEF BulkInv, SummaryFits, OfType
<1>3. IsFiniteSet(C) /\ IsFiniteSet(X) /\ X \subseteq Held
    BY BulkIsFinite, FS_Subset DEF OfType
<1>4. summary.seen = certBy => A = X
    BY DEF OfType
<1>5. \A r \in summary.verdicts : HasCert(r.cert)
    BY <1>1 DEF BulkInv, VerdictsCame
<1> HIDE DEF A, X, parts
<1>6. Cardinality(A) <= parts
    BY <1>2, <1>3, FS_Subset
<1>7. Cardinality(A) <= Cardinality(X)
    <2>1. A \subseteq X
        BY <1>2
    <2> QED
        BY <1>3, <2>1, FS_Subset
<1>8. summary.seen = certBy => Cardinality(A) = parts
    <2>1. summary.seen = certBy => A = C
        BY <1>2, <1>4
    <2>2. summary.seen = certBy => Cardinality(A) = Cardinality(C)
        BY <2>1
    <2> QED
        BY <1>2, <2>2
<1>9. summary.seen = certBy => Cardinality(A) = Cardinality(X)
    BY <1>4
<1>10. (\A u \in Bulk : Settled(u) /\ ~OfRetry(u)) => SumOverUploads("csca") = Cardinality(X)
    BY UploadsSum DEF X
<1> QED
    BY <1>1, <1>5, <1>6, <1>7, <1>8, <1>9, <1>10 DEF A, parts

\* What holds all the time.
LEMMA BulkAlways == BulkSpec => []BulkInv
<1>1. BulkInit => BulkInv
    BY BulkStarts
<1>2. BulkInv /\ [BulkNext]_bulkVars => BulkInv'
    BY BulkGoesOn
<1> QED
    BY <1>1, <1>2, PTL DEF BulkSpec

\* The numbers in the row of a completed upload are those of the certificates, CRLs and
\* lists it brought: a retry, other uploads, and a recount from the tables in the end
\* (processLdifFileAsync) lose none and count none twice.
THEOREM UploadCountsItsRows == BulkSpec => []CountsAreRows
<1>1. BulkInv => CountsAreRows
    BY CountsHold
<1> QED
    BY <1>1, BulkAlways, PTL

\* What an upload says of its verdicts (ValidationStatistics, updateStatistics) is what
\* the rows of validation_result say, and every entry with a certificate is accounted for.
THEOREM UploadCountsItsVerdicts == BulkSpec => []VerdictsAddUp
<1>1. BulkInv => VerdictsAddUp
    BY VerdictsAreSummed
<1> QED
    BY <1>1, BulkAlways, PTL

\* getStatisticsSummary, read by several statements while uploads run, names no more
\* certificates than their breakdown has and no more lists than were uploaded; when all
\* are through, its number of CSCA is the sum over their rows.
THEOREM SummaryIsSum == BulkSpec => []SummaryAddsUp
<1>1. BulkInv => SummaryAddsUp
    BY SummaryHolds
<1> QED
    BY <1>1, BulkAlways, PTL
=============================================================================
