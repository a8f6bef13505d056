--------------------------- MODULE Reconciliation ---------------------------
(***************************************************************************)
(* Keeping the LDAP directory in step with the database.                   *)
(*                                                                         *)
(* Two services write both stores with no transaction across them.         *)
(* pkd-management uploads a certificate: it inserts the row, adds the LDAP *)
(* entry and then sets stored_in_ldap.  pkd-relay's ReconciliationEngine   *)
(* reads a batch of unflagged rows, searches the directory for each, adds  *)
(* what is missing and sets the flag.  A run is started by the daily       *)
(* scheduler or by any number of HTTP requests, with no mutual exclusion.  *)
(*                                                                         *)
(* Every call to the database or the directory is one step, so the steps   *)
(* of runs and uploads interleave; each call may fail in the way the code  *)
(* handles; either service may crash between two calls.                    *)
(***************************************************************************)
EXTENDS Naturals, FiniteSets

CONSTANTS Row,         \* row identities, ordered as ORDER BY id orders them
          Attr,        \* what a row holds: type, country, fp and selfSigned
          Runner,      \* threads that call performReconciliation
          BatchSize,   \* maxReconcileBatchSize
          MaxUploads,  \* rows pkd-management publishes at once
          MaxCrashes   \* bound on the crashes of either service

RowType == {"CSCA", "DSC", "DSC_NC", "MLSC", "CRL"}

\* chk_certificate_type; a crl row is one more type, and is never self-signed.
ASSUME AttrAssumption ==
    /\ Row \subseteq Nat
    /\ \A c \in Row : Attr[c].type \in RowType /\ Attr[c].selfSigned \in BOOLEAN
ASSUME BoundAssumption ==
    BatchSize \in Nat \ {0} /\ MaxUploads \in Nat /\ MaxCrashes \in Nat

VARIABLES
    db,          \* row -> "fresh", "unstored", "stored" or "deleted"
    entries,     \* DNs of the certificate and CRL entries in the directory
    containers,  \* country entries and the o= entries below them
    upload,      \* row -> where pkd-management's upload of it is
    run,         \* runner -> local state of performReconciliation
    summary,     \* runner -> its latest reconciliation_summary row
    log,         \* runner -> that run's reconciliation_log rows
    crashes      \* crashes so far

store == <<db, entries, containers>>
vars == <<db, entries, containers, upload, run, summary, log, crashes>>

-----------------------------------------------------------------------------
(* The directory tree: c=<country> below a data container, o=<ou> below    *)
(* the country, the entry below that.                                      *)

Tree(c) == IF Attr[c].type = "DSC_NC" THEN "nc-data" ELSE "data"

Ou(c) ==
    CASE Attr[c].type = "CSCA" -> IF Attr[c].selfSigned THEN "csca" ELSE "lc"
      [] Attr[c].type = "CRL"  -> "crl"
      [] Attr[c].type = "MLSC" -> "mlsc"
      [] OTHER                 -> "dsc"

Country(c) == <<Tree(c), Attr[c].country>>
Org(c) == <<Tree(c), Attr[c].country, Ou(c)>>
Dn(c) == <<Tree(c), Attr[c].country, Ou(c), Attr[c].fp>>
Cert(c) == <<Attr[c].type, Attr[c].fp>>

\* The o= entries pkd-management creates along with a new country.
Ous == {"csca", "dsc", "lc", "mlsc", "crl"}
CountryOrgs(c) ==
    {<<Tree(c), Attr[c].country, o>> :
        o \in IF Tree(c) = "nc-data" THEN {"dsc"} ELSE Ous}

RowState == {"fresh", "unstored", "stored", "deleted"}
Live(c) == db[c] \in {"unstored", "stored"}

-----------------------------------------------------------------------------
(* The local state of a run.                                               *)

Phases == <<"CSCA", "DSC", "CRL">>   \* DSC_NC and MLSC are not reconciled
RunPc == {"idle", "acquire", "find", "search",
          "country", "org", "add", "mark", "log", "finish"}

RunState == [pc : RunPc, phase : 1..4, dry : BOOLEAN,
             todo : SUBSET Row,     \* rows read, not yet searched in LDAP
             work : SUBSET Row,     \* rows found missing, not yet processed
             good : BOOLEAN,        \* the outcome for the row in hand
             ok : Nat, failed : Nat]

Idle == [pc |-> "idle", phase |-> 1, dry |-> FALSE, todo |-> {}, work |-> {},
         good |-> FALSE, ok |-> 0, failed |-> 0]

Verdict == {"NONE", "IN_PROGRESS", "COMPLETED", "PARTIAL", "FAILED"}
Summary == [status : Verdict, dry : BOOLEAN, ok : Nat, failed : Nat]
LogRow == Row \X {"SUCCESS", "FAILED"}

First(S) == {c \in S : \A d \in S : c <= d}

\* SELECT ... WHERE certificate_type = $1 AND stored_in_ldap = FALSE
\* ORDER BY id LIMIT $2
Unstored(t) == {c \in Row : Attr[c].type = t /\ db[c] = "unstored"}
Batch(S) == {c \in S : Cardinality({d \in S : d < c}) < BatchSize}

\* Mutant of NextPhase: CRLs are never reached.
NextPhaseForgetsCrls(q) ==
    [q EXCEPT !.phase = q.phase + 1,
              !.pc = IF q.phase >= 2 THEN "finish" ELSE "find"]

NextPhase(q) ==
    [q EXCEPT !.phase = q.phase + 1,
              !.pc = IF q.phase = 3 THEN "finish" ELSE "find"]

\* Mutant of NextItem: the outcome of the row before is kept.
NextItemKeepsGood(q) ==
    IF q.work = {} THEN NextPhase(q)
    ELSE [q EXCEPT !.pc = IF q.dry THEN "log" ELSE "country", !.good = q.dry \/ q.good]

\* The head of the loop over the missing rows of a phase.
NextItem(q) ==
    IF q.work = {} THEN NextPhase(q)
    ELSE [q EXCEPT !.pc = IF q.dry THEN "log" ELSE "country", !.good = q.dry]

\* The end of one search in the loop over the rows read.
Searched(q, c, missing) ==
    LET s == [q EXCEPT !.todo = q.todo \ {c},
                       !.work = IF missing THEN q.work \cup {c} ELSE q.work]
    IN IF s.todo = {} THEN NextItem(s) ELSE s

\* The end of one iteration of the loop over the missing rows.
Processed(q, c) ==
    NextItem([q EXCEPT !.work = q.work \ {c},
                       !.ok = IF q.good THEN q.ok + 1 ELSE q.ok,
                       !.failed = IF q.good THEN q.failed ELSE q.failed + 1])

\* Mutant of Outcome: one success makes the run a success.
OutcomeNeverPartial(q) == IF q.failed = 0 \/ q.ok > 0 THEN "COMPLETED" ELSE "FAILED"

Outcome(q) ==
    IF q.failed = 0 THEN "COMPLETED" ELSE IF q.ok = 0 THEN "FAILED" ELSE "PARTIAL"

-----------------------------------------------------------------------------
Init ==
    /\ db = [c \in Row |-> "fresh"]
    /\ entries = {}
    /\ containers = {}
    /\ upload = [c \in Row |-> "none"]
    /\ run = [r \in Runner |-> Idle]
    /\ summary = [r \in Runner |->
                    [status |-> "NONE", dry |-> FALSE, ok |-> 0, failed |-> 0]]
    /\ log = [r \in Runner |-> {}]
    /\ crashes = 0

-----------------------------------------------------------------------------
(* pkd-relay: one run of performReconciliation.                            *)

Become(r, q) ==
    /\ run' = [run EXCEPT ![r] = q]
    /\ UNCHANGED <<upload, crashes>>

Goto(r, l) == Become(r, [run[r] EXCEPT !.pc = l])

\* createReconciliationSummary succeeded (when it fails nothing is changed).
StartRun(r, dry) ==
    /\ run[r].pc = "idle"
    /\ Become(r, [Idle EXCEPT !.pc = "acquire", !.dry = dry])
    /\ summary' = [summary EXCEPT ![r] =
                     [status |-> "IN_PROGRESS", dry |-> dry, ok |-> 0, failed |-> 0]]
    /\ log' = [log EXCEPT ![r] = {}]
    /\ UNCHANGED store

Acquire(r) ==
    /\ run[r].pc = "acquire"
    /\ Goto(r, "find")
    /\ UNCHANGED <<store, summary, log>>

\* The early return: the summary row keeps the status it was created with.
AcquireFails(r) ==
    /\ run[r].pc = "acquire"
    /\ Become(r, Idle)
    /\ UNCHANGED <<store, summary, log>>

Find(r) ==
    LET found == Batch(Unstored(Phases[run[r].phase]))
    IN /\ run[r].pc = "find"
       /\ found # {}
       /\ Become(r, [run[r] EXCEPT !.pc = "search", !.todo = found])
       /\ UNCHANGED <<store, summary, log>>

FindNothing(r) ==
    /\ run[r].pc = "find"
    /\ Batch(Unstored(Phases[run[r].phase])) = {}
    /\ Become(r, NextPhase(run[r]))
    /\ UNCHANGED <<store, summary, log>>

\* The query throws, or the pool has no second LDAP connection for the
\* search: the caller gets an empty list and goes on to the next type.
FindFails(r) ==
    /\ run[r].pc = "find"
    /\ Batch(Unstored(Phases[run[r].phase])) # {}
    /\ Become(r, NextPhase(run[r]))
    /\ UNCHANGED <<store, summary, log>>

Search(r, c) ==
    /\ run[r].pc = "search"
    /\ c \in First(run[r].todo)
    /\ Become(r, Searched(run[r], c, Dn(c) \notin entries))
    /\ UNCHANGED <<store, summary, log>>

\* Any other result code leaves a missing row out of the batch (for a row that
\* is not missing it does what finding the entry does).
SearchFails(r, c) ==
    /\ run[r].pc = "search"
    /\ c \in First(run[r].todo)
    /\ Dn(c) \notin entries
    /\ Become(r, Searched(run[r], c, FALSE))
    /\ UNCHANGED <<store, summary, log>>

\* Mutant of EnsureCountry: the o= entry is forgotten.
EnsureCountryOnly(r, c) ==
    /\ run[r].pc = "country"
    /\ c \in First(run[r].work)
    /\ containers' = containers \cup {Country(c)}
    /\ Goto(r, "add")
    /\ UNCHANGED <<db, entries, summary, log>>

\* createEntryIfNotExists of c=<country>: an entry that exists is success.
EnsureCountry(r, c) ==
    /\ run[r].pc = "country"
    /\ c \in First(run[r].work)
    /\ containers' = containers \cup {Country(c)}
    /\ Goto(r, "org")
    /\ UNCHANGED <<db, entries, summary, log>>

EnsureOrg(r, c) ==
    /\ run[r].pc = "org"
    /\ c \in First(run[r].work)
    /\ Country(c) \in containers
    /\ containers' = containers \cup {Org(c)}
    /\ Goto(r, "add")
    /\ UNCHANGED <<db, entries, summary, log>>

\* ldap_add_ext_s; LDAP_ALREADY_EXISTS counts as success.
Add(r, c) ==
    /\ run[r].pc = "add"
    /\ c \in First(run[r].work)
    /\ Org(c) \in containers
    /\ entries' = entries \cup {Dn(c)}
    /\ Become(r, [run[r] EXCEPT !.pc = "mark", !.good = TRUE])
    /\ UNCHANGED <<db, containers, summary, log>>

\* Mutant of WriteFails: the result of the write is not looked at.
WriteFailsUnnoticed(r) ==
    /\ run[r].pc \in {"country", "org", "add"}
    /\ Goto(r, "mark")
    /\ UNCHANGED <<store, summary, log>>

WriteFails(r) ==
    /\ run[r].pc \in {"country", "org", "add"}
    /\ Goto(r, "log")
    /\ UNCHANGED <<store, summary, log>>

\* UPDATE ... WHERE id = $1, which matches no row once the row is deleted.
Mark(r, c) ==
    /\ run[r].pc = "mark"
    /\ c \in First(run[r].work)
    /\ db' = IF Live(c) THEN [db EXCEPT ![c] = "stored"] ELSE db
    /\ Goto(r, "log")
    /\ UNCHANGED <<entries, containers, summary, log>>

\* The exception is swallowed; the row still counts as a success.
MarkFails(r, c) ==
    /\ run[r].pc = "mark"
    /\ c \in First(run[r].work)
    /\ db[c] = "unstored"
    /\ Goto(r, "log")
    /\ UNCHANGED <<store, summary, log>>

\* logReconciliationOperation (an insert that may fail) and the counters.
Record(r, c, written) ==
    /\ run[r].pc = "log"
    /\ c \in First(run[r].work)
    /\ log' = IF written
              THEN [log EXCEPT ![r] = @ \cup
                      {<<c, IF run[r].good THEN "SUCCESS" ELSE "FAILED">>}]
              ELSE log
    /\ Become(r, Processed(run[r], c))
    /\ UNCHANGED <<store, summary>>

Finish(r) ==
    /\ run[r].pc = "finish"
    /\ summary' = [summary EXCEPT ![r] =
                     [status |-> Outcome(run[r]), dry |-> run[r].dry,
                      ok |-> run[r].ok, failed |-> run[r].failed]]
    /\ Become(r, Idle)
    /\ UNCHANGED <<store, log>>

\* updateReconciliationSummary swallows its exception.
FinishFails(r) ==
    /\ run[r].pc = "finish"
    /\ Become(r, Idle)
    /\ UNCHANGED <<store, summary, log>>

RunStep(r) ==
    \/ Acquire(r) \/ Find(r) \/ FindNothing(r) \/ Finish(r)
    \/ \E c \in Row :
         \/ Search(r, c)
         \/ EnsureCountry(r, c) \/ EnsureOrg(r, c) \/ Add(r, c) \/ Mark(r, c)
         \/ \E written \in BOOLEAN : Record(r, c, written)

\* A call to the database, the directory or the pool that fails.
RunFault(r) ==
    \/ AcquireFails(r) \/ FindFails(r) \/ WriteFails(r)
    \/ FinishFails(r)
    \/ \E c \in Row : SearchFails(r, c) \/ MarkFails(r, c)

\* pkd-relay stops: its threads are gone, what they wrote stays.
RelayCrash ==
    /\ crashes < MaxCrashes
    /\ crashes' = crashes + 1
    /\ run' = [r \in Runner |-> Idle]
    /\ UNCHANGED <<store, upload, summary, log>>

-----------------------------------------------------------------------------
(* pkd-management: one certificate or CRL of an upload, and its deletion.  *)

UploadPc == {"none", "country", "create", "orgs", "add", "mark"}

UploadGoto(c, l) ==
    /\ upload' = [upload EXCEPT ![c] = l]
    /\ UNCHANGED <<run, summary, log, crashes>>

CanUpload == Cardinality({c \in Row : upload[c] # "none"}) < MaxUploads

\* Mutant of Insert: the unique index is missing.
InsertUnchecked(c, ldapUp) ==
    /\ db[c] = "fresh"
    /\ ldapUp => CanUpload
    /\ db' = [db EXCEPT ![c] = "unstored"]
    /\ UploadGoto(c, IF ldapUp THEN "country" ELSE "none")
    /\ UNCHANGED <<entries, containers>>

\* A new row; with no LDAP connection (DB-only mode, or the DSC that
\* pa-service registers) the upload ends here.
Insert(c, ldapUp) ==
    /\ db[c] = "fresh"
    /\ \A d \in Row : Live(d) => Cert(d) # Cert(c)
    /\ ldapUp => CanUpload
    /\ db' = [db EXCEPT ![c] = "unstored"]
    /\ UploadGoto(c, IF ldapUp THEN "country" ELSE "none")
    /\ UNCHANGED <<entries, containers>>

\* A duplicate keeps the existing row and publishes it again.
InsertDuplicate(c) ==
    /\ Live(c)
    /\ upload[c] = "none"
    /\ CanUpload
    /\ UploadGoto(c, "country")
    /\ UNCHANGED store

\* ensureCountryOuExists: when the search finds the country nothing below it
\* is looked at; the o= entries are created only along with a new country.
UploadCountry(c) ==
    /\ upload[c] = "country"
    /\ UploadGoto(c, IF Country(c) \in containers THEN "add" ELSE "create")
    /\ UNCHANGED store

UploadCreateCountry(c) ==
    /\ upload[c] = "create"
    /\ containers' = containers \cup {Country(c)}
    /\ UploadGoto(c, "orgs")
    /\ UNCHANGED <<db, entries>>

\* The search or the add failed: saveCertificateToLdap only warns.
UploadCountryFails(c) ==
    /\ \/ upload[c] = "country" /\ Country(c) \notin containers
       \/ upload[c] = "create"
    /\ UploadGoto(c, "add")
    /\ UNCHANGED store

\* Each add may fail on its own, which is only logged.
UploadOrgs(c) ==
    /\ upload[c] = "orgs"
    /\ \E made \in SUBSET CountryOrgs(c) : containers' = containers \cup made
    /\ UploadGoto(c, "add")
    /\ UNCHANGED <<db, entries>>

UploadAdd(c) ==
    /\ upload[c] = "add"
    /\ Org(c) \in containers
    /\ entries' = entries \cup {Dn(c)}
    /\ UploadGoto(c, "mark")
    /\ UNCHANGED <<db, containers>>

\* LDAP_NO_SUCH_OBJECT: the parent is missing.
UploadAddRefused(c) ==
    /\ upload[c] = "add"
    /\ Org(c) \notin containers
    /\ UploadGoto(c, "none")
    /\ UNCHANGED store

UploadAddFails(c) ==
    /\ upload[c] = "add"
    /\ Org(c) \in containers
    /\ UploadGoto(c, "none")
    /\ UNCHANGED store

UploadMark(c) ==
    /\ upload[c] = "mark"
    /\ db' = IF Live(c) THEN [db EXCEPT ![c] = "stored"] ELSE db
    /\ UploadGoto(c, "none")
    /\ UNCHANGED <<entries, containers>>

\* Also what a lost batch transaction comes to.
UploadMarkFails(c) ==
    /\ upload[c] = "mark"
    /\ db[c] = "unstored"
    /\ UploadGoto(c, "none")
    /\ UNCHANGED store

\* DELETE FROM uploaded_file cascades to the rows; LDAP is not touched.
DeleteUpload(c) ==
    /\ Live(c)
    /\ db' = [db EXCEPT ![c] = "deleted"]
    /\ UNCHANGED <<entries, containers, upload, run, summary, log, crashes>>

StartUpload(c) == InsertDuplicate(c) \/ \E ldapUp \in BOOLEAN : Insert(c, ldapUp)

UploadStep(c) ==
    \/ UploadCountry(c) \/ UploadCreateCountry(c) \/ UploadOrgs(c)
    \/ UploadAdd(c) \/ UploadAddRefused(c) \/ UploadMark(c)

UploadFault(c) == UploadCountryFails(c) \/ UploadAddFails(c) \/ UploadMarkFails(c)

ManagementCrash ==
    /\ crashes < MaxCrashes
    /\ crashes' = crashes + 1
    /\ upload' = [c \in Row |-> "none"]
    /\ UNCHANGED <<store, run, summary, log>>

-----------------------------------------------------------------------------
Next ==
    \/ \E r \in Runner : RunStep(r) \/ RunFault(r) \/ \E dry \in BOOLEAN : StartRun(r, dry)
    \/ \E c \in Row : StartUpload(c) \/ UploadStep(c) \/ UploadFault(c) \/ DeleteUpload(c)
    \/ RelayCrash \/ ManagementCrash

Spec == Init /\ [][Next]_vars

-----------------------------------------------------------------------------
(* Properties.                                                             *)

\* Every variable stays within its type.
TypeOK ==
    /\ db \in [Row -> RowState]
    /\ entries \subseteq {Dn(c) : c \in Row}
    /\ containers \subseteq {Country(c) : c \in Row} \cup UNION {CountryOrgs(c) : c \in Row}
    /\ upload \in [Row -> UploadPc]
    /\ run \in [Runner -> RunState]
    /\ summary \in [Runner -> Summary]
    /\ log \in [Runner -> SUBSET LogRow]
    /\ crashes \in 0..MaxCrashes

\* A row flagged stored_in_ldap has its entry in the directory, whoever set
\* the flag and whatever failed, crashed or was deleted on the way.  The
\* bulk export and the relay's search for missing rows both trust the flag.
StoredIsPublished == \A c \in Row : db[c] = "stored" => Dn(c) \in entries

\* When the relay adds an entry both parents exist (ensureParentDnExists), so
\* LDAP never refuses it for want of a parent, also when pkd-management is
\* half way through creating the same country.
ParentsReady ==
    \A r \in Runner : run[r].pc = "add" =>
        \A c \in First(run[r].work) : {Country(c), Org(c)} \subseteq containers

\* The audit trail does not lie: a row that reconciliation_log records as
\* added by a run that was not a dry run is in the directory.
LogIsTruthful ==
    \A r \in Runner : \A c \in Row :
        /\ <<c, "SUCCESS">> \in log[r]
        /\ ~summary[r].dry
        => Dn(c) \in entries

\* The verdict in a finished summary agrees with the run's log rows: nothing
\* failed in a COMPLETED run, nothing succeeded in a FAILED one, and a row
\* was not both added and failed.
SummaryAgreesWithLog ==
    \A r \in Runner :
        LET logged(o) == {c \in Row : <<c, o>> \in log[r]}
        IN /\ summary[r].status = "COMPLETED" => logged("FAILED") = {}
           /\ summary[r].status = "FAILED" => logged("SUCCESS") = {}
           /\ logged("SUCCESS") \cap logged("FAILED") = {}

\* A dry run changes neither store: whatever step it takes, rows, entries
\* and containers stay as they were.
DryRunChangesNothing ==
    [][\A r \in Runner :
        (run[r].dry /\ run[r].pc # "idle" /\ run'[r] # run[r]) => UNCHANGED store]_vars

\* The two services together implement the abstract store.
Store == INSTANCE PkdStore
ImplementsStore == Store!Spec

\* Liveness.  The threads of both services run, the scheduler starts a run
\* again and again, and at some time the services stop crashing and the
\* database and the directory stop failing.  Nothing is assumed of new
\* uploads, deletions and dry runs.
Fault ==
    \/ RelayCrash \/ ManagementCrash
    \/ \E r \in Runner : RunFault(r)
    \/ \E c \in Row : UploadFault(c)

Fairness ==
    /\ \A r \in Runner : WF_vars(RunStep(r)) /\ SF_vars(StartRun(r, FALSE))
    /\ \A c \in Row : WF_vars(UploadStep(c))
    /\ <>[][~Fault]_vars

FairSpec == Spec /\ Fairness

\* Every unflagged row of a reconciled type reaches the directory, unless its
\* upload is deleted first ("The reconciliation engine syncs them to LDAP
\* later", processing_strategy.h).
EventuallyPublished ==
    \A c \in Row : (db[c] = "unstored" /\ Attr[c].type \in {"CSCA", "DSC", "CRL"})
                    ~> (Dn(c) \in entries \/ db[c] = "deleted")

\* ensureCountryOuExists: "Ensure country organizational unit and sub-OUs
\* exist in LDAP" (ldap_storage_service.h): when it reports success for a
\* country it found, the o= entries below the country exist.
CountryHasOrgs ==
    [][\A c \in Row : (UploadCountry(c) /\ upload'[c] = "add")
            => CountryOrgs(c) \subseteq containers]_vars
=============================================================================
