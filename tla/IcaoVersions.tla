---------------------------- MODULE IcaoVersions ----------------------------
(***************************************************************************)
(* The watch over the versions the ICAO portal publishes                   *)
(* (icao_sync_service.cpp of pkd-management). A check reads the portal,    *)
(* compares with the table icao_pkd_versions, inserts what is new, one row *)
(* at a time, and marks it as notified. A timer and HTTP requests start    *)
(* checks, which nothing keeps apart but the unique keys of the table.     *)
(* The status page compares the newest row of each collection with the     *)
(* upload of that collection that completed last.                          *)
(*                                                                         *)
(* No LDIF upload has a batch open meanwhile (LdifBatch models what a      *)
(* statement of another request meets there). The relay's copy of the      *)
(* service (src/relay/icao) is not built.                                  *)
(***************************************************************************)
EXTENDS Integers, Sequences, FiniteSets, Functions, FiniteSetsExt, SequencesExt

CONSTANTS
    Collection,    \* DSC_CRL, MASTERLIST, DSC_NC in the order of the parser: a sequence
    FirstVersion,  \* the version every collection has at the beginning
    LastVersion,   \* bound: the last version published; at most two digits
    MaxPublished,  \* bound: versions published meanwhile, of all collections
    Check,         \* the timer and the HTTP requests that start a check
    Columns,       \* {TRUE}: the table has the columns notification_sent etc. (Oracle's schema);
                   \* {FALSE}: it has not (PostgreSQL's)
    MaxUploads,    \* bound: uploads of all collections
    MaxFaults      \* bound: statements or requests that fail

ASSUME IcaoAssumption ==
    /\ IsInjective(Collection)
    /\ FirstVersion \in Nat \ {0} /\ LastVersion \in Nat /\ LastVersion < 100

Types == Range(Collection)
Versions == FirstVersion .. LastVersion
VersionRow == [type : Types, version : Versions]
Blank == [u \in Types |-> 0]
Idle == [pc |-> "idle", remote |-> Blank, todo |-> {}, new |-> {}, saved |-> TRUE]

VARIABLES
    portal,    \* the version the portal shows for each collection
    versions,  \* the rows of icao_pkd_versions
    notified,  \* those with status NOTIFIED; the others are DETECTED
    columns,   \* the schema of the table
    check,     \* the checks that run
    uploaded,  \* uploads that completed: the version in the file's name, 0 for another name
    reported,  \* for the properties: how often each version was reported as new
    faults

icaoVars == <<portal, versions, notified, columns, check, uploaded, reported, faults>>

IcaoInit ==
    /\ portal = [t \in Types |-> FirstVersion]
    /\ versions = {}
    /\ notified = {}
    /\ columns \in Columns
    /\ check = [k \in Check |-> Idle]
    /\ uploaded = [t \in Types |-> <<>>]
    /\ reported = [v \in VersionRow |-> 0]
    /\ faults = 0

IcaoFault == faults < MaxFaults /\ faults' = faults + 1

-----------------------------------------------------------------------------
(* A check                                                                 *)

\* The parser finds the version of every collection and lists them in its order;
\* here they are a function, and sets of collections are gone through in order.
Remote(k, t) == [type |-> t, version |-> check[k].remote[t]]
Place(t) == CHOOSE i \in DOMAIN Collection : Collection[i] = t
InOrder(k) == {t \in check[k].todo : \A u \in check[k].todo : Place(t) <= Place(u)}

Fetch(k) ==
    /\ check[k].pc = "idle"
    /\ check' = [check EXCEPT ![k].pc = "read", ![k].remote = portal]
    /\ UNCHANGED <<portal, versions, notified, columns, uploaded, reported, faults>>

\* The portal does not answer, or its page shows no version: the check fails.
FetchFails(k) ==
    /\ check[k].pc = "idle"
    /\ IcaoFault
    /\ UNCHANGED <<portal, versions, notified, columns, check, uploaded, reported>>

\* The rows that getAllVersions returns: none when the query fails, which it
\* always does when it names columns that the table lacks.
AllVersions(ok) == IF columns /\ ok THEN versions ELSE {}

findNewVersions(k, local) == {t \in Types : Remote(k, t) \notin local}

Compare(k) ==
    /\ check[k].pc = "read"
    /\ \E ok \in BOOLEAN :
           /\ IF ok THEN UNCHANGED faults ELSE IcaoFault
           /\ LET new == findNewVersions(k, AllVersions(ok))
              IN  check' = [check EXCEPT ![k].todo = new, ![k].new = new,
                                         ![k].pc = IF new = {} THEN "uptodate" ELSE "exists"]
    /\ UNCHANGED <<portal, versions, notified, columns, uploaded, reported>>

\* Mutant of Advance: a failed insert does not make the check fail.
AdvanceAnyway(k, t, inserted) ==
    LET rest == check[k].todo \ {t}
    IN  check' = [check EXCEPT
            ![k].todo = IF rest # {} THEN rest ELSE check[k].new,
            ![k].pc = IF rest # {} THEN "exists" ELSE "notify"]

\* The loop of saveNewVersions goes on after a version that was not inserted.
\* After the last one the check fails or goes through the new versions again,
\* to mark them as notified.
Advance(k, t, inserted) ==
    LET rest == check[k].todo \ {t}
        all  == check[k].saved /\ inserted
    IN  check' = [check EXCEPT
            ![k].todo = IF rest = {} /\ all THEN check[k].new ELSE rest,
            ![k].saved = all,
            ![k].pc = IF rest # {} THEN "exists" ELSE IF all THEN "notify" ELSE "failed"]

\* The query before the insert: a version that is there is not inserted. A
\* query that fails counts as "not there".
Exists(k, t) ==
    /\ check[k].pc = "exists" /\ t \in InOrder(k)
    /\ \/ /\ Remote(k, t) \in versions
          /\ Advance(k, t, FALSE)
          /\ UNCHANGED faults
       \/ /\ IF Remote(k, t) \in versions THEN IcaoFault ELSE UNCHANGED faults
          /\ check' = [check EXCEPT ![k].pc = "insert"]
    /\ UNCHANGED <<portal, versions, notified, columns, uploaded, reported>>

\* The unique keys refuse what another check inserted in between.
InsertVersion(k, t) ==
    /\ check[k].pc = "insert" /\ t \in InOrder(k)
    /\ \/ /\ Remote(k, t) \notin versions
          /\ versions' = versions \cup {Remote(k, t)}
          /\ Advance(k, t, TRUE)
          /\ UNCHANGED faults
       \/ /\ IF Remote(k, t) \in versions THEN UNCHANGED faults ELSE IcaoFault
          /\ Advance(k, t, FALSE)
          /\ UNCHANGED versions
    /\ UNCHANGED <<portal, notified, columns, uploaded, reported>>

\* The notification: an update for each version, which fails without the columns.
Notify(k, t) ==
    /\ check[k].pc = "notify" /\ t \in InOrder(k)
    /\ \E ok \in BOOLEAN :
           /\ IF ok \/ ~columns THEN UNCHANGED faults ELSE IcaoFault
           /\ notified' = IF ok /\ columns THEN notified \cup {Remote(k, t)} ELSE notified
    /\ check' = [check EXCEPT ![k].todo = @ \ {t}]
    /\ UNCHANGED <<portal, versions, columns, uploaded, reported>>

\* The caller gets the result: the new versions, "up to date", or a failure.
Answer(k) ==
    /\ \/ /\ check[k].pc = "notify" /\ check[k].todo = {}
          /\ reported' = [v \in VersionRow |->
                 IF \E t \in check[k].new : v = Remote(k, t) THEN reported[v] + 1 ELSE reported[v]]
       \/ check[k].pc \in {"uptodate", "failed"} /\ UNCHANGED reported
    /\ check' = [check EXCEPT ![k] = Idle]
    /\ UNCHANGED <<portal, versions, notified, columns, uploaded, faults>>

\* pkd-management stops and starts again: the checks are gone.
IcaoRestart ==
    /\ IcaoFault
    /\ check' = [k \in Check |-> Idle]
    /\ UNCHANGED <<portal, versions, notified, columns, uploaded, reported>>

-----------------------------------------------------------------------------
(* The portal and the uploads                                              *)

Publish(t) ==
    /\ portal[t] < LastVersion
    /\ SumFunction(portal) < MaxPublished + FirstVersion * Cardinality(Types)
    /\ portal' = [portal EXCEPT ![t] = @ + 1]
    /\ UNCHANGED <<versions, notified, columns, check, uploaded, reported, faults>>

\* A file of the collection is uploaded: one of the portal's, of any version
\* so far, or another one that contains objects of that kind (0).
UploadFile(t) ==
    /\ SumFunction([u \in Types |-> Len(uploaded[u])]) < MaxUploads
    /\ \E v \in {0} \cup (FirstVersion .. portal[t]) :
           uploaded' = [uploaded EXCEPT ![t] = Append(@, v)]
    /\ UNCHANGED <<portal, versions, notified, columns, check, reported, faults>>

IcaoNext ==
    \/ \E k \in Check :
           \/ Fetch(k) \/ FetchFails(k) \/ Compare(k) \/ Answer(k)
           \/ \E t \in Types : Exists(k, t) \/ InsertVersion(k, t) \/ Notify(k, t)
    \/ \E t \in Types : Publish(t) \/ UploadFile(t)
    \/ IcaoRestart

IcaoSpec == IcaoInit /\ [][IcaoNext]_icaoVars

-----------------------------------------------------------------------------
(* The status page                                                         *)

\* file_version is a VARCHAR without leading zeros: its order is that of the
\* decimal digits from the left, and a prefix comes first.
Digits(v) == IF v < 10 THEN <<v, -1>> ELSE <<v \div 10, v % 10>>
LexBefore(v, w) ==
    \/ Digits(v)[1] < Digits(w)[1]
    \/ Digits(v)[1] = Digits(w)[1] /\ Digits(v)[2] < Digits(w)[2]

Detected(t) == {r.version : r \in {x \in versions : x.type = t}}

\* ORDER BY file_version DESC, the first row of each collection.
DetectedVersion(t) == CHOOSE v \in Detected(t) : \A w \in Detected(t) : v = w \/ LexBefore(w, v)

\* The upload that completed last, and the version in its name.
UploadedVersion(t) == IF uploaded[t] = <<>> THEN 0 ELSE Last(uploaded[t])

Status(t) ==
    IF UploadedVersion(t) = 0 THEN "NOT_UPLOADED"
    ELSE IF DetectedVersion(t) > UploadedVersion(t) THEN "UPDATE_NEEDED"
    ELSE "UP_TO_DATE"

-----------------------------------------------------------------------------

(* A version is reported as new at most once, however many checks overlap:  *)
(* a check that reports it has inserted it (icao_sync_service.cpp:152-172). *)
ReportedOnce == \A v \in VersionRow : reported[v] <= 1

(* A check that answers with success, "up to date" or not, read a page whose *)
(* versions are all in the table (:61, :66-72), whatever failed before.      *)
SuccessMeansStored ==
    \A k \in Check : check[k].pc \in {"uptodate", "notify"} =>
        \A t \in Types : Remote(k, t) \in versions

(* While the versions of a collection have the same number of digits, "up to *)
(* date" is said only when the file uploaded last is as new as every version *)
(* the table has (icao_handler.cpp:181-194, icao_version_repository.cpp:361). *)
UpToDateIsTrue ==
    \A t \in Types :
        /\ Detected(t) # {} /\ Status(t) = "UP_TO_DATE"
        /\ \A v, w \in Detected(t) : v < 10 <=> w < 10
        => \A v \in Detected(t) : UploadedVersion(t) >= v

(* The comment of getLatest, "latest version for each collection type"       *)
(* (icao_version_repository.h:62). TLC refutes it: the                       *)
(* column is text, so that 9 comes after 10.                                 *)
LatestIsNewest ==
    \A t \in Types : Detected(t) # {} => \A v \in Detected(t) : DetectedVersion(t) >= v

(* The workflow of icao_sync_service.h:20-25: what was saved as new is        *)
(* notified. TLC refutes it: when one insert fails, or two                   *)
(* checks divide the versions between them, no check reports the rows that    *)
(* were inserted, and the next check does not take them for new.              *)
SavedIsReported ==
    (\A k \in Check : check[k].pc = "idle") => \A v \in versions : reported[v] > 0

(* The message of a check that finds nothing new, "System is up to date"      *)
(* (icao_sync_service.cpp:64). TLC refutes it: without the                   *)
(* columns every version is new to every check, and the inserts fail.         *)
NothingNewIsSuccess ==
    \A k \in Check : check[k].pc = "failed" /\ faults = 0 /\ Cardinality(Check) = 1 =>
        \E t \in Types : Remote(k, t) \notin versions

(* The message "No upload found for this collection"                          *)
(* (icao_handler.cpp:187). TLC refutes it: a single                          *)
(* certificate uploaded later hides the collection that was uploaded.         *)
NotUploadedIsTrue ==
    \A t \in Types : Detected(t) # {} /\ Status(t) = "NOT_UPLOADED" => \A v \in Range(uploaded[t]) : v = 0
=============================================================================
