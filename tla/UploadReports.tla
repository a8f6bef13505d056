---------------------------- MODULE UploadReports ----------------------------
(***************************************************************************)
(* What the program says of an upload: counters kept in memory while its   *)
(* thread works (ProcessingCounts, ValidationStatistics), the numbers that *)
(* are written into its row of uploaded_file, and the statistics that are  *)
(* read back from the tables later.                                        *)
(*                                                                         *)
(* LDIF files are processed entry by entry (LdifProcessor), in batches     *)
(* that take the numbers along; master list files by processMasterListFile *)
(* the first time and by processMasterListFileAsync when they are retried. *)
(* What becomes of the batches' transactions is in LdifBatch, who may work *)
(* on an upload and when it may be retried in UploadJobs, and how a        *)
(* verdict comes about in TrustChain.                                      *)
(***************************************************************************)
EXTENDS Integers, Sequences, FiniteSets, Functions, Selection

CONSTANTS Bulk,         \* uploads
          KindOf,       \* of each certificate: "CSCA", "LC", "DSC", "DSC_NC" or "MLSC"
          CrlId,        \* the CRLs
          Bundles,      \* what may be uploaded: a file for each upload
          Verdicts,     \* bound: the verdicts there may be
          BulkDbs,      \* the databases the program may run on
          MaxMishaps    \* bound: statements that fail by themselves, threads that stop early

Held == DOMAIN KindOf

\* A list file has one entry. The items of an entry are one certificate, one CRL, or the
\* signers ("MLSC") and the certificates of a master list, of which there are some; a
\* broken entry does not decode or parse.
BulkEntry ==
    [kind : {"cert"}, items : {<<x>> : x \in {y \in Held : KindOf[y] # "MLSC"}}]
    \cup [kind : {"crl"}, items : {<<l>> : l \in CrlId}]
    \cup [kind : {"list"}, items : Seq(Held) \ {<<>>}]
    \cup [kind : {"broken"}, items : {<<>>}]
BulkFile == [asList : BOOLEAN, entries : Seq(BulkEntry) \ {<<>>}]
ASSUME HeldAssumption == KindOf \in [Held -> {"CSCA", "LC", "DSC", "DSC_NC", "MLSC"}]
ASSUME BulkAssumption == "none" \notin Bulk
ASSUME BulkIsFinite == IsFiniteSet(Bulk) /\ IsFiniteSet(Held) /\ IsFiniteSet(CrlId)
ASSUME VerdictsAssumption ==
    Verdicts \subseteq [status : {"EXPIRED_VALID", "INVALID", "PENDING"}, expired : BOOLEAN]
                       \cup [status : {"VALID"}, expired : {FALSE}]
ASSUME BundlesAssumption ==
    /\ Bundles \subseteq [Bulk -> BulkFile]
    /\ \A b \in Bundles, u \in Bulk :
           b[u].asList => Len(b[u].entries) = 1 /\ b[u].entries[1].kind = "list"

VARIABLES bulkDb, fileOf,
          uploadRow,  \* uploaded_file: status, counts and what was validated
          certBy,     \* certificate: upload_id and certificate_type
          crlBy,      \* crl: upload_id
          verdicts,   \* validation_result: certificate, upload_id, the verdict
          mem,        \* each upload's thread
          summary,    \* getStatisticsSummary, from one statement to the next
          mishaps

tables == <<uploadRow, certBy, crlBy, verdicts>>
bulkVars == <<bulkDb, fileOf, tables, mem, summary, mishaps>>

NoCertRow == [by |-> "none", as |-> "none"]
HasCert(x) == certBy[x] # NoCertRow

CountKey == {"csca", "dsc", "dscNc", "crl", "ml", "mlsc"}
LiveKey == {"total", "valid", "expiredValid", "invalid", "pending", "duplicate", "error",
            "chainValid", "chainInvalid", "notFound", "expired", "inPeriod"}
\* What updateStatistics of the ValidationRepository writes: expired-valid has no column.
StoredKey == LiveKey \ {"total", "expiredValid", "duplicate"}
Zeros(keys) == [k \in keys |-> 0]
Bump(f, keys) == [k \in DOMAIN f |-> IF k \in keys THEN f[k] + 1 ELSE f[k]]

BulkInit ==
    /\ bulkDb \in BulkDbs
    /\ fileOf \in Bundles
    /\ uploadRow = [u \in Bulk |-> [status |-> "PENDING", counts |-> Zeros(CountKey), stored |-> Zeros(StoredKey)]]
    /\ certBy = [x \in Held |-> NoCertRow]
    /\ crlBy = [l \in CrlId |-> "none"]
    /\ verdicts = {}
    /\ mem = [u \in Bulk |-> [pc |-> "idle"]]
    /\ summary = [pc |-> "idle"]
    /\ mishaps = 0

Mishap == mishaps < MaxMishaps /\ mishaps' = mishaps + 1
NoMishap == UNCHANGED mishaps

-----------------------------------------------------------------------------
(* The thread of an upload                                                 *)

IsListFile(u) == fileOf[u].asList

\* A retried list file is read in another way: the certificates that it lists, or the
\* signers if there are none.
ReadAgain(entry) ==
    LET listed == Only(entry.items, {x \in Held : KindOf[x] # "MLSC"})
    IN  [entry EXCEPT !.items = IF listed = <<>> THEN @ ELSE listed]
EntriesOf(u) == IF IsListFile(u) /\ mem[u].again THEN <<ReadAgain(fileOf[u].entries[1])>> ELSE fileOf[u].entries

CurrentEntry(u) == EntriesOf(u)[mem[u].at]
ThisItem(u) == CurrentEntry(u).items[mem[u].sub]

NoVerdict == [status |-> "none", expired |-> FALSE]

\* An upload begins, or begins again from the start: nothing is kept in memory.
StartUpload(u) ==
    /\ \/ mem[u].pc = "idle"
       \/ mem[u].pc = "stopped" /\ uploadRow[u].status = "FAILED"
    /\ mem' = [mem EXCEPT ![u] =
           [pc |-> "item", at |-> 1, sub |-> 1, counts |-> Zeros(CountKey), live |-> Zeros(LiveKey),
            again |-> mem[u].pc = "stopped", verdict |-> NoVerdict, slipped |-> FALSE,
            listed |-> 0, listedTwice |-> 0, early |-> 0, recount |-> "none"]]
    /\ uploadRow' = [uploadRow EXCEPT ![u].status = "PROCESSING"]
    /\ UNCHANGED <<bulkDb, fileOf, certBy, crlBy, verdicts, summary>> /\ NoMishap

\* To the next item; after the last one a list is counted and the batch is committed.
Onward(m, u) ==
    IF m.sub < Len(CurrentEntry(u).items) THEN [m EXCEPT !.sub = @ + 1, !.pc = "item"]
    ELSE [m EXCEPT !.sub = 1, !.pc = "commit",
                   !.counts = IF CurrentEntry(u).kind = "list" THEN Bump(@, {"ml"}) ELSE @]

\* Mutant of AfterEntries: the numbers in memory are written.
AfterEntriesAtOnce(m, u) == "status"

\* After the last entry: with duplicates the numbers of an LDIF file are taken from the tables.
AfterEntries(m, u) ==
    IF ~IsListFile(u) /\ m.live["duplicate"] > 0 THEN "recount" ELSE "status"

\* Every 500 entries of an LDIF file, and after its last one; here after each entry.
CommitEntries(u) ==
    LET last == mem[u].at = Len(EntriesOf(u))
    IN  /\ mem[u].pc = "commit"
        /\ uploadRow' = IF IsListFile(u) THEN uploadRow ELSE [uploadRow EXCEPT ![u].counts = mem[u].counts]
        /\ mem' = [mem EXCEPT ![u].pc = IF last THEN AfterEntries(mem[u], u) ELSE "item",
                              ![u].at = IF last THEN @ ELSE @ + 1]
        /\ UNCHANGED <<bulkDb, fileOf, certBy, crlBy, verdicts, summary>> /\ NoMishap

-----------------------------------------------------------------------------
(* parseCertificateEntry                                                   *)

StoredAs(x) == IF KindOf[x] = "LC" THEN "CSCA" ELSE KindOf[x]
CountOf(type) ==
    CASE type = "CSCA" -> "csca" [] type = "DSC" -> "dsc" [] type = "DSC_NC" -> "dscNc" [] type = "MLSC" -> "mlsc"

\* The verdicts there may be; one on a CSCA does not look at its period.
VerdictsOn(x) ==
    {v \in Verdicts : KindOf[x] = "CSCA" => v.status \in {"VALID", "INVALID"} /\ ~v.expired}
ChainIsValid(v) == v.status \in {"VALID", "EXPIRED_VALID"}

StatusKey(v) ==
    CASE v.status = "VALID" -> "valid" [] v.status = "EXPIRED_VALID" -> "expiredValid"
      [] v.status = "INVALID" -> "invalid" [] v.status = "PENDING" -> "pending"
ChainKey(v) ==
    IF ChainIsValid(v) THEN "chainValid" ELSE IF v.status = "INVALID" THEN "chainInvalid" ELSE "notFound"
PeriodKey(v) == IF v.expired THEN {"expired"} ELSE IF ChainIsValid(v) THEN {"inPeriod"} ELSE {}

LiveOf(v) == {"total", StatusKey(v), ChainKey(v)} \cup PeriodKey(v)

\* Counted before it is saved. One that was there when the file came is passed over.
ParseCertificate(u) ==
    LET x == ThisItem(u)
        m == mem[u]
    IN  /\ m.pc = "item" /\ CurrentEntry(u).kind = "cert"
        /\ IF HasCert(x)
           THEN mem' = [mem EXCEPT ![u] =
                    Onward([m EXCEPT !.live = Bump(@, {"duplicate"}), !.early = @ + 1], u)]
           ELSE \E v \in VerdictsOn(x) :
                    mem' = [mem EXCEPT ![u] =
                        [m EXCEPT !.pc = "insert", !.verdict = v, !.live = Bump(@, LiveOf(v)),
                                  !.counts = Bump(@, {CountOf(StoredAs(x))})]]
        /\ UNCHANGED <<bulkDb, fileOf, tables, summary>> /\ NoMishap

-----------------------------------------------------------------------------
(* parseMasterListEntryV2, processMasterListFile and processMasterListFileAsync *)

InList(u) == CurrentEntry(u).kind = "list"
OfRetry(u) == IsListFile(u) /\ mem[u].again

\* A retry has a verdict of its own on each certificate, duplicate or not, and counts it
\* first. Otherwise what is new is valid, and signers have no numbers but their count.
LiveOfListed(u, x, v, new) ==
    CASE OfRetry(u) -> {"total", StatusKey(v)} \cup (IF new THEN {} ELSE {"duplicate"})
      [] ~OfRetry(u) /\ KindOf[x] = "MLSC" -> {}
      [] OTHER -> {"total", "inPeriod", IF new THEN "valid" ELSE "duplicate"}

TypeInList(u, x) == IF KindOf[x] = "MLSC" /\ ~OfRetry(u) THEN "MLSC" ELSE "CSCA"

SelfSignature(x) == IF KindOf[x] \in {"CSCA", "MLSC"} THEN {"VALID", "INVALID"} ELSE {"VALID"}

Listed_(m, u, x, new) ==
    LET on == [m EXCEPT !.live = Bump(@, LiveOfListed(u, x, m.verdict, new)),
                        !.listed = IF new /\ KindOf[x] # "MLSC" THEN @ + 1 ELSE @,
                        !.listedTwice = IF new \/ KindOf[x] = "MLSC" THEN @ ELSE @ + 1,
                        !.counts = IF new THEN Bump(@, {CountOf(TypeInList(u, x))}) ELSE @]
    IN  Onward(on, u)

\* The certificate is looked for, and inserted in another statement.
LookUpListed(u) ==
    LET x == ThisItem(u)
    IN  /\ mem[u].pc = "item" /\ InList(u)
        /\ \E s \in IF OfRetry(u) THEN SelfSignature(x) ELSE {"VALID"} :
               LET m == [mem[u] EXCEPT !.verdict = [status |-> s, expired |-> FALSE]]
               IN  mem' = [mem EXCEPT ![u] = IF HasCert(x) THEN Listed_(m, u, x, FALSE)
                                             ELSE [m EXCEPT !.pc = "insert"]]
        /\ UNCHANGED <<bulkDb, fileOf, tables, summary>> /\ NoMishap

-----------------------------------------------------------------------------
(* What is saved                                                           *)

\* A statement that fails; a retry does not count errors.
Failed_(m, u) ==
    [Onward([m EXCEPT !.live = IF OfRetry(u) THEN @ ELSE Bump(@, {"error"})], u) EXCEPT !.slipped = TRUE]

\* ON CONFLICT (certificate_id, upload_id) DO NOTHING
AddVerdict(x, u, v) ==
    IF \E r \in verdicts : r.cert = x /\ r.upload = u THEN verdicts
    ELSE verdicts \cup {[cert |-> x, upload |-> u, verdict |-> v]}

\* Of two uploads the one that comes second has a duplicate on Oracle. On PostgreSQL it
\* has one if the certificate was there when it looked once more, and fails otherwise.
InsertParsed(u) ==
    LET x == ThisItem(u)
        m == mem[u]
    IN  /\ m.pc = "insert" /\ CurrentEntry(u).kind = "cert"
        /\ \/ /\ ~HasCert(x)
              /\ certBy' = [certBy EXCEPT ![x] = [by |-> u, as |-> StoredAs(x)]]
              /\ verdicts' = AddVerdict(x, u, m.verdict)
              /\ mem' = [mem EXCEPT ![u] = Onward(m, u)] /\ NoMishap
           \/ /\ HasCert(x)
              /\ verdicts' = AddVerdict(x, u, m.verdict)
              /\ mem' = [mem EXCEPT ![u] = Onward([m EXCEPT !.live = Bump(@, {"duplicate"})], u)]
              /\ NoMishap /\ UNCHANGED certBy
           \/ /\ IF HasCert(x) THEN bulkDb = "postgres" /\ NoMishap ELSE Mishap
              /\ mem' = [mem EXCEPT ![u] = Failed_(m, u)]
              /\ UNCHANGED <<certBy, verdicts>>
        /\ UNCHANGED <<bulkDb, fileOf, uploadRow, crlBy, summary>>

\* Certificates of lists have no validation_result.
InsertListed(u) ==
    LET x == ThisItem(u)
        m == mem[u]
    IN  /\ m.pc = "insert" /\ InList(u)
        /\ \/ /\ ~HasCert(x)
              /\ certBy' = [certBy EXCEPT ![x] = [by |-> u, as |-> TypeInList(u, x)]]
              /\ mem' = [mem EXCEPT ![u] = Listed_(m, u, x, TRUE)] /\ NoMishap
           \/ /\ HasCert(x) /\ bulkDb = "oracle"
              /\ mem' = [mem EXCEPT ![u] = Listed_(m, u, x, FALSE)]
              /\ NoMishap /\ UNCHANGED certBy
           \/ /\ IF HasCert(x) THEN bulkDb = "postgres" /\ NoMishap ELSE Mishap
              /\ mem' = [mem EXCEPT ![u] = Failed_(m, u)]
              /\ UNCHANGED certBy
        /\ UNCHANGED <<bulkDb, fileOf, uploadRow, crlBy, verdicts, summary>>

\* parseCrlEntry. A CRL that is there becomes this upload's, and counts as well.
SaveParsedCrl(u) ==
    LET m == mem[u]
    IN  /\ m.pc = "item" /\ CurrentEntry(u).kind = "crl"
        /\ \/ /\ crlBy' = [crlBy EXCEPT ![ThisItem(u)] = u]
              /\ mem' = [mem EXCEPT ![u] = Onward([m EXCEPT !.counts = Bump(@, {"crl"})], u)]
              /\ NoMishap
           \/ mem' = [mem EXCEPT ![u] = Failed_(m, u)] /\ Mishap /\ UNCHANGED crlBy
        /\ UNCHANGED <<bulkDb, fileOf, uploadRow, certBy, verdicts, summary>>

\* addProcessingError, for what does not decode or does not parse.
PassBroken(u) ==
    LET m == mem[u]
    IN  /\ m.pc = "item" /\ CurrentEntry(u).kind = "broken"
        /\ mem' = [mem EXCEPT ![u] = Onward([m EXCEPT !.live = Bump(@, {"error"})], u)]
        /\ UNCHANGED <<bulkDb, fileOf, tables, summary>> /\ NoMishap

-----------------------------------------------------------------------------
(* The end of an upload                                                    *)

Owned(u, type) == {x \in Held : certBy[x] = [by |-> u, as |-> type]}
Count(u, statuses) == Cardinality({r \in verdicts : r.upload = u /\ r.verdict.status \in statuses})
CrlsOf(u) == {l \in CrlId : crlBy[l] = u}

Recounted(c, u) ==
    [c EXCEPT !["csca"] = Cardinality(Owned(u, "CSCA")), !["dsc"] = Cardinality(Owned(u, "DSC")),
              !["dscNc"] = Cardinality(Owned(u, "DSC_NC")), !["crl"] = Cardinality(CrlsOf(u))]
\* Mutant of RecountedByStatus: the counters are not set to 0 first.
RecountedOnTop(live, u) ==
    [live EXCEPT !["valid"] = @ + Count(u, {"VALID"}), !["invalid"] = @ + Count(u, {"INVALID"}),
                 !["pending"] = @ + Count(u, {"PENDING"}),
                 !["expiredValid"] = @ + Count(u, {"EXPIRED_VALID"})]
RecountedByStatus(live, u) ==
    [live EXCEPT !["valid"] = Count(u, {"VALID"}), !["invalid"] = Count(u, {"INVALID"}),
                 !["pending"] = Count(u, {"PENDING"}), !["expiredValid"] = Count(u, {"EXPIRED_VALID"})]
RecountedByChain(live, u) ==
    [live EXCEPT !["chainValid"] = Count(u, {"VALID", "EXPIRED_VALID"}),
                 !["notFound"] = Count(u, {"PENDING"}), !["chainInvalid"] = live["invalid"]]

\* "Resume mode". The chains are asked for with a literal that Oracle need not know; then,
\* and when a statement fails, what was counted so far is kept.
Recount(u) ==
    LET m == [mem[u] EXCEPT !.pc = "status"]
        byStatus == RecountedByStatus(m.live, u)
    IN  /\ mem[u].pc = "recount"
        /\ \/ /\ mem' = [mem EXCEPT ![u] = [m EXCEPT !.counts = Recounted(@, u), !.recount = "whole",
                                                      !.live = RecountedByChain(byStatus, u)]]
              /\ NoMishap
           \/ /\ mem' = [mem EXCEPT ![u] = [m EXCEPT !.counts = Recounted(@, u), !.recount = "part",
                                                      !.live = byStatus]]
              /\ bulkDb = "oracle" /\ NoMishap
           \/ mem' = [mem EXCEPT ![u] = [m EXCEPT !.slipped = TRUE]] /\ Mishap
        /\ UNCHANGED <<bulkDb, fileOf, tables, summary>>

\* The statements that end an upload. One that fails is passed over.
Write(u, pc, next, to) ==
    /\ mem[u].pc = pc
    /\ \/ uploadRow' = [uploadRow EXCEPT ![u] = to] /\ mem' = [mem EXCEPT ![u].pc = next] /\ NoMishap
       \/ UNCHANGED uploadRow /\ mem' = [mem EXCEPT ![u].pc = next, ![u].slipped = TRUE] /\ Mishap
    /\ UNCHANGED <<bulkDb, fileOf, certBy, crlBy, verdicts, summary>>

WriteStatus(u) == Write(u, "status", "counts", [uploadRow[u] EXCEPT !.status = "COMPLETED"])

\* updateUploadStatistics leaves the numbers of lists 0. A retried list counts as one list
\* with one signer.
WriteCounts(u) ==
    LET lists == IF OfRetry(u) THEN 1 ELSE 0
    IN  Write(u, "counts", IF IsListFile(u) /\ ~OfRetry(u) THEN "lists" ELSE "verdicts",
              [uploadRow[u] EXCEPT !.counts = [mem[u].counts EXCEPT !["ml"] = lists, !["mlsc"] = lists]])

WriteLists(u) ==
    Write(u, "lists", IF IsListFile(u) THEN "verdicts" ELSE "over", [uploadRow[u] EXCEPT !.counts = mem[u].counts])

WriteVerdicts(u) ==
    Write(u, "verdicts", IF IsListFile(u) THEN "over" ELSE "lists",
          [uploadRow[u] EXCEPT !.stored = [k \in StoredKey |-> mem[u].live[k]]])

\* A crash or an exception. Of an LDIF file whole batches remain; what else an exception
\* leaves behind is in LdifBatch. A retried list has its numbers set to 0 by an exception.
Stop(u) ==
    /\ mem[u].pc \notin {"idle", "over", "stopped"}
    /\ ~IsListFile(u) => mem[u].pc \notin {"insert", "commit"} /\ mem[u].sub = 1
    /\ \/ uploadRow' = [uploadRow EXCEPT ![u].status = IF @ = "PROCESSING" THEN "FAILED" ELSE @]
       \/ /\ OfRetry(u) /\ uploadRow[u].status = "PROCESSING"
          /\ uploadRow' = [uploadRow EXCEPT ![u].status = "FAILED", ![u].counts = Zeros(CountKey)]
    /\ mem' = [mem EXCEPT ![u].pc = "stopped"]
    /\ Mishap
    /\ UNCHANGED <<bulkDb, fileOf, certBy, crlBy, verdicts, summary>>

-----------------------------------------------------------------------------
(* getStatisticsSummary                                                    *)

OfType(type) == {x \in Held : certBy[x].as = type}
SumOverUploads(key) == SumFunction([u \in Bulk |-> uploadRow[u].counts[key]])

Ask(pc, next, field, value) ==
    /\ summary.pc = pc
    /\ summary' = [k \in DOMAIN summary \cup {field} |->
                      CASE k = "pc" -> next [] k = field -> value [] OTHER -> summary[k]]
    /\ UNCHANGED <<bulkDb, fileOf, tables, mem>> /\ NoMishap

\* `seen` is history: the rows of the statement.
AskCertificates == Ask("idle", "lists", "seen", certBy)
AskLists == Ask("lists", "chains", "ml", SumOverUploads("ml"))
AskVerdicts == Ask("chains", "breakdown", "verdicts", verdicts)
\* Mutant of AskBreakdown: of the rows of every type.
AskBreakdownOfAll ==
    Ask("breakdown", "done", "csca",
        [selfSigned |-> Cardinality({x \in Held : HasCert(x) /\ KindOf[x] = "CSCA"}),
         link |-> Cardinality({x \in Held : HasCert(x) /\ KindOf[x] # "CSCA"})])

\* is_self_signed of the rows of CSCA type.
AskBreakdown ==
    Ask("breakdown", "done", "csca",
        [selfSigned |-> Cardinality({x \in OfType("CSCA") : KindOf[x] = "CSCA"}),
         link |-> Cardinality({x \in OfType("CSCA") : KindOf[x] # "CSCA"})])

-----------------------------------------------------------------------------
BulkNext ==
    \/ \E u \in Bulk :
          \/ StartUpload(u) \/ ParseCertificate(u) \/ LookUpListed(u)
          \/ InsertParsed(u) \/ InsertListed(u) \/ SaveParsedCrl(u) \/ PassBroken(u)
          \/ CommitEntries(u) \/ Recount(u)
          \/ WriteStatus(u) \/ WriteCounts(u) \/ WriteLists(u) \/ WriteVerdicts(u)
          \/ Stop(u)
    \/ AskCertificates \/ AskLists \/ AskVerdicts \/ AskBreakdown

BulkSpec == BulkInit /\ [][BulkNext]_bulkVars

-----------------------------------------------------------------------------
(* Properties                                                              *)

\* The thread has come to its end and no statement of its own failed.
Settled(u) == mem[u].pc = "over" /\ ~mem[u].slipped

EntriesOfKind(u, kind) == {i \in DOMAIN fileOf[u].entries : fileOf[u].entries[i].kind = kind}
CrlEntries == UNION {{u} \X EntriesOfKind(u, "crl") : u \in Bulk}
CrlAt(p) == fileOf[p[1]].entries[p[2]].items[1]
\* None of the upload's CRLs comes twice.
CrlsAreOnce(u) ==
    \A p, q \in CrlEntries : p[1] = u /\ p # q => CrlAt(p) # CrlAt(q)

\* The numbers in the row of a completed upload are those of the rows it brought, however
\* often it stopped and was retried and whatever was uploaded beside it. A CRL that comes
\* twice may count twice, and counts for an upload it has left; the signers of lists are
\* those since the last retry; and a retried list file counts what its last try brought.
CountsAreRows ==
    \A u \in Bulk : Settled(u) =>
        LET c == uploadRow[u].counts IN
        /\ uploadRow[u].status = "COMPLETED"
        /\ ~OfRetry(u) => c["csca"] = Cardinality(Owned(u, "CSCA"))
        /\ OfRetry(u) => c["csca"] <= Cardinality(Owned(u, "CSCA"))
        /\ ~mem[u].again => c["mlsc"] = Cardinality(Owned(u, "MLSC"))
        /\ c["ml"] = Cardinality(EntriesOfKind(u, "list"))
        /\ c["dsc"] = Cardinality(Owned(u, "DSC")) /\ c["dscNc"] = Cardinality(Owned(u, "DSC_NC"))
        /\ c["crl"] >= Cardinality(CrlsOf(u))
        /\ CrlsAreOnce(u) => c["crl"] = Cardinality(CrlsOf(u))

Statuses(f) == f["valid"] + f["invalid"] + f["pending"]

\* While an upload runs each certificate it has validated counts once, for its verdict or
\* as a duplicate out of a list. What a completed LDIF upload says of its verdicts is what
\* their rows say, retried or not; certificates of lists, which have no such rows, are
\* valid, but not when the numbers were taken from the tables; and each entry with a
\* certificate is validated, a duplicate, or an error.
VerdictsAddUp ==
    \A u \in Bulk : mem[u].pc # "idle" =>
        LET m == mem[u]
            s == uploadRow[u].stored
            fromLists == IF m.recount = "none" THEN m.listed ELSE 0
        IN  /\ m.recount = "none" =>
                   m.live["total"] = Statuses(m.live) + m.live["expiredValid"]
                                     + (IF OfRetry(u) THEN 0 ELSE m.listedTwice)
            /\ Settled(u) /\ ~IsListFile(u) =>
                   /\ s["valid"] = Count(u, {"VALID"}) + fromLists
                   /\ s["invalid"] = Count(u, {"INVALID"})
                   /\ s["pending"] = Count(u, {"PENDING"})
                   /\ m.recount # "part" =>
                          /\ s["chainValid"] = Count(u, {"VALID", "EXPIRED_VALID"})
                          /\ s["notFound"] = s["pending"] /\ s["chainInvalid"] = s["invalid"]
                   /\ Cardinality(EntriesOfKind(u, "cert"))
                          = m.live["total"] - m.listed - m.listedTwice + m.early
                   /\ s["error"] = Cardinality(EntriesOfKind(u, "broken"))

\* A summary that is read while uploads run has no more CSCA in it than self-signed and
\* link certificates, as many when no certificate came in between, and no more lists than
\* there are. Once all uploads are through, its CSCA are those that their rows add up to.
SummaryAddsUp ==
    summary.pc = "done" =>
        LET csca == Cardinality({x \in Held : summary.seen[x].as = "CSCA"})
            parts == summary.csca.selfSigned + summary.csca.link
        IN  /\ csca <= parts
            /\ summary.seen = certBy => csca = parts
            /\ summary.ml <= SumFunction([u \in Bulk |-> Cardinality(EntriesOfKind(u, "list"))])
            /\ \A r \in summary.verdicts : HasCert(r.cert)
            /\ (\A u \in Bulk : Settled(u) /\ ~OfRetry(u)) =>
                   /\ csca <= SumOverUploads("csca")
                   /\ summary.seen = certBy => csca = SumOverUploads("csca")
=============================================================================
