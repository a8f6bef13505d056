------------------------- MODULE CertificateSearch -------------------------
(***************************************************************************)
(* Reading the stores (pkd-management): the search for certificates in the *)
(* directory or in the database, page by page; the report of the           *)
(* non-conformant signers and that of the CRLs; the archive of a country   *)
(* and that of everything. A certificate comes in through a file of        *)
(* entries, a master list or alone, and each way classifies it by itself;  *)
(* the readers work out from the row where in the directory it must be.    *)
(*                                                                         *)
(* A request reads the stores many times, and they change between two     *)
(* reads: certificates arrive, and the rows of an upload are deleted (its  *)
(* entries stay). Requests change nothing but the audit log, so one at a   *)
(* time is enough. No certificate begins or ends while one runs.           *)
(***************************************************************************)
EXTENDS Integers, Sequences, FiniteSets, Functions, SequencesExt

CONSTANTS
    Universes,  \* sets of items, one of which arrives
    Queries,    \* what clients search for
    ReportBatch, \* entries the report asks for at a time (200 in the code)
    PageSize,   \* certificates a client asks for at a time
    ReportLimit, \* CRLs that a report reads (1000)
    MaxReadFaults \* bound: searches that fail

\* An item is a certificate, a CRL or a master list. names: how subject and issuer
\* compare; ca, sign: the CA flag and keyCertSign; verifies: with its own key; eku: the
\* extended key usage; nc: an entry below dc=nc-data of its file. The ids of CRLs are in the
\* order of country and date, the latest first.
StoreItems ==
    [kind : {"cert"}, id : Nat, country : STRING, names : {"same", "case", "different"},
     ca : BOOLEAN, sign : BOOLEAN, verifies : BOOLEAN, eku : {"none", "ml", "dl"},
     nc : BOOLEAN, serial : Nat, period : STRING]
    \cup [kind : {"crl", "ml"}, id : Nat, country : STRING]

ASSUME SearchAssumption ==
    /\ \A U \in Universes : /\ U \subseteq StoreItems /\ IsFiniteSet(U)
                            /\ \A x, y \in U : x.id = y.id => x = y
    /\ {ReportBatch, PageSize, ReportLimit} \subseteq Nat \ {0}

VARIABLES
    coming,     \* items that have not arrived
    certRows,   \* certificate, oldest first
    crlRows,    \* crl
    directory,  \* the entries, oldest first
    reader,     \* the request that runs
    readFaults

searchVars == <<coming, certRows, crlRows, directory, reader, readFaults>>

NoJob == [kind |-> "none"]

SearchInit ==
    /\ coming \in Universes
    /\ certRows = <<>> /\ crlRows = <<>> /\ directory = <<>>
    /\ reader = NoJob
    /\ readFaults = 0

ReadFault == readFaults < MaxReadFaults /\ readFaults' = readFaults + 1

-----------------------------------------------------------------------------
(* What a certificate is, to each way in                                   *)

\* X509_NAME_cmp, which ignores case.
isSelfSigned(c) == c.names # "different"

\* The flags are only read once the certificate has verified with its own key.
ReadsAsCa(c) == isSelfSigned(c) /\ c.verifies /\ c.ca /\ c.sign

\* The type in the database and, where it differs, that in the directory.
LdifType(c) ==
    IF c.names = "same" THEN <<"CSCA", "CSCA">>
    ELSE IF c.nc THEN <<"DSC_NC", "DSC_NC">>
    ELSE IF ReadsAsCa(c) THEN <<"CSCA", "LC">>
    ELSE <<"DSC", "DSC">>

ListType(c) == <<"CSCA", IF isSelfSigned(c) THEN "CSCA" ELSE "LC">>

detectType(c) ==
    CASE c.eku = "ml" -> "MLSC"
      [] c.eku = "dl" -> "DL_SIGNER"
      [] c.eku = "none" /\ c.ca /\ c.sign -> IF isSelfSigned(c) THEN "CSCA" ELSE "LINK_CERT"
      [] OTHER -> "DSC"

FileType(c) ==
    LET type == detectType(c)
    IN  CASE type = "LINK_CERT" -> <<"CSCA", "LC">>
          [] type = "DL_SIGNER" -> <<"DSC", "DSC">>
          [] OTHER -> <<type, type>>

TypeBy(way, c) ==
    CASE way = "ldif" -> LdifType(c) [] way = "list" -> ListType(c) [] way = "file" -> FileType(c)

\* Where an entry is: below nc-data or data, and in which o=.
buildCertificateDnV2(type) ==
    CASE type = "CSCA" -> <<"data", "csca">> [] type = "LC" -> <<"data", "lc">>
      [] type = "MLSC" -> <<"data", "mlsc">> [] type = "DSC_NC" -> <<"nc-data", "dsc">>
      [] OTHER -> <<"data", "dsc">>

Entry(item, place) == [item |-> item, tree |-> place[1], o |-> place[2]]

-----------------------------------------------------------------------------
(* The stores                                                              *)

InsertRow(c, way) ==
    /\ c \in coming /\ c.kind = "cert"
    /\ coming' = coming \ {c}
    /\ certRows' = Append(certRows, [item |-> c, way |-> way, type |-> TypeBy(way, c)[1],
                             selfSigned |-> isSelfSigned(c), stored |-> FALSE])
    /\ reader' = IF reader.kind = "source" /\ reader.pc = "counted" THEN [reader EXCEPT !.disturbed = TRUE] ELSE reader
    /\ UNCHANGED <<crlRows, directory, readFaults>>

\* The uploader adds the entry, then the flag of the row is set.
PublishRow(i) ==
    /\ ~certRows[i].stored
    /\ certRows' = [certRows EXCEPT ![i].stored = TRUE]
    /\ directory' = Append(directory,
           Entry(certRows[i].item, buildCertificateDnV2(TypeBy(certRows[i].way, certRows[i].item)[2])))
    /\ UNCHANGED <<coming, crlRows, reader, readFaults>>

StoreCrl(c) ==
    /\ c \in coming /\ c.kind = "crl"
    /\ coming' = coming \ {c}
    /\ crlRows' = Append(crlRows, c)
    /\ directory' = Append(directory, Entry(c, <<"data", "crl">>))
    /\ UNCHANGED <<certRows, reader, readFaults>>

\* Mutant of buildDn: link certificates are CSCAs.
DnWithoutLinks(r) ==
    IF r.type = "CSCA" THEN <<"data", "csca">>
    ELSE IF r.type = "DSC_NC" THEN <<"nc-data", "dsc">> ELSE <<"data", "dsc">>

\* The relay works the place out from the row, for those that were left.
buildDn(r) ==
    IF r.type = "CSCA" THEN <<"data", IF r.selfSigned THEN "csca" ELSE "lc">>
    ELSE IF r.type = "DSC_NC" THEN <<"nc-data", "dsc">> ELSE <<"data", "dsc">>

RelayPublish(i) ==
    /\ ~certRows[i].stored /\ certRows[i].type \in {"CSCA", "DSC"}
    /\ certRows' = [certRows EXCEPT ![i].stored = TRUE]
    /\ directory' = Append(directory, Entry(certRows[i].item, buildDn(certRows[i])))
    /\ UNCHANGED <<coming, crlRows, reader, readFaults>>

\* A master list has no row.
StoreList(c) ==
    /\ c \in coming /\ c.kind = "ml"
    /\ coming' = coming \ {c}
    /\ directory' = Append(directory, Entry(c, <<"data", "ml">>))
    /\ UNCHANGED <<certRows, crlRows, reader, readFaults>>

\* The rows of an upload are deleted (here one at a time). Its entries stay.
RowsGo ==
    /\ reader' = IF reader.kind = "none" THEN reader ELSE [reader EXCEPT !.disturbed = TRUE]
    /\ UNCHANGED <<coming, directory, readFaults>>
DeleteRow(i) == certRows' = RemoveAt(certRows, i) /\ RowsGo /\ UNCHANGED crlRows
DeleteCrl(i) == crlRows' = RemoveAt(crlRows, i) /\ RowsGo /\ UNCHANGED certRows

-----------------------------------------------------------------------------
(* The search in the directory                                             *)

\* A query is a country, a type and a validity, and of the database a source; "" asks for any.
Query(country, type, validity) == [country |-> country, type |-> type, validity |-> validity, way |-> ""]

Folder(type) ==
    CASE type = "CSCA" -> "csca" [] type = "MLSC" -> "mlsc" [] type = "CRL" -> "crl"
      [] type = "ML" -> "ml" [] OTHER -> "dsc"

\* The o= component is only used together with a country.
getSearchBaseDn(q, e) ==
    /\ e.tree = IF q.type = "DSC_NC" THEN "nc-data" ELSE "data"
    /\ q.country # "" => e.item.country = q.country
    /\ q.country # "" /\ q.type # "" => e.o = Folder(q.type)

extractCertTypeFromDn(e) ==
    CASE e.o \in {"csca", "lc"} -> "CSCA" [] e.o = "mlsc" -> "MLSC"
      [] e.o = "dsc" -> IF e.tree = "nc-data" THEN "DSC_NC" ELSE "DSC"
      [] e.o = "crl" -> "CRL" [] e.o = "ml" -> "ML"

\* A master list is under another attribute, and a CRL is no certificate.
getCertificateBinary(e) == e.item.kind # "ml"
parseX509Certificate(item) == item.kind = "cert"
parseEntry(e) == getCertificateBinary(e) /\ parseX509Certificate(e.item)

\* As PEM an entry has to be a certificate, as DER only to have contents.
exportCertificateFile(e, format) == getCertificateBinary(e) /\ (format = "pem" => parseEntry(e))

\* The places of the entries that the server returns, and of those that are listed.
Found(q) == {i \in DOMAIN directory : getSearchBaseDn(q, directory[i])}
Matching(q) ==
    {i \in Found(q) : LET e == directory[i]
                      IN  /\ q.country = "" /\ q.type # "" => extractCertTypeFromDn(e) = q.type
                          /\ parseEntry(e)
                          /\ q.validity # "" => e.item.period = q.validity}

\* A listing is a set of numbers, in ascending order; a page, those after the first ones.
Rank(K, k) == Cardinality({j \in K : j <= k})
Slice(K, offset, limit) == {k \in K : Rank(K, k) \in (offset + 1) .. (offset + limit)}

\* Mutant of searchLdap: an entry at the offset counts as before it.
SearchOneTooFar(q, offset, limit) ==
    [list |-> Slice(Matching(q), offset + 1, limit), total |-> Cardinality(Matching(q))]

\* The total counts what cannot be listed unless there is a filter.
searchLdap(q, offset, limit) ==
    [list |-> Slice(Matching(q), offset, limit),
     total |-> IF (q.country = "" /\ q.type # "") \/ q.validity # ""
               THEN Cardinality(Matching(q)) ELSE Cardinality(Found(q))]

\* The rows of the database with a source, newest first: by their places, negated.
RowsFound(q) ==
    {-i : i \in {j \in DOMAIN certRows :
        /\ certRows[j].way = q.way
        /\ q.country # "" => certRows[j].item.country = q.country
        /\ q.type # "" => certRows[j].type = q.type}}
searchDb(q, offset, limit) ==
    [list |-> Slice(RowsFound(q), offset, limit), total |-> Cardinality(RowsFound(q))]

\* The report of CRLs reads the first ones, by country and date, and pages what the filter
\* leaves.
CrlWithId(k) == CHOOSE c \in ToSet(crlRows) : c.id = k
findAllCrls == Slice({c.id : c \in ToSet(crlRows)}, 0, ReportLimit)
CrlsFound(q) == {k \in findAllCrls : q.country # "" => CrlWithId(k).country = q.country}
handleCrlReport(q, offset, limit) ==
    [list |-> Slice(CrlsFound(q), offset, limit), total |-> Cardinality(CrlsFound(q))]

Page(walk) ==
    CASE walk.kind = "source" -> searchDb(walk.query, walk.offset, PageSize)
      [] walk.kind = "crls" -> handleCrlReport(walk.query, walk.offset, PageSize)
      [] walk.kind = "search" -> searchLdap(walk.query, walk.offset, PageSize)
      [] walk.kind = "report" -> searchLdap(walk.query, walk.offset, ReportBatch)

\* What the numbers of a listing stand for.
ItemAt(kind, k) ==
    CASE kind = "source" -> certRows[-k].item [] kind = "crls" -> CrlWithId(k) [] OTHER -> directory[k].item
ItemsOf(kind, K) == {ItemAt(kind, k) : k \in K}

-----------------------------------------------------------------------------
(* A walk over the pages of a listing                                      *)

\* What the listing would show if it were read at once.
Listing(kind, q) ==
    CASE kind = "source" -> RowsFound(q) [] kind = "crls" -> CrlsFound(q) [] OTHER -> Matching(q)

\* shown: how many were shown, seen: which.
StartWalk(kind, q) ==
    /\ reader.kind = "none"
    /\ reader' = [kind |-> kind, query |-> q, offset |-> 0, seen |-> {}, shown |-> 0, total |-> 0,
                  before |-> ItemsOf(kind, Listing(kind, q)), disturbed |-> FALSE, pc |-> "reading"]
    /\ UNCHANGED <<coming, certRows, crlRows, directory, readFaults>>

\* The report stops at a short batch, a client when it has as many as there are.
LastPage(walk, page) ==
    IF walk.kind = "report"
    THEN Cardinality(page.list) < ReportBatch \/ walk.offset + ReportBatch >= page.total
    ELSE walk.offset + PageSize >= page.total

\* The database counts with one statement and reads the page with another.
CountPage ==
    /\ reader.kind = "source" /\ reader.pc = "reading"
    /\ reader' = [reader EXCEPT !.pc = "counted", !.total = Page(reader).total]
    /\ UNCHANGED <<coming, certRows, crlRows, directory, readFaults>>

NextPage ==
    /\ reader.kind \in {"report", "search", "source", "crls"}
    /\ reader.pc = IF reader.kind = "source" THEN "counted" ELSE "reading"
    /\ LET read == Page(reader)
           page == [read EXCEPT !.total = IF reader.kind = "source" THEN reader.total ELSE @]
       IN  reader' = [reader EXCEPT
                       !.seen = @ \cup ItemsOf(reader.kind, page.list),
                       !.shown = @ + Cardinality(page.list),
                       !.offset = @ + IF reader.kind = "report" THEN ReportBatch ELSE PageSize,
                       !.pc = IF LastPage(reader, page) THEN "done" ELSE "reading"]
    /\ UNCHANGED <<coming, certRows, crlRows, directory, readFaults>>

\* The answer is an error, and what was read is dropped.
WalkFails ==
    /\ reader.kind \in {"report", "search", "source"} /\ reader.pc \in {"reading", "counted"}
    /\ ReadFault
    /\ reader' = [reader EXCEPT !.pc = "failed"]
    /\ UNCHANGED <<coming, certRows, crlRows, directory>>

\* The report of CRLs takes a search that failed for one that found none.
CrlsUnread ==
    /\ reader.kind = "crls" /\ reader.pc = "reading"
    /\ ReadFault
    /\ reader' = [reader EXCEPT !.pc = "done", !.disturbed = TRUE]
    /\ UNCHANGED <<coming, certRows, crlRows, directory>>

-----------------------------------------------------------------------------
(* The archive of a country: the names first, then entry by entry          *)

\* Two entries of one name are one file: the later one is kept.
AddFile(files, name, item) ==
    {f \in files : f.name # name} \cup {[name |-> name, item |-> item]}

getDnsByCountryAndType(country) == Found(Query(country, "", ""))

\* todo: the places of the entries that are still to be read.
StartCountry(country, format) ==
    /\ reader.kind = "none"
    /\ LET places == getDnsByCountryAndType(country)
       IN  reader' = [kind |-> "country", format |-> format, todo |-> places, files |-> {},
                     lost |-> {}, disturbed |-> FALSE, before |-> ItemsOf("country", places),
                     pc |-> IF places = {} THEN "failed" ELSE "reading"]
    /\ UNCHANGED <<coming, certRows, crlRows, directory, readFaults>>

generateCertificateFilename(e) ==
    <<e.item.country, extractCertTypeFromDn(e), e.item.serial>>

CountryStep == reader.kind = "country" /\ reader.pc = "reading" /\ reader.todo # {}

\* The entry whose turn it is.
FirstTodo == Min(reader.todo)
EntryInTurn == directory[FirstTodo]

ZipEntry ==
    /\ CountryStep
    /\ reader' = [reader EXCEPT
                    !.todo = @ \ {FirstTodo},
                    !.files = IF exportCertificateFile(EntryInTurn, reader.format)
                              THEN AddFile(@, IF parseEntry(EntryInTurn) THEN generateCertificateFilename(EntryInTurn)
                                              ELSE <<EntryInTurn.item.id>>, EntryInTurn.item)
                              ELSE @]
    /\ UNCHANGED <<coming, certRows, crlRows, directory, readFaults>>

\* Mutant of ZipEntryFails: the first failure ends the loop.
ZipStops ==
    /\ CountryStep
    /\ ReadFault
    /\ reader' = [reader EXCEPT !.todo = {}, !.lost = @ \cup {EntryInTurn.item}]
    /\ UNCHANGED <<coming, certRows, crlRows, directory>>

\* An entry that could not be read is left out.
ZipEntryFails ==
    /\ CountryStep
    /\ ReadFault
    /\ reader' = [reader EXCEPT !.todo = @ \ {FirstTodo}, !.lost = @ \cup {EntryInTurn.item}]
    /\ UNCHANGED <<coming, certRows, crlRows, directory>>

\* An entry whose name could not be made has its DN for a name.
NameFails ==
    /\ CountryStep
    /\ exportCertificateFile(EntryInTurn, reader.format)
    /\ reader' = [reader EXCEPT !.todo = @ \ {FirstTodo},
                                !.files = AddFile(@, <<EntryInTurn.item.id>>, EntryInTurn.item)]
    /\ ReadFault
    /\ UNCHANGED <<coming, certRows, crlRows, directory>>

CloseZip ==
    /\ reader.kind = "country" /\ reader.pc = "reading" /\ reader.todo = {}
    /\ reader' = [reader EXCEPT !.pc = IF reader.files = {} THEN "failed" ELSE "done"]
    /\ UNCHANGED <<coming, certRows, crlRows, directory, readFaults>>

-----------------------------------------------------------------------------
(* The archive of everything: three reads, of two stores                   *)

ExportFolder(r) ==
    IF r.type = "DSC_NC" THEN <<"nc-data", "dsc">>
    ELSE <<"data", CASE r.type = "DSC" -> "dsc" [] r.type = "MLSC" -> "mlsc"
                     [] r.type = "CSCA" /\ ~r.selfSigned -> "lc" [] OTHER -> "csca">>

findAllForExport == {certRows[i] : i \in {j \in DOMAIN certRows : certRows[j].stored}}

\* The checklist of a certificate reads it from the directory.
checklistPlace(r) ==
    <<IF r.type = "DSC_NC" THEN "nc-data" ELSE "data",
      CASE r.type = "CSCA" -> "csca" [] r.type = "MLSC" -> "mlsc" [] OTHER -> "dsc">>

StartExport ==
    /\ reader.kind = "none"
    /\ reader' = [kind |-> "all", files |-> {Entry(r.item, ExportFolder(r)) : r \in findAllForExport},
               before |-> {r.item : r \in findAllForExport}, disturbed |-> FALSE, pc |-> "crls"]
    /\ UNCHANGED <<coming, certRows, crlRows, directory, readFaults>>

ExportCrls ==
    /\ reader.kind = "all" /\ reader.pc = "crls"
    /\ reader' = [reader EXCEPT !.files = @ \cup {Entry(c, <<"data", "crl">>) : c \in ToSet(crlRows)},
                          !.pc = "lists"]
    /\ UNCHANGED <<coming, certRows, crlRows, directory, readFaults>>

\* Without a connection the archive is made without the lists.
ExportLists(found) ==
    /\ reader.kind = "all" /\ reader.pc = "lists"
    /\ LET files == reader.files \cup found
       IN  reader' = [reader EXCEPT !.files = files, !.pc = IF files = {} THEN "failed" ELSE "done"]

ListsFound ==
    /\ ExportLists({e \in ToSet(directory) : e.tree = "data" /\ e.item.kind = "ml"})
    /\ UNCHANGED <<coming, certRows, crlRows, directory, readFaults>>

ListsNotFound ==
    /\ ExportLists({})
    /\ ReadFault
    /\ UNCHANGED <<coming, certRows, crlRows, directory>>

EndJob ==
    /\ reader.kind # "none" /\ reader.pc \in {"done", "failed"}
    /\ reader' = NoJob
    /\ UNCHANGED <<coming, certRows, crlRows, directory, readFaults>>

-----------------------------------------------------------------------------
SearchNext ==
    \/ \E c \in coming :
        \/ \E way \in {"ldif", "list", "file"} : InsertRow(c, way)
        \/ StoreCrl(c) \/ StoreList(c)
    \/ \E i \in DOMAIN certRows : PublishRow(i) \/ RelayPublish(i) \/ DeleteRow(i)
    \/ \E i \in DOMAIN crlRows : DeleteCrl(i)
    \/ \E q \in Queries : StartWalk("search", q) \/ StartWalk("crls", q)
    \/ StartWalk("report", Query("", "DSC_NC", ""))
    \/ \E q \in Queries, way \in {"ldif", "list", "file"} : StartWalk("source", [q EXCEPT !.way = way])
    \/ CountPage \/ NextPage \/ WalkFails \/ CrlsUnread
    \/ \E item \in coming \cup {e.item : e \in ToSet(directory)}, format \in {"der", "pem"} :
        StartCountry(item.country, format)
    \/ ZipEntry \/ ZipEntryFails \/ NameFails \/ CloseZip
    \/ StartExport \/ ExportCrls \/ ListsFound \/ ListsNotFound
    \/ EndJob

SearchSpec == SearchInit /\ [][SearchNext]_searchVars

-----------------------------------------------------------------------------
(* Properties                                                              *)

\* A listing that is read page by page while the stores grow shows all that was there when
\* the reading began. In the directory nothing is shown twice. Of the database (newest
\* first) something is only missed when rows were deleted, when one came between the
\* count and the page, when a search for CRLs failed, or when there are more of them than
\* the report reads.
WalkMissesNothing ==
    reader.kind \in {"report", "search", "source", "crls"} =>
        /\ reader.kind \in {"report", "search"} => Cardinality(reader.seen) = reader.shown
        /\ \/ reader.pc # "done"
           \/ reader.before \subseteq reader.seen
           \/ reader.kind \in {"source", "crls"} /\ reader.disturbed
           \/ reader.kind = "crls" /\ Len(crlRows) > ReportLimit

\* The archive of a country has every certificate that was there when it was begun, but
\* those whose entry could not be read and those with a namesake (same country, type and
\* beginning of the serial number) whose file replaced theirs. CRLs are only in it as DER.
\* The archive of everything has what the rows said was published when it was begun, and
\* nothing that the directory does not have, at the place where the directory has it
\* (where the link certificates of a file of entries differ only in case, under csca).
ArchivesAreComplete ==
    reader.kind \in {"country", "all"} /\ reader.pc = "done" =>
        LET archived == {f.item : f \in reader.files}
        IN  IF reader.kind = "country"
            THEN \A e \in {d \in ToSet(directory) : d.item \in reader.before} :
                \/ e.item \in archived \cup reader.lost
                \/ e.item.kind = "ml"
                \/ e.item.kind = "crl" /\ reader.format = "pem"
                \/ \E f \in reader.files : f.item # e.item /\ f.name = generateCertificateFilename(e)
            ELSE /\ reader.before \subseteq archived
                 /\ \A f \in reader.files : \E e \in ToSet(directory) :
                        e.item = f.item /\ (e = f \/ (f.item.names = "case" /\ e.o = "lc"))

\* What was there when a reader began is among what it was given, by page or in an archive.
ReadingIsComplete == WalkMissesNothing /\ ArchivesAreComplete

\* A certificate whose names differ only in case is a CSCA that a file of entries publishes
\* as a link certificate, where its row says it signs itself.
CaseOnly(r) == r.way = "ldif" /\ r.type = "CSCA" /\ r.item.names = "case"

\* The places worked out from a row (by the relay, by the archive of everything and by the
\* checklist) are where the uploader has put the entry, and the search gives the entry
\* the type of the row. The checklist does not look for link certificates.
PathsAgree ==
    \A i \in DOMAIN certRows : certRows[i].stored =>
        LET r == certRows[i]
            e == CHOOSE d \in ToSet(directory) : d.item = r.item
            place == <<e.tree, e.o>>
        IN  /\ extractCertTypeFromDn(e) = r.type
            /\ \/ ExportFolder(r) = place /\ (r.type # "MLSC" => buildDn(r) = place)
               \/ CaseOnly(r) /\ e.o = "lc"
            /\ checklistPlace(r) = place \/ e.o = "lc"
=============================================================================
