------------------------------ MODULE CertImport ------------------------------
(***************************************************************************)
(* Certificates of master lists and of single certificate files on their   *)
(* way into the database and LDAP: processMasterListFile,                  *)
(* processSingleCertificate, and what CertificateRepository does for them  *)
(* outside a batch.                                                        *)
(*                                                                         *)
(* A master list is worked on by a thread of its own, a certificate file   *)
(* on the HTTP thread.  The two databases differ: PostgreSQL has foreign   *)
(* keys and deletes the certificates of an upload with it; the Oracle      *)
(* schema has only the unique index, and the code treats its violation as  *)
(* one more duplicate.                                                     *)
(***************************************************************************)
EXTENDS Integers, Sequences, FiniteSets

CONSTANTS Import,       \* uploads of master lists and of certificate files
          Signer,       \* certificates that sign master lists (MLSC)
          Listed,       \* what master lists list
          Contents,     \* what may be uploaded, see ContentsAssumption
          DbTypes,      \* the databases the program may run on
          MaxImportFaults  \* bound: statements that fail by themselves

\* certs are those that parse: at the first one that does not the loop ends.  body
\* is FALSE when there is no list to be found behind the signers, or no CMS at all.
ASSUME ContentsAssumption == \A f \in Contents :
    /\ f.kind \in {"list", "single"}
    /\ f.signers \in Seq(Signer) /\ f.certs \in Seq(Listed) /\ f.body \in BOOLEAN
    /\ f.body \/ f.certs = <<>>
ASSUME ImportAssumption == IsFiniteSet(Import)
ASSUME DbTypesAssumption == DbTypes \subseteq {"postgres", "oracle"}
ASSUME SignerAssumption == Signer \cap Listed = {}

Item == Signer \cup Listed

VARIABLES dbType,
          contents,   \* of each upload
          upload,     \* uploaded_file: status and csca_count
          certRow,    \* certificate: see NoCert
          ids,        \* how many rows each certificate has had; the last one's id
          tracked,    \* certificate_duplicates: certificate, its row's id, upload
          published,  \* the entries in LDAP
          cacheOn, fpCache,  \* fingerprintCacheLoaded_, fingerprintCache_
          step,       \* where each upload's thread is
          slipped,    \* history: <<upload, certificate>> with a statement that failed by itself
          importFaults

stores == <<certRow, ids, tracked, published>>
cached == <<cacheOn, fpCache>>
importVars == <<dbType, contents, upload, stores, cached, step, slipped, importFaults>>

\* id 0: no row. owner is upload_id (and first_upload_id), seen is
\* last_seen_upload_id; both are sets of at most one upload.
NoCert == [id |-> 0, owner |-> {}, seen |-> {}, dup |-> 0, flag |-> FALSE]
HasRow(x) == certRow[x].id # 0
HasUpload(j) == upload[j].status # "deleted"

Items(j) == contents[j].signers \o contents[j].certs
Now(j) == Items(j)[step[j].at]
IsList(j) == contents[j].kind = "list"
OfSigner(j) == Now(j) \in Signer

\* What the thread does when it comes to the k-th certificate.
AtItem(j, k) ==
    IF k <= Len(contents[j].signers \o contents[j].certs) THEN "look"
    ELSE IF contents[j].body THEN "finish" ELSE "fail"
StepTo(j, l) == step' = [step EXCEPT ![j].pc = l]
NextItem(j) == step' = [step EXCEPT ![j].at = @ + 1, ![j].pc = AtItem(j, step[j].at + 1)]

ImportInit ==
    /\ dbType \in DbTypes
    /\ contents \in [Import -> Contents]
    /\ upload = [j \in Import |->
                  [status |-> IF contents[j].kind = "list" THEN "PENDING" ELSE "PROCESSING", csca |-> 0]]
    /\ certRow = [x \in Item |-> NoCert]
    /\ ids = [x \in Item |-> 0]
    /\ tracked = {} /\ published = {}
    /\ cacheOn = FALSE /\ fpCache = [x \in Item |-> 0]
    /\ step = [j \in Import |-> [pc |-> AtItem(j, 1), at |-> 1, id |-> 0, new |-> FALSE, csca |-> 0]]
    /\ slipped = {}
    /\ importFaults = 0

-----------------------------------------------------------------------------
(* saveCertificateWithDuplicateCheck.                                      *)

Slip(j) ==
    /\ importFaults < MaxImportFaults
    /\ importFaults' = importFaults + 1
    /\ slipped' = slipped \cup {<<j, Now(j)>>}
NoSlip == UNCHANGED <<slipped, importFaults>>

\* It returns the id of a row that was there. A list records the upload as one of
\* its sources; a single file publishes it like a new one, and counts it.
IsDuplicate(j, id) ==
    step' = [step EXCEPT ![j].id = id, ![j].new = FALSE,
                         ![j].csca = IF IsList(j) THEN @ ELSE @ + 1,
                         ![j].pc = IF IsList(j) THEN "track" ELSE "publish"]

\* A loaded cache is asked in the place of the database.
Look(j) ==
    LET known == IF cacheOn THEN fpCache[Now(j)] ELSE certRow[Now(j)].id IN
    /\ step[j].pc = "look"
    /\ \/ /\ IF known # 0 THEN IsDuplicate(j, known) ELSE StepTo(j, "insert")
          /\ NoSlip
       \/ ~cacheOn /\ Slip(j) /\ NextItem(j)
    /\ UNCHANGED <<dbType, contents, upload, stores, cached>>

Created(j) ==
    /\ ids' = [ids EXCEPT ![Now(j)] = @ + 1]
    /\ certRow' = [certRow EXCEPT ![Now(j)] = [NoCert EXCEPT !.id = ids[Now(j)] + 1, !.owner = {j}]]

MayInsert(j) == ~HasRow(Now(j)) /\ (dbType = "postgres" => HasUpload(j))

\* Mutant of Insert: on Oracle too, a violated unique index is a failure.
InsertUnasked(j) ==
    LET x == Now(j) IN
    /\ step[j].pc = "insert"
    /\ \/ /\ MayInsert(j) /\ Created(j) /\ NoSlip
          /\ fpCache' = IF cacheOn THEN [fpCache EXCEPT ![x] = ids'[x]] ELSE fpCache
          /\ step' = [step EXCEPT ![j].id = ids'[x], ![j].new = TRUE,
                                  ![j].csca = IF x \in Listed THEN @ + 1 ELSE @,
                                  ![j].pc = IF OfSigner(j) THEN "track" ELSE "publish"]
       \/ /\ ~MayInsert(j)
          /\ NextItem(j)
          /\ NoSlip /\ UNCHANGED <<certRow, ids, fpCache>>
    /\ UNCHANGED <<dbType, contents, upload, tracked, published, cacheOn>>

\* The new row's id; a violated unique index is one more duplicate on Oracle and a
\* failure on PostgreSQL, and so is an upload that is gone. The answer may be lost
\* after the row was written.
Insert(j) ==
    LET x == Now(j) IN
    /\ step[j].pc = "insert"
    /\ \/ /\ MayInsert(j) /\ Created(j) /\ NoSlip
          /\ fpCache' = IF cacheOn THEN [fpCache EXCEPT ![x] = ids'[x]] ELSE fpCache
          /\ step' = [step EXCEPT ![j].id = ids'[x], ![j].new = TRUE,
                                  ![j].csca = IF x \in Listed THEN @ + 1 ELSE @,
                                  ![j].pc = IF OfSigner(j) THEN "track" ELSE "publish"]
       \/ /\ dbType = "oracle" /\ HasRow(x)
          /\ IsDuplicate(j, certRow[x].id)
          /\ NoSlip /\ UNCHANGED <<certRow, ids, fpCache>>
       \/ /\ dbType = "postgres" /\ ~MayInsert(j)
          /\ NextItem(j)
          /\ NoSlip /\ UNCHANGED <<certRow, ids, fpCache>>
       \/ /\ Slip(j) /\ NextItem(j)
          /\ (MayInsert(j) /\ Created(j)) \/ UNCHANGED <<certRow, ids>>
          /\ UNCHANGED fpCache
    /\ UNCHANGED <<dbType, contents, upload, tracked, published, cacheOn>>

-----------------------------------------------------------------------------
(* The rest of the work on a certificate.                                  *)

Referable(j) == dbType = "postgres" => HasUpload(j)

\* INSERT INTO certificate_duplicates: of a list's signers always, of what it
\* lists when it is a duplicate.
TrackDuplicate(j) ==
    LET x == Now(j)
        id == step[j].id
        there == Referable(j) /\ (dbType = "postgres" => certRow[x].id = id)
    IN
    /\ step[j].pc = "track"
    /\ \/ tracked' = (IF there THEN tracked \cup {<<x, id, j>>} ELSE tracked) /\ NoSlip
       \/ Slip(j) /\ UNCHANGED tracked
    /\ IF step[j].new THEN StepTo(j, "publish")
       ELSE IF OfSigner(j) THEN NextItem(j) ELSE StepTo(j, "increment")
    /\ UNCHANGED <<dbType, contents, upload, certRow, ids, published, cached>>

IncrementDuplicateCount(j) ==
    LET x == Now(j) IN
    /\ step[j].pc = "increment"
    /\ \/ /\ certRow' = IF Referable(j) /\ certRow[x].id = step[j].id
                        THEN [certRow EXCEPT ![x].dup = @ + 1, ![x].seen = {j}] ELSE certRow
          /\ NoSlip
       \/ Slip(j) /\ UNCHANGED certRow
    /\ NextItem(j)
    /\ UNCHANGED <<dbType, contents, upload, ids, tracked, published, cached>>

\* Without a connection, or when LDAP refuses it, the row stays unpublished.
PublishEntry(j) ==
    /\ step[j].pc = "publish"
    /\ \/ published' = published \cup {Now(j)} /\ StepTo(j, "flag")
       \/ published' = published /\ NextItem(j)
    /\ NoSlip
    /\ UNCHANGED <<dbType, contents, upload, certRow, ids, tracked, cached>>

FlagStored(j) ==
    LET x == Now(j) IN
    /\ step[j].pc = "flag"
    /\ \/ certRow' = IF certRow[x].id = step[j].id THEN [certRow EXCEPT ![x].flag = TRUE] ELSE certRow
       \/ UNCHANGED certRow
    /\ NextItem(j)
    /\ NoSlip
    /\ UNCHANGED <<dbType, contents, upload, ids, tracked, published, cached>>

-----------------------------------------------------------------------------
(* The end of an upload, and what goes on around it.                       *)

FinishImport(j) ==
    /\ step[j].pc = "finish"
    /\ upload' = IF HasUpload(j) THEN [upload EXCEPT ![j] = [status |-> "COMPLETED", csca |-> step[j].csca]]
                 ELSE upload
    /\ StepTo(j, "over")
    /\ NoSlip
    /\ UNCHANGED <<dbType, contents, stores, cached>>

\* The failure of a list is sent to the browser and nowhere else.
FailImport(j) ==
    /\ step[j].pc = "fail"
    /\ upload' = IF HasUpload(j) /\ ~IsList(j) THEN [upload EXCEPT ![j].status = "FAILED"] ELSE upload
    /\ StepTo(j, "over")
    /\ NoSlip
    /\ UNCHANGED <<dbType, contents, stores, cached>>

\* DELETE FROM uploaded_file. PostgreSQL takes the upload's certificates along, and
\* refuses it while a certificate of another upload was last seen in this one. The
\* cache is not told.
DeleteUpload(j) ==
    LET own == {x \in Item : j \in certRow[x].owner} IN
    /\ HasUpload(j)
    /\ upload' = [upload EXCEPT ![j].status = "deleted"]
    /\ \/ dbType = "oracle" /\ UNCHANGED <<certRow, tracked>>
       \/ /\ dbType = "postgres"
          /\ \A x \in Item \ own : j \notin certRow[x].seen
          /\ certRow' = [x \in Item |-> IF x \in own THEN NoCert ELSE certRow[x]]
          /\ tracked' = {t \in tracked : t[1] \notin own /\ t[3] # j}
    /\ NoSlip
    /\ UNCHANGED <<dbType, contents, ids, published, cached, step>>

\* An LDIF upload begins, see LdifBatch!PreloadExistingFingerprints.
PreloadCache ==
    /\ cacheOn' = TRUE
    /\ fpCache' = [x \in Item |-> certRow[x].id]
    /\ NoSlip
    /\ UNCHANGED <<dbType, contents, upload, stores, step>>

ImportStep(j) ==
    Look(j) \/ Insert(j) \/ TrackDuplicate(j) \/ IncrementDuplicateCount(j) \/ PublishEntry(j)
            \/ FlagStored(j) \/ FinishImport(j) \/ FailImport(j)

ImportNext ==
    \/ \E j \in Import : ImportStep(j) \/ DeleteUpload(j)
    \/ PreloadCache

ImportSpec == ImportInit /\ [][ImportNext]_importVars

-----------------------------------------------------------------------------

ImportTypeOK ==
    /\ dbType \in DbTypes
    /\ contents \in [Import -> Contents]
    /\ upload \in [Import -> [status : {"PENDING", "PROCESSING", "COMPLETED", "FAILED", "deleted"},
                              csca : Nat]]
    /\ certRow \in [Item -> [id : 0..Cardinality(Import), owner : SUBSET Import, seen : SUBSET Import,
                             dup : Nat, flag : BOOLEAN]]
    /\ ids \in [Item -> 0..Cardinality(Import)]
    /\ tracked \subseteq Item \X (1..Cardinality(Import)) \X Import
    /\ published \subseteq Item
    /\ cacheOn \in BOOLEAN /\ fpCache \in [Item -> 0..Cardinality(Import)]
    /\ \A j \in Import : step[j].pc \in {"look", "insert", "track", "increment", "publish", "flag",
                                         "finish", "fail", "over"}
    /\ slipped \subseteq Import \X Item
    /\ importFaults \in 0..MaxImportFaults

\* A row of the certificate was deleted.
Deleted(x) == ids[x] > (IF HasRow(x) THEN 1 ELSE 0)

RowsKept(j) == \A x \in Item : (\E k \in 1..Len(Items(j)) : Items(j)[k] = x)
                    => HasRow(x) \/ Deleted(x) \/ <<j, x>> \in slipped

\* An upload that is COMPLETED left a row of each of its certificates, whoever
\* brought it first and whatever was uploaded beside it; and each row names a list
\* it came in, as its owner or as one of its sources. Excepted are failed statements
\* and certificates a row of which was deleted; and that a row names the list, on
\* PostgreSQL, where the one that loses the race to insert it is told of a failure.
EachIsAccountedFor ==
    \A j \in Import : upload[j].status = "COMPLETED" =>
        /\ RowsKept(j)
        /\ dbType = "oracle" /\ IsList(j) =>
            \A k \in 1..Len(Items(j)) : LET x == Items(j)[k] IN
                \/ j \in certRow[x].owner \/ <<x, certRow[x].id, j>> \in tracked
                \/ Deleted(x) \/ <<j, x>> \in slipped

\* Where lists list a certificate, as often as they do.
Occurrences(x) == UNION {{<<j, k>> : k \in {n \in DOMAIN contents[j].certs : contents[j].certs[n] = x}} :
                            j \in {i \in Import : IsList(i)}}
OwnedBy(j) == {x \in Listed : j \in certRow[x].owner}

\* The books of concurrent lists balance: csca_count is the number of rows the list
\* owns (at least those with which nothing failed, as its inserts whose answers were lost
\* do not count), and each occurrence of a certificate in a list made its row or was
\* counted as one duplicate at most.
BooksBalance ==
    /\ \A j \in Import : upload[j].status = "COMPLETED" /\ IsList(j) =>
        /\ upload[j].csca <= Cardinality(OwnedBy(j))
        /\ upload[j].csca >= Cardinality({x \in OwnedBy(j) : <<j, x>> \notin slipped})
    /\ \A x \in Listed :
        certRow[x].dup + Cardinality({j \in certRow[x].owner : IsList(j)}) <= Cardinality(Occurrences(x))

\* What a completed list brought is accounted for, and the counts of all lists agree
\* with that, however many lists bring the same certificates at once.
ImportAddsUp == EachIsAccountedFor /\ BooksBalance

\* stored_in_ldap speaks of an entry that is there.
FlagMeansEntry == \A x \in Item : certRow[x].flag => x \in published

\* The cache names the rows the database has.
CacheIsCurrent == cacheOn => \A x \in Item : fpCache[x] # 0 => certRow[x].id = fpCache[x]

\* "This is equivalent to PostgreSQL's ON CONFLICT DO NOTHING behavior": the race to
\* insert a certificate makes a duplicate, on either database.
RaceIsDuplicate ==
    \A j \in Import : upload[j].status = "COMPLETED" /\ IsList(j) =>
        \A k \in 1..Len(Items(j)) : LET x == Items(j)[k] IN
            \/ j \in certRow[x].owner \/ <<x, certRow[x].id, j>> \in tracked
            \/ Deleted(x) \/ <<j, x>> \in slipped

\* An upload that has come to its end can be deleted.
OverCanBeDeleted ==
    \A j \in Import : HasUpload(j) /\ step[j].pc = "over" /\ dbType = "postgres" =>
        \A x \in Item : j \in certRow[x].seen => j \in certRow[x].owner

\* An upload that has come to its end says so.
OverIsSettled ==
    \A j \in Import : step[j].pc = "over" => upload[j].status \in {"COMPLETED", "FAILED", "deleted"}
=============================================================================
