-------------------------- MODULE CertificateFiles --------------------------
(***************************************************************************)
(* A file with certificates, a CRL or a deviation list: its format is      *)
(* guessed, it is parsed and shown (previewCertificate) and, in a second   *)
(* request, stored (uploadCertificate).  Requests run on the HTTP threads, *)
(* beside each other and beside deletions of uploads.                      *)
(*                                                                         *)
(* What happens to a certificate on its way into the stores is CertImport; *)
(* here it only counts which ones get there and as what.                   *)
(***************************************************************************)
EXTENDS Integers, Sequences, FiniteSets, SequencesExt, Selection

CONSTANTS
    FileUpload,    \* the uploads there may be
    Files,         \* what may be uploaded, see Content
    Databases,     \* the ones the program may run on
    MaxFileFaults  \* bound: statements that fail by themselves

\* ext: the extension in lower case. text: PEM. kind: what is in it. Of a certificate
\* what matters is `type`, as CertTypeDetector sees it, or "broken" for one that does not
\* parse. A signed deviation has the length of what names the certificate and those of
\* its defects.
Deviation == [id : Nat \ {0}, defects : Seq(Nat \ {0})]
Content ==
    [ext : {"", "pem", "crt", "der", "cer", "bin", "dl", "ldif", "ml", "p7b", "crl"}, text : BOOLEAN,
     kind : {"certs", "crl", "deviations", "list", "cms", "ldif", "other"}, certs : Seq(STRING),
     deviations : Seq(Deviation), revoked : Nat, name : Nat]

ASSUME FilesAssumption == Files \subseteq Content
\* Files of one name have the same CRL or deviation list in them.
ASSUME NamesAssumption == \A f, g \in Files : f.name = g.name => f.revoked = g.revoked
ASSUME NoUploadAssumption == "none" \notin FileUpload
ASSUME DatabasesAssumption == Databases \subseteq {"postgres", "oracle"}

VARIABLES
    database,
    up,          \* each upload: the thread that makes it and its row
    crl,         \* crl, for each CRL: the row's id (the upload that inserted it) and upload_id
    revokedRows, \* revoked_certificate: rows for each CRL row and place in the list
    dl,          \* deviation_list, like crl
    entryRows,   \* deviation_entry: <<row of the list, place>>
    fileFaults

fileVars == <<database, up, crl, revokedRows, dl, entryRows, fileFaults>>

NoFile == [pc |-> "none"]
NoListRow == [id |-> "none", owner |-> "none"]
Name == {f.name : f \in Files}
Serial == UNION {1 .. f.revoked : f \in Files}

FilesInit ==
    /\ database \in Databases
    /\ up = [u \in FileUpload |-> NoFile]
    /\ crl = [n \in Name |-> NoListRow] /\ dl = [n \in Name |-> NoListRow]
    /\ revokedRows = [u \in FileUpload |-> [s \in Serial |-> 0]]
    /\ entryRows = {}
    /\ fileFaults = 0

FileFault == fileFaults < MaxFileFaults /\ fileFaults' = fileFaults + 1
NoFileFault == UNCHANGED fileFaults

-----------------------------------------------------------------------------
(* FileDetector                                                            *)

detectByExtension(f) ==
    CASE f.ext \in {"pem", "crt"} -> "PEM"
      [] f.ext \in {"der", "cer", "bin", "dl", "ldif", "ml", "p7b", "crl"} -> f.ext
      [] OTHER -> "UNKNOWN"

isDER(f) == ~f.text /\ f.kind \notin {"ldif", "other"}

\* A CRL is never recognised: as PEM it has already counted as certificates, and as DER
\* it counts as one.
detectByContent(f) ==
    CASE f.text -> "PEM"
      [] ~f.text /\ f.kind = "ldif" -> "ldif"
      [] isDER(f) /\ f.kind = "deviations" -> "dl"
      [] isDER(f) /\ f.kind = "list" -> "ml"
      [] isDER(f) /\ f.kind = "cms" -> "p7b"
      [] isDER(f) /\ f.kind \in {"certs", "crl"} -> "der"
      [] OTHER -> "UNKNOWN"

detectFormat(f) ==
    IF detectByExtension(f) # "UNKNOWN" THEN detectByExtension(f) ELSE detectByContent(f)

Unsupported == {"UNKNOWN", "ldif", "ml", "bin"}

-----------------------------------------------------------------------------
(* The parsers                                                             *)

Readable(certs) == Only(certs, STRING \ {"broken"})

\* Blocks that do not parse are skipped. A CMS block is taken for a certificate, and fails.
PemCertificates(f) == IF f.text /\ f.kind = "certs" THEN Readable(f.certs) ELSE <<>>

\* The first certificate of the bytes, if they are one.
DerCertificate(f) ==
    IF ~f.text /\ f.kind = "certs" /\ f.certs # <<>> /\ f.certs[1] # "broken" THEN <<f.certs[1]>> ELSE <<>>

IsCms(f) == ~f.text /\ f.kind \in {"deviations", "list", "cms"}

\* The older reader of PKCS #7, or else that of CMS, which finds them too.
extractCertificatesFromCms(f) == IF IsCms(f) THEN Readable(f.certs) ELSE <<>>

CertificateLength(d) == d.id + FoldSeq(+, 0, d.defects)

\* The deviations of a certificate are read, and then as many bytes again are skipped as
\* they take: the next certificate is only found where that is the end of another one.
\* (Bytes in the midst of one are taken not to read as a deviation.)
NextDeviation(list, i) ==
    LET skipped == FoldSeq(+, 0, list[i].defects)
        fits == {j \in i + 1 .. Len(list) + 1 :
                    FoldSeq(+, 0, [k \in 1 .. j - i - 1 |-> CertificateLength(list[i + k])]) = skipped}
    IN  IF fits = {} THEN Len(list) + 1 ELSE CHOOSE j \in fits : \A k \in fits : j <= k

\* What is read from the deviation number i on, as <<certificate, defect>>.
extractDeviationsFromCms(list) ==
    LET from[i \in 1 .. Len(list) + 1] ==
            IF i > Len(list) THEN <<>>
            ELSE [k \in DOMAIN list[i].defects |-> <<i, k>>] \o from[NextDeviation(list, i)]
    IN  from[1]

\* The CMS needs the OID of deviation lists in it.
DlParses(f) == ~f.text /\ f.kind = "deviations"

\* certs: the certificates that are processed. failed: the parser or its caller throws.
Parsed(certs, failed) ==
    [certs |-> certs, failed |-> failed, crls |-> 0, list |-> FALSE, deviations |-> <<>>]
WhatIsFound(certs) == Parsed(certs, certs = <<>>)

\* A deviation list that does not parse is read like any CMS. Other formats have no parser.
ParseFor(format, f) ==
    CASE format = "crl" -> [Parsed(<<>>, f.kind # "crl") EXCEPT !.crls = 1]
      [] format = "PEM" -> WhatIsFound(PemCertificates(f))
      [] format \in {"der", "cer"} -> WhatIsFound(DerCertificate(f))
      [] format = "p7b" \/ (format = "dl" /\ ~DlParses(f)) -> WhatIsFound(extractCertificatesFromCms(f))
      [] format = "dl" /\ DlParses(f) ->
             [Parsed(extractCertificatesFromCms(f), FALSE) EXCEPT
                 !.list = TRUE, !.deviations = extractDeviationsFromCms(f.deviations)]
      [] OTHER -> WhatIsFound(<<>>)

-----------------------------------------------------------------------------
(* previewCertificate, which stores nothing                                *)

\* The types a certificate is shown with and stored as.
PreviewType(type) ==
    CASE type \in {"CSCA", "LINK_CERT"} -> "CSCA" [] type = "MLSC" -> "MLSC" [] OTHER -> "DSC"
StoredType(type) ==
    CASE type \in {"CSCA", "LINK_CERT"} -> "CSCA" [] type = "MLSC" -> "MLSC" [] OTHER -> "DSC"

\* Mutant of previewCertificate: the signer of a deviation list is shown as one.
PreviewOfSigner(f) ==
    LET parsed == ParseFor(detectFormat(f), f)
    IN  [success |-> ~parsed.failed \/ detectFormat(f) = "dl", deviations |-> parsed.deviations,
         certs |-> [i \in DOMAIN parsed.certs |->
                       IF parsed.certs[i] = "DL_SIGNER" THEN parsed.certs[i] ELSE PreviewType(parsed.certs[i])]]

\* Formats without a parser are refused. A deviation list without anything to be found is
\* no failure here.
previewCertificate(f) ==
    LET parsed == ParseFor(detectFormat(f), f)
    IN  [success |-> ~parsed.failed \/ detectFormat(f) = "dl", deviations |-> parsed.deviations,
         certs |-> [i \in DOMAIN parsed.certs |-> PreviewType(parsed.certs[i])]]

-----------------------------------------------------------------------------
(* uploadCertificate                                                       *)

HasFileRow(u) == up[u].pc # "none" /\ up[u].status \in {"PROCESSING", "COMPLETED", "FAILED"}
Goto_(u, l) == up' = [up EXCEPT ![u].pc = l]

\* What the thread does next.
AfterCerts(parsed) == IF parsed.list THEN "saveDl" ELSE "finish"
Work(parsed) ==
    IF parsed.crls > 0 THEN "findCrl" ELSE IF parsed.certs # <<>> THEN "certs" ELSE AfterCerts(parsed)

findByHash(f) == {u \in FileUpload : HasFileRow(u) /\ up[u].file = f}

\* The content is looked for by its hash, among failed uploads too; when that fails, the
\* file counts as new. Formats without a parser leave no row.
Submit(u, f) ==
    LET format == detectFormat(f)
        new == [pc |-> "insert", file |-> f, status |-> "none", todo |-> ParseFor(format, f), at |-> 1,
                stored |-> <<>>, id |-> "none", turn |-> 0, late |-> FALSE, slipped |-> FALSE]
    IN  /\ up[u].pc = "none"
        /\ format \notin Unsupported
        /\ \/ findByHash(f) = {} /\ NoFileFault
           \/ findByHash(f) # {} /\ FileFault
        /\ up' = [up EXCEPT ![u] = new]
        /\ UNCHANGED <<database, crl, revokedRows, dl, entryRows>>

\* Without a row there is nothing whose status could be set.
InsertUpload(u) ==
    /\ up[u].pc = "insert"
    /\ \/ /\ up' = [up EXCEPT ![u].status = IF up[u].todo.failed THEN "FAILED" ELSE "PROCESSING",
                              ![u].pc = IF up[u].todo.failed THEN "done" ELSE Work(up[u].todo)]
          /\ NoFileFault
       \/ /\ up' = [up EXCEPT ![u].pc = "done", ![u].slipped = TRUE]
          /\ FileFault
    /\ UNCHANGED <<database, crl, revokedRows, dl, entryRows>>

\* A certificate that cannot be saved is left out of the counts.
ProcessCertificate(u) ==
    LET certs == up[u].todo.certs
        last == up[u].at = Len(certs)
        on == [up[u] EXCEPT !.at = IF last THEN 1 ELSE @ + 1, !.pc = IF last THEN AfterCerts(up[u].todo) ELSE @]
    IN  /\ up[u].pc = "certs"
        /\ \/ /\ up' = [up EXCEPT ![u] = [on EXCEPT !.stored = Append(@, StoredType(certs[up[u].at]))]]
              /\ NoFileFault
           \/ up' = [up EXCEPT ![u] = [on EXCEPT !.slipped = TRUE]] /\ FileFault
        /\ UNCHANGED <<database, crl, revokedRows, dl, entryRows>>

-----------------------------------------------------------------------------
(* A CRL                                                                   *)

CrlOf(u) == crl[up[u].file.name]

\* CrlRepository::save looks for the fingerprint first.
FindCrl(u) ==
    /\ up[u].pc = "findCrl"
    /\ \/ up' = [up EXCEPT ![u].id = CrlOf(u).id,
                           ![u].pc = IF CrlOf(u) = NoListRow THEN "insertCrl" ELSE "claimCrl"]
          /\ NoFileFault
       \/ up' = [up EXCEPT ![u].pc = "finish", ![u].slipped = TRUE] /\ FileFault
    /\ UNCHANGED <<database, crl, revokedRows, dl, entryRows>>

\* History: turn is the upload's place among those that have had this list; one that is
\* late had its place taken, or the row it found was gone.
Turn(u) == Cardinality({v \in FileUpload : up[v].pc # "none" /\ up[v].turn > 0}) + 1
Owning(u, l, id, late) == [up[u] EXCEPT !.id = id, !.pc = l, !.at = 1, !.turn = Turn(u), !.late = late]

\* Mutant of Claim: the row stays with the upload that it came with.
ClaimNothing(rows, u) == rows

\* The upload_id of the row that was found, if it is still there.
Claim(rows, u) == IF CrlOf(u).id = up[u].id THEN [rows EXCEPT ![up[u].file.name].owner = u] ELSE rows

\* A CRL that is there becomes this upload's, unless PostgreSQL has no such upload any more.
ClaimCrl(u) ==
    /\ up[u].pc = "claimCrl"
    /\ \/ /\ HasFileRow(u) \/ database = "oracle" \/ CrlOf(u).id # up[u].id
          /\ crl' = Claim(crl, u)
          /\ up' = [up EXCEPT ![u] = Owning(u, "revoke", up[u].id, CrlOf(u).id # up[u].id)]
          /\ NoFileFault
       \/ /\ ~HasFileRow(u) /\ database = "postgres" /\ CrlOf(u).id = up[u].id
          /\ up' = [up EXCEPT ![u].pc = "finish", ![u].late = TRUE]
          /\ NoFileFault /\ UNCHANGED crl
       \/ /\ up' = [up EXCEPT ![u].pc = "finish", ![u].slipped = TRUE]
          /\ FileFault /\ UNCHANGED crl
    /\ UNCHANGED <<database, revokedRows, dl, entryRows>>

\* An insert that may come second, or after the upload was deleted. PostgreSQL does
\* nothing in the first case, and the id that is returned is nobody's; its foreign key
\* refuses the second. On Oracle the unique index refuses the first.
MayBeInserted(rows, u) == rows[up[u].file.name] = NoListRow /\ (database = "postgres" => HasFileRow(u))
InsertList(rows, u, l) ==
    \/ /\ MayBeInserted(rows, u)
       /\ rows' = [rows EXCEPT ![up[u].file.name] = [id |-> u, owner |-> u]]
       /\ up' = [up EXCEPT ![u] = Owning(u, l, u, FALSE)]
       /\ NoFileFault
    \/ /\ rows[up[u].file.name] # NoListRow /\ database = "postgres"
       /\ up' = [up EXCEPT ![u] = Owning(u, l, u, TRUE)]
       /\ NoFileFault /\ UNCHANGED rows
    \/ /\ ~MayBeInserted(rows, u) /\ (rows[up[u].file.name] # NoListRow => database = "oracle")
       /\ up' = [up EXCEPT ![u].pc = "finish", ![u].late = TRUE]
       /\ NoFileFault /\ UNCHANGED rows
    \/ /\ up' = [up EXCEPT ![u].pc = "finish", ![u].slipped = TRUE]
       /\ FileFault /\ UNCHANGED rows

InsertCrl(u) ==
    /\ up[u].pc = "insertCrl"
    /\ InsertList(crl, u, "revoke")
    /\ UNCHANGED <<database, revokedRows, dl, entryRows>>

\* saveRevokedCertificate, for one entry after the other and for each upload again. The
\* rows are for PostgreSQL, whose foreign key refuses those of a CRL that is not there.
Revoke(u) ==
    LET more == up[u].at <= up[u].file.revoked
        there == CrlOf(u).id = up[u].id
    IN  /\ up[u].pc = "revoke"
        /\ IF more /\ database = "postgres"
           THEN \/ /\ revokedRows' = IF there THEN [revokedRows EXCEPT ![up[u].id][up[u].at] = @ + 1]
                                     ELSE revokedRows
                   /\ up' = [up EXCEPT ![u].at = @ + 1]
                   /\ NoFileFault
                \/ /\ up' = [up EXCEPT ![u].at = @ + 1, ![u].slipped = TRUE]
                   /\ FileFault /\ UNCHANGED revokedRows
           ELSE Goto_(u, "finish") /\ NoFileFault /\ UNCHANGED revokedRows
        /\ UNCHANGED <<database, crl, dl, entryRows>>

-----------------------------------------------------------------------------
(* A deviation list                                                        *)

SaveDl(u) ==
    /\ up[u].pc = "saveDl"
    /\ InsertList(dl, u, "entries")
    /\ UNCHANGED <<database, crl, revokedRows, entryRows>>

\* Mutant of EntryLeft: the last one is not reached.
EntryLeftButOne(u) == up[u].at < Len(up[u].todo.deviations)
EntryLeft(u) == up[u].at <= Len(up[u].todo.deviations)

\* An entry that fails is left out.
SaveEntry(u) ==
    /\ up[u].pc = "entries"
    /\ IF EntryLeft(u)
       THEN \/ /\ entryRows' = IF database = "oracle" \/ dl[up[u].file.name].id = up[u].id
                               THEN entryRows \cup {<<up[u].id, up[u].todo.deviations[up[u].at]>>}
                               ELSE entryRows
               /\ up' = [up EXCEPT ![u].at = @ + 1]
               /\ NoFileFault
            \/ /\ up' = [up EXCEPT ![u].at = @ + 1, ![u].slipped = TRUE]
               /\ FileFault /\ UNCHANGED entryRows
       ELSE Goto_(u, "finish") /\ NoFileFault /\ UNCHANGED entryRows
    /\ UNCHANGED <<database, crl, revokedRows, dl>>

\* A status that could not be written stays PROCESSING; the answer says COMPLETED.
Finish(u) ==
    /\ up[u].pc = "finish"
    /\ \/ up' = [up EXCEPT ![u].pc = "done", ![u].status = IF @ = "PROCESSING" THEN "COMPLETED" ELSE @]
          /\ NoFileFault
       \/ Goto_(u, "done") /\ FileFault
    /\ UNCHANGED <<database, crl, revokedRows, dl, entryRows>>

\* handleDelete. On PostgreSQL what belongs to the upload goes with it, and the rows below
\* that; on Oracle nothing does.
DeleteFile(u) ==
    LET without(rows) == [n \in Name |-> IF rows[n].owner = u THEN NoListRow ELSE rows[n]]
    IN  /\ HasFileRow(u)
        /\ up' = [up EXCEPT ![u].status = "deleted"]
        /\ IF database = "postgres"
           THEN /\ crl' = without(crl) /\ dl' = without(dl)
                /\ revokedRows' = [v \in FileUpload |->
                       IF \E n \in Name : crl[n].id = v /\ crl'[n] = NoListRow THEN [s \in Serial |-> 0]
                       ELSE revokedRows[v]]
                /\ entryRows' = {e \in entryRows : \E n \in Name : dl'[n].id = e[1]}
           ELSE UNCHANGED <<crl, revokedRows, dl, entryRows>>
        /\ UNCHANGED <<database, fileFaults>>

-----------------------------------------------------------------------------
FilesNext ==
    \E u \in FileUpload :
        \/ \E f \in Files : Submit(u, f)
        \/ InsertUpload(u) \/ ProcessCertificate(u)
        \/ FindCrl(u) \/ ClaimCrl(u) \/ InsertCrl(u) \/ Revoke(u)
        \/ SaveDl(u) \/ SaveEntry(u)
        \/ Finish(u) \/ DeleteFile(u)

FilesSpec == FilesInit /\ [][FilesNext]_fileVars

-----------------------------------------------------------------------------
(* Properties                                                              *)

IsOver(u) == up[u].pc = "done"

\* An upload stores the certificates, with the types, that the preview of the file showed,
\* and fails where the preview does; a deviation list in which nothing is found fails
\* although its preview is a success. Of the deviations the preview and the upload show
\* all those of the first certificate of the list; of the later ones only those that the
\* parser happens to find again.
PreviewAgrees ==
    \A u \in FileUpload : IsOver(u) /\ ~up[u].slipped =>
        LET f == up[u].file
            shown == previewCertificate(f)
        IN  /\ up[u].stored = shown.certs
            /\ up[u].status = "FAILED" => ~shown.success \/ (detectFormat(f) = "dl" /\ shown.certs = <<>>)
            /\ up[u].status = "COMPLETED" => shown.success
            /\ up[u].todo.list /\ f.deviations # <<>> =>
                   IsPrefix([k \in DOMAIN f.deviations[1].defects |-> <<1, k>>], shown.deviations)
            /\ \A i, j \in DOMAIN shown.deviations : i # j => shown.deviations[i] # shown.deviations[j]

\* A deviation list in the database has the deviations the parser found, and a CRL has a
\* row for each entry, as many as there were uploads of it, whatever else is uploaded or
\* deleted at the time. What was found is missing only where a statement failed.
ListsAreWhole ==
    \A n \in Name :
        /\ dl[n] # NoListRow => LET u == dl[n].id IN
               IsOver(u) /\ ~up[u].slipped =>
                   {e[2] : e \in {x \in entryRows : x[1] = u}} = ToSet(up[u].todo.deviations)
        /\ crl[n] # NoListRow /\ database = "postgres" =>
               LET by == {u \in FileUpload : up[u].pc # "none" /\ up[u].id = crl[n].id /\ up[u].turn > 0}
               IN  (\A u \in by : IsOver(u) /\ ~up[u].slipped) =>
                   \A s \in 1 .. up[crl[n].id].file.revoked :
                       revokedRows[crl[n].id][s] = Cardinality(by)

\* The CRL or the deviation list of a completed upload is in the database. It is not when
\* an upload of the same CRL that came later was deleted (a CRL goes with the last one
\* that had it), or when this one came second, or found a row that was then deleted.
DoneHasContent ==
    \A u \in FileUpload : IsOver(u) /\ up[u].status = "COMPLETED" /\ ~up[u].slipped /\ ~up[u].late =>
        LET n == up[u].file.name
        IN  /\ up[u].todo.list => dl[n] # NoListRow
            /\ up[u].todo.crls > 0 =>
                \/ crl[n] # NoListRow
                \/ \E v \in FileUpload : /\ up[v].pc # "none" /\ up[v].status = "deleted"
                                        /\ up[v].file.name = n /\ up[v].turn > up[u].turn

\* What an upload of a CRL or a deviation list brought is there, and all of it.
ContentIsKept == ListsAreWhole /\ DoneHasContent
=============================================================================
