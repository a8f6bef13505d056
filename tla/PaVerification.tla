--------------------------- MODULE PaVerification ---------------------------
(***************************************************************************)
(* Passive authentication (pa-service): a document of one country is       *)
(* checked against the directory and the verdict is stored.                *)
(* verifyPassiveAuthentication validates the chain from the signer (DSC)   *)
(* to a CSCA, looks for the signer on a CRL, verifies the signature of the *)
(* document and the hashes of its data groups, inserts the verification,   *)
(* registers the signer and inserts the groups, each step by itself: the   *)
(* directory changes meanwhile, any statement may fail and the service may *)
(* stop.                                                                   *)
(*                                                                         *)
(* What the certificates and the document are like is abstracted to the    *)
(* outcomes of the comparisons. The registration of the signer in detail   *)
(* is RegisterDsc of Validation.                                           *)
(***************************************************************************)
EXTENDS Integers, Sequences, FiniteSets

CONSTANTS
    Csca,          \* CSCA certificates: those of o=csca and those of o=lc
    LinkCert,      \* those of o=lc
    SelfIssued,    \* those whose subject is their issuer
    Sound,         \* those of SelfIssued that verify with their own key
    Issuing,       \* those whose subject is the signer's issuer
    Document,      \* documents: [signedBy, signing, sod, groups]
    CrlLimit,      \* entries a search for CRLs may return (10 in the code)
    LastDay,       \* bound: the last day
    MaxVerified,   \* bound: verifications
    MaxPaFaults    \* bound: searches and statements that fail, restarts

\* signedBy: the key that verifies the signer's certificate (a CSCA or none);
\* signing: the time of signing against the signer's period; sod: whether the
\* document's signature verifies; groups: how the hashes of the data groups compare.
Documents == [signedBy : SUBSET Csca, signing : {"unknown", "within", "outside"},
              sod : BOOLEAN, groups : SUBSET {"equal", "different", "unlisted"}]

ASSUME PaAssumption ==
    /\ LinkCert \subseteq Csca /\ Issuing \subseteq Csca
    /\ Sound \subseteq SelfIssued /\ SelfIssued \subseteq Csca
    /\ Document \subseteq Documents
    /\ CrlLimit \in Nat \ {0}

VARIABLES
    entries, \* the CSCAs of the country in the directory
    crls,    \* its CRLs there, of which none is ever removed
    day,
    request, \* the verification under way
    rows,    \* pa_verification with the groups stored for each, in pa_data_group
    answers, \* what the callers were told
    paFaults

paVars == <<entries, crls, day, request, rows, answers, paFaults>>

\* A CRL names the signer's serial number or not, and ends with some day. Two of
\* the same kind count as one.
Crl == [lists : BOOLEAN, next : 0 .. LastDay]
Nothing == [pc |-> "idle"]
Unchecked == "NOT_CHECKED"

PaInit ==
    /\ entries \in SUBSET Csca
    /\ crls = {}
    /\ day = 0
    /\ request = Nothing
    /\ rows = <<>>
    /\ answers = <<>>
    /\ paFaults = 0

PaFault == paFaults < MaxPaFaults /\ paFaults' = paFaults + 1

StartVerify(d) ==
    /\ request.pc = "idle" /\ Len(answers) < MaxVerified
    /\ request' = [pc |-> "csca", doc |-> d, found |-> {}, csca |-> {}, crl |-> Unchecked, row |-> 0]
    /\ UNCHANGED <<entries, crls, day, rows, answers, paFaults>>

Tell(ok, status) ==
    /\ answers' = Append(answers, [ok |-> ok, status |-> status, row |-> request.row])
    /\ request' = Nothing

-----------------------------------------------------------------------------
(* The chain                                                               *)

\* One of the two searches of findAllCscasByCountry. One that fails, or returns
\* too many entries, counts as empty.
Search(from, to, where) ==
    /\ request.pc = from
    /\ \/ /\ request' = [request EXCEPT !.pc = to, !.found = @ \cup (entries \cap where)]
          /\ UNCHANGED paFaults
       \/ /\ PaFault
          /\ request' = [request EXCEPT !.pc = to]
    /\ UNCHANGED <<entries, crls, day, rows, answers>>

\* Candidates are tried in the order of the directory, o=csca before o=lc.
FirstOf(S) == IF S \ LinkCert # {} THEN S \ LinkCert ELSE S

\* The CSCA that verifies the signer, or else one of the right name.
Chosen(doc, found) ==
    LET named    == found \cap Issuing
        verified == named \cap doc.signedBy
    IN  IF verified # {} THEN FirstOf(verified) ELSE FirstOf(named)

\* A self-issued CSCA must verify itself; of a link certificate nothing more is
\* asked. Without a CSCA, or with one that is not sound, no CRL is looked at.
ChooseCsca ==
    /\ request.pc = "choose"
    /\ LET chosen == Chosen(request.doc, request.found)
       IN  IF chosen = {}
           THEN request' = [request EXCEPT !.pc = "save"]
           ELSE \E c \in chosen :
                    request' = [request EXCEPT !.csca = {c}, !.found = {},
                        !.pc = IF c \in request.doc.signedBy /\ c \in SelfIssued \ Sound
                               THEN "save" ELSE "crl"]
    /\ UNCHANGED <<entries, crls, day, rows, answers, paFaults>>

\* The expiry of the CRL comes before the search for the serial number.
CrlStatus(e) ==
    IF e.next < day THEN "CRL_EXPIRED" ELSE IF e.lists THEN "REVOKED" ELSE "VALID"

\* The first entry of the country, whichever CSCA issued it and whenever. A
\* search that fails or exceeds the limit counts as "no CRL".
CheckCrl ==
    /\ request.pc = "crl"
    /\ \/ /\ Cardinality(crls) \in 1 .. CrlLimit
          /\ \E e \in crls : request' = [request EXCEPT !.pc = "save", !.crl = CrlStatus(e)]
          /\ UNCHANGED paFaults
       \/ /\ IF Cardinality(crls) \notin 1 .. CrlLimit THEN UNCHANGED paFaults ELSE PaFault
          /\ request' = [request EXCEPT !.pc = "save", !.crl = "CRL_UNAVAILABLE"]
    /\ UNCHANGED <<entries, crls, day, rows, answers>>

\* Mutant of ChainValid: it is computed before the CRL is looked at.
ChainValidEarly(r) ==
    /\ r.csca # {} /\ r.csca \subseteq r.doc.signedBy
    /\ r.csca \cap SelfIssued \subseteq Sound
    /\ r.doc.signing # "outside"

ChainValid(r) ==
    /\ r.csca # {} /\ r.csca \subseteq r.doc.signedBy
    /\ r.csca \cap SelfIssued \subseteq Sound
    /\ r.crl # "REVOKED"
    /\ r.doc.signing # "outside"

-----------------------------------------------------------------------------
(* The verdict and what is stored                                          *)

Verdict(r) ==
    IF ChainValid(r) /\ r.doc.sod /\ r.doc.groups \subseteq {"equal"} THEN "VALID" ELSE "INVALID"

\* The registration of the signer, which follows, changes nothing here, and its
\* failure is logged and forgotten.
SaveVerification ==
    /\ request.pc = "save"
    /\ \/ /\ rows' = Append(rows, [doc |-> request.doc, status |-> Verdict(request),
                                   crl |-> request.crl, groups |-> {}])
          /\ request' = [request EXCEPT !.pc = "groups", !.row = Len(rows) + 1]
          /\ UNCHANGED <<answers, paFaults>>
       \/ /\ PaFault
          /\ Tell(FALSE, "none")
          /\ UNCHANGED rows
    /\ UNCHANGED <<entries, crls, day>>

\* Mutant of SaveGroup: a group that is not inserted is passed over.
SaveGroupOrNot ==
    /\ request.pc = "groups"
    /\ \E skipped \in SUBSET request.doc.groups :
           rows' = [rows EXCEPT ![request.row].groups = request.doc.groups \ skipped]
    /\ Tell(TRUE, rows[request.row].status)
    /\ UNCHANGED <<entries, crls, day, paFaults>>

\* One insert after the other; one that throws ends the request with an error.
SaveGroup ==
    /\ request.pc = "groups"
    /\ request.doc.groups \ rows[request.row].groups # {}
    /\ \/ /\ \E g \in request.doc.groups \ rows[request.row].groups :
                 rows' = [rows EXCEPT ![request.row].groups = @ \cup {g}]
          /\ UNCHANGED <<request, answers, paFaults>>
       \/ /\ PaFault
          /\ Tell(FALSE, "none")
          /\ UNCHANGED rows
    /\ UNCHANGED <<entries, crls, day>>

AnswerCaller ==
    /\ request.pc = "groups"
    /\ request.doc.groups = rows[request.row].groups
    /\ Tell(TRUE, rows[request.row].status)
    /\ UNCHANGED <<entries, crls, day, rows, paFaults>>

PaRestart ==
    /\ request.pc # "idle"
    /\ PaFault
    /\ request' = Nothing
    /\ UNCHANGED <<entries, crls, day, rows, answers>>

-----------------------------------------------------------------------------
(* The directory, written to by pkd-management, and the time               *)

\* bound: the directory changes and time passes while the verification that is
\* to come, or is under way, has yet to read what changes.
Until(places) == Len(answers) < MaxVerified /\ request.pc \in {"idle"} \cup places

AddCsca(c) ==
    /\ Until({"csca", "lc"}) /\ c \notin entries
    /\ entries' = entries \cup {c}
    /\ UNCHANGED <<crls, day, request, rows, answers, paFaults>>

\* saveCrlToLdap: the entry is named by the fingerprint, so that a later CRL of
\* the same issuer stands beside the earlier one. A CRL ends with its day.
PublishCrl(lists) ==
    /\ Until({"crl"})
    /\ crls' = crls \cup {[lists |-> lists, next |-> day]}
    /\ UNCHANGED <<entries, day, request, rows, answers, paFaults>>

NextDay ==
    /\ Until({"crl"}) /\ day < LastDay
    /\ day' = day + 1
    /\ UNCHANGED <<entries, crls, request, rows, answers, paFaults>>

PaNext ==
    \/ \E d \in Document : StartVerify(d)
    \/ Search("csca", "lc", Csca \ LinkCert) \/ Search("lc", "choose", LinkCert)
    \/ ChooseCsca \/ CheckCrl \/ SaveVerification \/ SaveGroup \/ AnswerCaller
    \/ PaRestart
    \/ \E c \in Csca : AddCsca(c)
    \/ \E lists \in BOOLEAN : PublishCrl(lists)
    \/ NextDay

PaSpec == PaInit /\ [][PaNext]_paVars

-----------------------------------------------------------------------------

(* A verification is VALID only if its signer is signed by a CSCA of the     *)
(* directory with the right name, which is sound if it is self-issued, the   *)
(* document is signed by the signer within its period if the time is known,  *)
(* and every group has the hash of the document                              *)
(* (certificate_validation_service.cpp:137-301, pa_verification_service.cpp:94). *)
ValidIsVerified ==
    \A i \in DOMAIN rows : rows[i].status = "VALID" =>
        LET d == rows[i].doc
        IN  /\ \E c \in entries \cap Issuing \cap d.signedBy : c \in SelfIssued => c \in Sound
            /\ d.sod /\ d.signing # "outside" /\ d.groups \subseteq {"equal"}

(* A verification is VALID only if there is a CRL that does not name the     *)
(* signer, or one that ended, or no CRL was to be had                        *)
(* (crl_checker.cpp:30-113). CRLs stay in the directory, so that this can be *)
(* told at any later time.                                                   *)
AcceptedHasReason ==
    \A i \in DOMAIN rows : rows[i].status = "VALID" =>
        \/ rows[i].crl = "VALID" /\ \E e \in crls : ~e.lists
        \/ rows[i].crl = "CRL_EXPIRED" /\ \E e \in crls : e.next < day
        \/ rows[i].crl = "CRL_UNAVAILABLE"

(* A caller that got a verdict finds it stored, with every group of its      *)
(* document (pa_verification_service.cpp:161-226).                           *)
AnswerIsStored ==
    \A i \in DOMAIN answers : answers[i].ok =>
        /\ answers[i].row \in DOMAIN rows
        /\ rows[answers[i].row].status = answers[i].status
        /\ rows[answers[i].row].groups = rows[answers[i].row].doc.groups

(* The description of REVOKED, "this certificate must not be used for        *)
(* Passive Authentication verification"                                      *)
(* (certificate_validation_service.cpp:263): no signer that a current CRL    *)
(* names is accepted. TLC refutes it: the first entry found                  *)
(* decides, and an older CRL beside the current one, or more of them than    *)
(* the search returns, hide it.                                              *)
RevokedIsRefused ==
    \A i \in DOMAIN rows :
        rows[i].status = "VALID" /\ paFaults = 0 /\ crls # {} => \E e \in crls : ~e.lists

(* A caller that was told of a failure may ask again: no verdict is stored.  *)
(* TLC refutes it: the verification is inserted first and not                *)
(* taken back when a group is not.                                           *)
FailureLeavesNothing ==
    \A i \in DOMAIN answers : ~answers[i].ok => answers[i].row = 0
=============================================================================
