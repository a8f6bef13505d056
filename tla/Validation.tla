----------------------------- MODULE Validation -----------------------------
(***************************************************************************)
(* The validation status of certificates, which four parts of the system   *)
(* write: the LDIF upload that brings a certificate, the revalidation of   *)
(* pkd-management (the trust chain again), the daily revalidation of       *)
(* pkd-relay (the validity period again), and two ways to store a          *)
(* certificate without validating it: master lists, and the registration   *)
(* of document signers by pa-service.                                      *)
(***************************************************************************)
EXTENDS TrustChain, FiniteSets

CONSTANTS Job,         \* LDIF uploads under way in pkd-management
          Reval,       \* HTTP threads in revalidateDscCertificates
          Pkis,        \* the certificates there may be in the world
          OnList,      \* those that are on master lists
          UploadDepth, \* 10
          RevalDepth,  \* 5
          RelayAhead,  \* relay reads not_after, which is UTC, as local time
          MaxFaults    \* bound: failing statements, restarts and deletions

ASSUME DepthAssumption == UploadDepth \in Nat /\ RevalDepth \in Nat
ASSUME AheadAssumption == RelayAhead \in Nat
ASSUME OnListAssumption == OnList \subseteq Cert
ASSUME PkisAssumption == Pkis \subseteq Pki
ASSUME BoundsAssumption == MaxTime \in Nat /\ MaxFaults \in Nat

VARIABLES pki, now,
          cert,      \* who stored the certificate row: "none", "upload", "pa"
          listed,    \* with a row from a master list, of type CSCA
          result,    \* validation_result: {} or {row}
          cscaCache, \* of ValidationService's provider: {} or {the CSCAs}
          job, reval, relay, pa,
          seen,      \* history: the certificates that were stored at some time
          overtaken, \* history: rows found VALID anew after the relay saw them expire
          faults

validationVars == <<pki, now, cert, listed, result, cscaCache, job, reval, relay, pa, seen, overtaken, faults>>

\* An LDIF entry's type. validateCscaCertificate returns before it looks at the CA
\* flag of a certificate that is not self-signed: a link certificate is a DSC.
typeOf(c) == IF isSelfSigned(pki, c) THEN "CSCA" ELSE "DSC"
findAllCscas == {c \in Cert : cert[c] # "none" /\ typeOf(c) = "CSCA"} \cup listed

Row == [status : {"VALID", "EXPIRED_VALID", "INVALID", "PENDING"}, found : BOOLEAN, periodValid : BOOLEAN]
HasRow(c) == result[c] # {}
The(S) == CHOOSE x \in S : TRUE
Status(c) == The(result[c]).status

JobIdle == [pc |-> "idle", cache |-> {}, cert |-> {}, row |-> {}]
RevalIdle == [pc |-> "idle", todo |-> {}, cert |-> {}, row |-> {}, gone |-> {}]
RelayIdle == [pc |-> "idle", rows |-> [c \in Cert |-> {}], gone |-> {}]
PaIdle == [pc |-> "idle", cert |-> {}]

ValidationInit ==
    /\ pki \in Pkis /\ now = 0
    /\ cert = [c \in Cert |-> "none"] /\ listed = {}
    /\ result = [c \in Cert |-> {}]
    /\ cscaCache = {}
    /\ job = [j \in Job |-> JobIdle]
    /\ reval = [r \in Reval |-> RevalIdle]
    /\ relay = RelayIdle /\ pa = PaIdle
    /\ seen = {} /\ overtaken = {} /\ faults = 0

Fault == faults < MaxFaults /\ faults' = faults + 1

Tick ==
    /\ now < MaxTime /\ now' = now + 1
    /\ UNCHANGED <<pki, cert, listed, result, cscaCache, job, reval, relay, pa, seen, overtaken, faults>>

-----------------------------------------------------------------------------
(* An LDIF upload.                                                         *)

jobRest == <<pki, now, listed, cscaCache, reval, relay, pa, overtaken>>

\* preloadAllCscas
StartJob(j) ==
    /\ job[j].pc = "idle"
    /\ job' = [job EXCEPT ![j] = [JobIdle EXCEPT !.pc = "ready", !.cache = {findAllCscas}]]
    /\ UNCHANGED <<cert, result, seen, faults, jobRest>>

\* validateCscaCertificate: the own signature.
CscaRow(c) ==
    [status |-> IF <<c, c>> \in pki.signs THEN "VALID" ELSE "INVALID", found |-> FALSE, periodValid |-> TRUE]

\* validateDscCertificate, for whatever is not self-signed.
DscRow(c, cscas) ==
    LET expired == isCertificateExpired(pki, c, now)
        chain == IF isCertificateNotYetValid(pki, c, now)
                 THEN [valid |-> FALSE, found |-> FALSE, cscaExpired |-> FALSE]
                 ELSE Build(pki, c, cscas, now, UploadDepth)
    IN [status |-> IF chain.valid THEN (IF expired \/ chain.cscaExpired THEN "EXPIRED_VALID" ELSE "VALID")
                   ELSE IF chain.found THEN "INVALID" ELSE "PENDING",
        found |-> chain.found, periodValid |-> ~expired]

\* Duplicates are skipped, those that pa-service registered too. An invalidated
\* cache is loaded again by the first look-up.
Validate(j, c) ==
    LET cscas == IF job[j].cache = {} THEN findAllCscas ELSE The(job[j].cache)
        row == IF isSelfSigned(pki, c) THEN CscaRow(c) ELSE DscRow(c, cscas)
    IN
    /\ job[j].pc = "ready" /\ cert[c] = "none" /\ c \notin listed
    /\ job' = [job EXCEPT ![j] = [pc |-> "insert", cert |-> {c}, row |-> {row},
                                  cache |-> IF isSelfSigned(pki, c) THEN @.cache ELSE {cscas}]]
    /\ UNCHANGED <<cert, result, seen, faults, jobRest>>

\* The unique index refuses a certificate that came in the meantime. A new CSCA
\* invalidates this upload's cache.
InsertCert(j) ==
    LET c == The(job[j].cert) IN
    /\ job[j].pc = "insert"
    /\ IF cert[c] = "none" /\ ~(typeOf(c) = "CSCA" /\ c \in listed)
       THEN /\ cert' = [cert EXCEPT ![c] = "upload"] /\ seen' = seen \cup {c}
            /\ job' = [job EXCEPT ![j].pc = "save", ![j].cache = IF typeOf(c) = "CSCA" THEN {} ELSE @]
       ELSE job' = [job EXCEPT ![j].pc = "ready"] /\ UNCHANGED <<cert, seen>>
    /\ UNCHANGED <<result, faults, jobRest>>

\* ValidationRepository::save, which may fail; ON CONFLICT DO NOTHING.
SaveResult(j) ==
    LET c == The(job[j].cert) IN
    /\ job[j].pc = "save"
    /\ \/ result' = [result EXCEPT ![c] = IF HasRow(c) THEN @ ELSE job[j].row] /\ faults' = faults
       \/ Fault /\ result' = result
    /\ job' = [job EXCEPT ![j].pc = "ready", ![j].cert = {}, ![j].row = {}]
    /\ UNCHANGED <<cert, seen, jobRest>>

EndJob(j) ==
    /\ job[j].pc = "ready"
    /\ job' = [job EXCEPT ![j] = JobIdle]
    /\ UNCHANGED <<cert, result, seen, faults, jobRest>>

\* handleDelete, of the upload that brought c; the rows cascade. Who holds one
\* of their ids finds no row any more, even if the certificate comes back.
DeleteUpload(c) ==
    /\ cert[c] = "upload" /\ Fault
    /\ cert' = [cert EXCEPT ![c] = "none"]
    /\ result' = [result EXCEPT ![c] = {}]
    /\ job' = [j \in Job |-> IF job[j].pc = "save" /\ job[j].cert = {c} THEN [job[j] EXCEPT !.row = {}] ELSE job[j]]
    /\ reval' = [r \in Reval |-> IF reval[r].pc = "idle" THEN reval[r] ELSE [reval[r] EXCEPT !.gone = @ \cup {c}]]
    /\ relay' = IF relay.pc = "idle" THEN relay ELSE [relay EXCEPT !.gone = @ \cup {c}]
    /\ UNCHANGED <<pki, now, listed, cscaCache, pa, overtaken, seen>>

\* parseMasterListEntryV2 and processMasterListFile: no validation, no result, and
\* no cache is invalidated. Without the fingerprint cache, which an LDIF upload
\* loads, only a row of the same type is a duplicate.
MasterList(c) ==
    /\ c \in OnList \ listed /\ (cert[c] # "none" => typeOf(c) = "DSC")
    /\ listed' = listed \cup {c} /\ seen' = seen \cup {c}
    /\ UNCHANGED <<pki, now, cert, result, cscaCache, job, reval, relay, pa, overtaken, faults>>

DeleteList(c) ==
    /\ c \in listed /\ Fault
    /\ listed' = listed \ {c}
    /\ UNCHANGED <<pki, now, cert, result, cscaCache, job, reval, relay, pa, overtaken, seen>>

-----------------------------------------------------------------------------
(* POST /api/validation/revalidate.                                        *)

revalRest == <<pki, now, cert, listed, job, relay, pa, seen>>

\* Mutant of findDscForRevalidation: every document signer.
AllDscForRevalidation == {c \in Cert : cert[c] # "none" /\ typeOf(c) = "DSC" /\ HasRow(c)}

findDscForRevalidation ==
    {c \in Cert : /\ cert[c] # "none" /\ typeOf(c) = "DSC" /\ HasRow(c)
                  /\ ~The(result[c]).found /\ Status(c) \in {"INVALID", "PENDING"}}

StartReval(r) ==
    /\ reval[r].pc = "idle"
    /\ findDscForRevalidation # {}
    /\ reval' = [reval EXCEPT ![r] = [RevalIdle EXCEPT !.pc = "check", !.todo = findDscForRevalidation]]
    /\ UNCHANGED <<result, cscaCache, overtaken, faults, revalRest>>

\* validateCertificate. The provider loads its cache once and nobody ever
\* invalidates it.
Check(r, c) ==
    LET cscas == IF cscaCache = {} THEN findAllCscas ELSE The(cscaCache)
        early == isCertificateNotYetValid(pki, c, now)
        chain == Build(pki, c, cscas, now, RevalDepth)
        expired == isCertificateExpired(pki, c, now) \/ chain.cscaExpired
        ok == ~early /\ chain.valid
    IN
    /\ reval[r].pc = "check" /\ c \in reval[r].todo
    /\ cscaCache' = IF early THEN cscaCache ELSE {cscas}
    /\ reval' = [reval EXCEPT ![r] =
                  [pc |-> "write", todo |-> @.todo \ {c}, cert |-> {c}, gone |-> @.gone,
                   row |-> {[status |-> IF ~ok THEN "INVALID" ELSE IF expired THEN "EXPIRED_VALID" ELSE "VALID",
                             found |-> ok]}]]
    /\ UNCHANGED <<result, overtaken, faults, revalRest>>

\* updateRevalidation: whatever the row says by now, validity_period_valid
\* excepted.
WriteReval(r) ==
    LET c == The(reval[r].cert)
        new == The(reval[r].row)
        rows == IF c \in reval[r].gone THEN {} ELSE result[c]
    IN
    /\ reval[r].pc = "write"
    /\ \/ /\ result' = [result EXCEPT ![c] = IF rows = {} THEN @ ELSE {[o EXCEPT !.status = new.status, !.found = new.found] : o \in rows}]
          /\ overtaken' = IF \E o \in rows : ~o.periodValid /\ new.status = "VALID"
                          THEN overtaken \cup {c} ELSE overtaken
          /\ faults' = faults
       \/ Fault /\ UNCHANGED <<result, overtaken>>
    /\ reval' = [reval EXCEPT ![r] = IF @.todo = {} THEN RevalIdle
                                     ELSE [@ EXCEPT !.pc = "check", !.cert = {}, !.row = {}]]
    /\ UNCHANGED <<cscaCache, revalRest>>

\* pkd-management stops and starts again.
Restart ==
    /\ Fault
    /\ cscaCache' = {}
    /\ job' = [j \in Job |-> JobIdle]
    /\ reval' = [r \in Reval |-> RevalIdle]
    /\ UNCHANGED <<pki, now, cert, listed, result, relay, pa, seen, overtaken>>

-----------------------------------------------------------------------------
(* The daily revalidation of pkd-relay.                                    *)

relayRest == <<pki, now, cert, listed, cscaCache, job, reval, pa, seen, overtaken>>

isExpired(c) == pki.until[c] < now + RelayAhead

determineValidationStatus(expired, status) ==
    IF expired THEN "INVALID" ELSE IF status = "VALID" THEN "VALID" ELSE "PENDING"

\* findAllWithExpirationInfo
StartRelay ==
    /\ relay.pc = "idle"
    /\ relay' = [RelayIdle EXCEPT !.pc = "rows", !.rows =
                  [c \in Cert |-> {[status |-> o.status, periodValid |-> o.periodValid] : o \in result[c]}]]
    /\ UNCHANGED <<result, faults, relayRest>>

Processed(c) == relay' = [relay EXCEPT !.rows[c] = {}]

\* The row as it was read decides; ORDER BY not_after.
NextRow(c) ==
    /\ relay.pc = "rows" /\ relay.rows[c] # {}
    /\ \A o \in Cert : relay.rows[o] # {} => pki.until[c] <= pki.until[o]

Unchanged(c) ==
    /\ NextRow(c)
    /\ \E o \in relay.rows[c] : ~o.periodValid = isExpired(c)
    /\ Processed(c)
    /\ UNCHANGED <<result, faults, relayRest>>

\* Mutant of updateValidityStatus: the period is forgotten.
updateValidityStatusAlone(c, valid, status) ==
    result' = [result EXCEPT ![c] = IF c \in relay.gone THEN @ ELSE {[o EXCEPT !.status = status] : o \in @}]

updateValidityStatus(c, valid, status) ==
    result' = [result EXCEPT ![c] = IF c \in relay.gone THEN @
                                    ELSE {[o EXCEPT !.periodValid = valid, !.status = status] : o \in @}]

\* A row that is gone is an error in the figures, no more.
Changed(c) ==
    /\ NextRow(c)
    /\ \E o \in relay.rows[c] :
        /\ ~o.periodValid # isExpired(c)
        /\ updateValidityStatus(c, ~isExpired(c), determineValidationStatus(isExpired(c), o.status))
    /\ Processed(c)
    /\ UNCHANGED <<faults, relayRest>>

ChangeFails(c) ==
    /\ NextRow(c)
    /\ \E o \in relay.rows[c] : ~o.periodValid # isExpired(c)
    /\ Fault
    /\ Processed(c)
    /\ UNCHANGED <<result, relayRest>>

\* The figures go to uploaded_file and revalidation_history, which nothing here
\* reads: they are left out.
EndRelay ==
    /\ relay.pc = "rows" /\ \A c \in Cert : relay.rows[c] = {}
    /\ relay' = RelayIdle
    /\ UNCHANGED <<result, faults, relayRest>>

-----------------------------------------------------------------------------
(* pa-service registers the document signer of a verified document.        *)

paRest == <<pki, now, listed, result, cscaCache, job, reval, relay, overtaken, faults>>

\* registerDscFromSod: the look-up and the insertion are two statements. There
\* is no validation_result, and the status in the certificate row is the
\* validity period's.
LookUpDsc(c) ==
    /\ pa.pc = "idle" /\ typeOf(c) = "DSC" /\ cert[c] = "none"
    /\ c \notin OnList \* CA certificates sign no documents
    /\ pa' = [pc |-> "insert", cert |-> {c}]
    /\ UNCHANGED <<cert, seen, paRest>>

RegisterDsc ==
    LET c == The(pa.cert) IN
    /\ pa.pc = "insert"
    /\ cert' = [cert EXCEPT ![c] = IF @ = "none" THEN "pa" ELSE @]
    /\ seen' = seen \cup {c}
    /\ pa' = PaIdle
    /\ UNCHANGED paRest

-----------------------------------------------------------------------------

JobStep(j) ==
    StartJob(j) \/ InsertCert(j) \/ SaveResult(j) \/ EndJob(j) \/ \E c \in Cert : Validate(j, c)
RevalStep(r) == StartReval(r) \/ WriteReval(r) \/ \E c \in Cert : Check(r, c)
RelayStep == StartRelay \/ EndRelay \/ \E c \in Cert : Unchanged(c) \/ Changed(c) \/ ChangeFails(c)
PaStep == RegisterDsc \/ \E c \in Cert : LookUpDsc(c)

ValidationNext ==
    \/ Tick \/ Restart \/ RelayStep \/ PaStep
    \/ \E j \in Job : JobStep(j)
    \/ \E r \in Reval : RevalStep(r)
    \/ \E c \in Cert : DeleteUpload(c) \/ MasterList(c) \/ DeleteList(c)

ValidationSpec == ValidationInit /\ [][ValidationNext]_validationVars /\ WF_validationVars(RelayStep)

-----------------------------------------------------------------------------

ValidationTypeOK ==
    /\ pki \in Pkis /\ now \in 0..MaxTime
    /\ cert \in [Cert -> {"none", "upload", "pa"}] /\ listed \subseteq OnList
    /\ \A c \in Cert : result[c] \subseteq Row /\ Cardinality(result[c]) <= 1
    /\ \A c \in Cert : HasRow(c) => cert[c] = "upload"
    /\ \A S \in cscaCache : S \subseteq seen
    /\ \A j \in Job : /\ job[j].pc \in {"idle", "ready", "insert", "save"}
                      /\ job[j].cert \subseteq Cert /\ job[j].row \subseteq Row
                      /\ \A S \in job[j].cache : S \subseteq seen
    /\ \A r \in Reval : reval[r].pc \in {"idle", "check", "write"} /\ reval[r].todo \subseteq Cert
    /\ relay.pc \in {"idle", "rows"} /\ pa.pc \in {"idle", "insert"}
    /\ seen \subseteq Cert /\ overtaken \subseteq Cert
    /\ faults \in 0..MaxFaults

\* Whoever wrote it last: a certificate found VALID or EXPIRED_VALID has a chain
\* of true signatures, through certificates that were in the database, to a root
\* that signs itself. A name that matches is never enough.
ValidIsAnchored ==
    LET sound == anchored(pki, seen)
    IN \A c \in Cert : HasRow(c) /\ Status(c) \in {"VALID", "EXPIRED_VALID"} => c \in sound

\* A document signer whose CSCA is still missing stays in reach of the next
\* revalidation, which looks at csca_found and not only at the status.
PendingIsRetried ==
    \A c \in Cert : HasRow(c) /\ typeOf(c) = "DSC" /\ Status(c) = "PENDING" =>
        c \in findDscForRevalidation

\* Once the relay has noticed that a certificate expired its row does not say
\* VALID, unless a revalidation that overlapped wrote over it.
ExpiredIsNotValid ==
    \A c \in Cert : HasRow(c) /\ ~The(result[c]).periodValid /\ Status(c) = "VALID" => c \in overtaken

\* With one revalidation at a time pkd-management never takes a VALID or
\* EXPIRED_VALID back: neither with an old cache, nor by an upload of the same
\* certificate, nor after a restart. Only the relay does, for an expired one. (Two
\* revalidations may write their answers in the other order, see the README.)
NotTakenBack ==
    [][\A c \in Cert : HasRow(c) /\ result'[c] # {} /\ Status(c) \in {"VALID", "EXPIRED_VALID"} =>
            \/ The(result'[c]).status \in {"VALID", "EXPIRED_VALID"}
            \/ isExpired(c) /\ relay' # relay]_validationVars

\* The expiry of certificates is noticed: with a run a day, and faults that end,
\* a time comes when no row says that the period of an expired certificate is valid.
Overdue == {c \in Cert : isExpired(c) /\ \E o \in result[c] : o.periodValid}
ExpiryIsNoticed == []<>(Overdue = {})

-----------------------------------------------------------------------------
(* What a comment or another part promises and TLC refutes: see the README.  *)

\* Expiry is only informational: it never makes a certificate INVALID.
ExpiryIsInformational ==
    [][\A c \in Cert : HasRow(c) /\ result'[c] # {} /\ Status(c) \in {"VALID", "EXPIRED_VALID"} =>
            The(result'[c]).status # "INVALID"]_validationVars

\* A document signer whose CSCA has come is found VALID by some revalidation, if
\* revalidations go on.
CscaIsNoticed ==
    \A c \in Cert :
        HasRow(c) /\ typeOf(c) = "DSC" /\ Build(pki, c, findAllCscas, now, RevalDepth).valid
            ~> ~HasRow(c) \/ Status(c) \in {"VALID", "EXPIRED_VALID"}

RevalSpec == ValidationSpec /\ \A r \in Reval : WF_validationVars(RevalStep(r))

\* A CA certificate that was stored serves as an issuer, however it came.
LinksAreIssuers == \A c \in OnList : cert[c] # "none" => c \in findAllCscas

\* A document signer has a validation result once nothing of it is under way.
RegisteredIsValidated ==
    \A c \in Cert : cert[c] # "none" /\ (\A j \in Job : job[j].cert # {c}) => HasRow(c)

=============================================================================
