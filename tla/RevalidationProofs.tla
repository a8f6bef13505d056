------------------------- MODULE RevalidationProofs -------------------------
(***************************************************************************)
(* What is proved of the status of certificates and of the thread that     *)
(* renews it every day.                                                    *)
(*                                                                         *)
(* First the trust chain: what Build accepts is anchored, for chains and   *)
(* stores of any size; then the table of results, for any number of        *)
(* certificates, uploads, revalidations, restarts and faults; and last the *)
(* scheduler, for any number of HTTP threads, configurations and restarts. *)
(***************************************************************************)
EXTENDS Validation, SyncScheduler, FiniteSetTheorems, WellFoundedInduction, TLAPS

-----------------------------------------------------------------------------
(* The trust chain.                                                        *)

\* Every set of naturals has a least element, and a set that has 0 and with each
\* natural the next one has them all.
LEMMA Least ==
    ASSUME NEW T \in SUBSET Nat, T # {}
    PROVE  \E n \in T : \A m \in T : n <= m
<1> DEFINE R == OpToRel(<, Nat)
<1>1. IsWellFoundedOn(R, Nat)
    BY NatLessThanWellFounded
<1>2. \A m, n \in Nat : <<m, n>> \in R <=> m < n
    BY DEF OpToRel
<1> HIDE DEF R
<1>3. PICK n \in T : \A m \in T : ~ (<<m, n>> \in R)
    BY <1>1, WFMin
<1>4. \A m \in T : m \in Nat /\ n \in Nat /\ ~(m < n)
    BY <1>2, <1>3
<1> QED
    BY <1>4

\* Induction over the naturals, for sets: no operator is a parameter.
LEMMA Induction ==
    ASSUME NEW S, 0 \in S, \A n \in Nat : n \in S => n + 1 \in S
    PROVE  Nat \subseteq S
<1> SUFFICES ASSUME Nat \ S # {} PROVE FALSE
    OBVIOUS
<1>1. PICK n \in Nat \ S : \A m \in Nat \ S : n <= m
    BY Least
<1>2. n # 0 /\ n - 1 \in Nat
    BY <1>1
<1>3. n - 1 \in S
    BY <1>1, <1>2
<1> QED
    BY <1>1, <1>2, <1>3

-----------------------------------------------------------------------------
(* The walk.                                                               *)

\* The first of some certificates is one of them.
LEMMA FirstIsMember ==
    ASSUME NEW p \in Pki, NEW S \in SUBSET Cert, S # {}
    PROVE  First(p, S) \in S
<1> DEFINE T == {p.rank[s] : s \in S}
<1>1. T \in SUBSET Nat /\ T # {}
    BY DEF Pki
<1>2. PICK n \in T : \A m \in T : n <= m
    BY <1>1, Least
<1>3. \E s \in S : \A o \in S : p.rank[s] <= p.rank[o]
    BY <1>2
<1> QED
    BY <1>3 DEF First

\* An issuer is a CSCA of the name looked for.
LEMMA IssuerFacts ==
    ASSUME NEW p \in Pki, NEW c \in Cert, NEW cscas \in SUBSET Cert,
           findAllCscasByIssuerDn(p, c, cscas) # {}
    PROVE  issuerOf(p, c, cscas) \in cscas /\ p.subject[issuerOf(p, c, cscas)] = p.issuer[c]
<1> DEFINE S == IF verified(p, c, cscas) # {} THEN verified(p, c, cscas) ELSE findAllCscasByIssuerDn(p, c, cscas)
<1>1. S \in SUBSET Cert /\ S # {} /\ S \subseteq findAllCscasByIssuerDn(p, c, cscas)
    BY DEF verified, findAllCscasByIssuerDn
<1>2. First(p, S) \in S
    BY <1>1, FirstIsMember
<1> QED
    BY <1>1, <1>2 DEF issuerOf, findAllCscasByIssuerDn

\* A step of the walk leads to a place.
LEMMA ClimbIsPosition ==
    ASSUME NEW p \in Pki, NEW cscas \in SUBSET Cert, NEW t, NEW x \in Position, ~isStuck(p, x, cscas)
    PROVE  /\ Climb(p, x, cscas, t) \in Position
           /\ Climb(p, x, cscas, t).cert = issuerOf(p, x.cert, cscas)
           /\ Climb(p, x, cscas, t).ok = (x.ok /\ <<issuerOf(p, x.cert, cscas), x.cert>> \in p.signs)
<1>1. x.cert \in Cert /\ findAllCscasByIssuerDn(p, x.cert, cscas) # {}
    BY DEF isStuck, Position
<1>2. issuerOf(p, x.cert, cscas) \in Cert
    BY <1>1, IssuerFacts
<1>3. p.issuer[x.cert] \in Name
    BY <1>1 DEF Pki
<1> QED
    BY <1>2, <1>3 DEF Climb, Position

\* The recursion of the walk has a solution, by induction over the depth.
LEMMA WalkSolution ==
    ASSUME NEW p, NEW cscas, NEW t, NEW n \in Nat
    PROVE  \E w : w = [m \in 0..n |-> IF m = 0 THEN Nowhere ELSE Level(p, cscas, t, w[m - 1])]
<1> DEFINE Rise(f) == Level(p, cscas, t, f)
           S == {k \in Nat : \E w : w = [m \in 0..k |-> IF m = 0 THEN Nowhere ELSE Rise(w[m - 1])]}
<1> HIDE DEF Rise
<1>1. 0 \in S
    <2> DEFINE w == [m \in 0..0 |-> Nowhere]
    <2>1. w = [m \in 0..0 |-> IF m = 0 THEN Nowhere ELSE Rise(w[m - 1])]
        OBVIOUS
    <2> QED
        BY <2>1
<1>2. ASSUME NEW k \in Nat, k \in S PROVE k + 1 \in S
    <2>1. PICK w : w = [m \in 0..k |-> IF m = 0 THEN Nowhere ELSE Rise(w[m - 1])]
        BY <1>2
    <2> DEFINE v == [m \in 0..(k + 1) |-> IF m = k + 1 THEN Rise(w[k]) ELSE w[m]]
    <2>2. \A m \in 0..(k + 1) : v[m] = IF m = 0 THEN Nowhere ELSE Rise(v[m - 1])
        <3> TAKE m \in 0..(k + 1)
        <3>1. CASE m = k + 1
            <4>1. v[m] = Rise(w[k]) /\ v[k] = w[k] /\ m # 0 /\ m - 1 = k
                BY <3>1
            <4> QED
                BY <4>1
        <3>2. CASE m # k + 1
            <4>1. m \in 0..k /\ v[m] = w[m]
                BY <3>2
            <4>2. w[m] = IF m = 0 THEN Nowhere ELSE Rise(w[m - 1])
                BY <2>1, <4>1
            <4>3. m # 0 => v[m - 1] = w[m - 1]
                BY <4>1
            <4> HIDE DEF v
            <4> QED
                BY <4>1, <4>2, <4>3
        <3> QED
            BY <3>1, <3>2
    <2>3. v = [m \in 0..(k + 1) |-> v[m]]
        OBVIOUS
    <2> HIDE DEF v
    <2>4. v = [m \in 0..(k + 1) |-> IF m = 0 THEN Nowhere ELSE Rise(v[m - 1])]
        BY <2>2, <2>3
    <2> QED
        BY <2>4
<1>3. n \in S
    BY <1>1, <1>2, Induction
<1> QED
    BY <1>3 DEF Rise

\* Walk is what its definition says, for every depth.
LEMMA WalkEquation ==
    ASSUME NEW p, NEW cscas, NEW t, NEW maxDepth \in Nat
    PROVE  /\ Walk(p, cscas, t, maxDepth)[0] = Nowhere
           /\ \A n \in 1..maxDepth :
                 Walk(p, cscas, t, maxDepth)[n] = Level(p, cscas, t, Walk(p, cscas, t, maxDepth)[n - 1])
<1> DEFINE w == Walk(p, cscas, t, maxDepth)
<1>1. w = [m \in 0..maxDepth |-> IF m = 0 THEN Nowhere ELSE Level(p, cscas, t, w[m - 1])]
    BY WalkSolution DEF Walk
<1> HIDE DEF w
<1>2. w[0] = Nowhere /\ \A n \in 1..maxDepth : w[n] = Level(p, cscas, t, w[n - 1])
    BY <1>1
<1> QED
    BY <1>2 DEF w

\* A chain that is found valid is one: whoever is asked from a place below which
\* all signatures verified answers "valid" for anchored certificates alone.
THEOREM BuildIsSound ==
    ASSUME NEW p \in Pki, NEW cscas \in SUBSET Cert, NEW t, NEW maxDepth \in Nat, NEW leaf \in Cert,
           Build(p, leaf, cscas, t, maxDepth).valid
    PROVE  leaf \in anchored(p, cscas)
<1> DEFINE w == Walk(p, cscas, t, maxDepth)
           Sound(k) == \A x \in Position : w[k][x].valid => x.ok /\ x.cert \in anchored(p, cscas)
           S == {k \in Nat : k <= maxDepth => Sound(k)}
<1>0. /\ w[0] = Nowhere
      /\ \A n \in 1..maxDepth : w[n] = Level(p, cscas, t, w[n - 1])
    BY WalkEquation
<1> HIDE DEF w
<1>1. 0 \in S
    BY <1>0 DEF Nowhere, NoChain
<1>2. ASSUME NEW k \in Nat, k \in S PROVE k + 1 \in S
    <2> SUFFICES ASSUME k + 1 <= maxDepth, NEW x \in Position, w[k + 1][x].valid
                 PROVE  x.ok /\ x.cert \in anchored(p, cscas)
        OBVIOUS
    <2>1. w[k + 1] = Level(p, cscas, t, w[k]) /\ Sound(k) /\ x.cert \in Cert
        BY <1>0, <1>2 DEF Position
    <2>2. CASE isRoot(p, x.cert)
        <3>1. x.ok
            BY <2>1, <2>2 DEF Level
        <3>2. x.cert \in anchored(p, cscas)
            BY <2>1, <2>2 DEF anchored, closed
        <3> QED
            BY <3>1, <3>2
    <2>3. CASE ~isRoot(p, x.cert)
        <3> DEFINE y == Climb(p, x, cscas, t)
        <3>1. ~isStuck(p, x, cscas) /\ w[k][y].valid
            BY <2>1, <2>3 DEF Level, NoChain
        <3>2. /\ y \in Position /\ y.cert = issuerOf(p, x.cert, cscas)
              /\ y.ok = (x.ok /\ <<issuerOf(p, x.cert, cscas), x.cert>> \in p.signs)
            BY <3>1, ClimbIsPosition
        <3>3. y.cert \in cscas /\ p.subject[y.cert] = p.issuer[x.cert]
            BY <2>1, <3>1, <3>2, IssuerFacts DEF isStuck
        <3> HIDE DEF y
        <3>4. y.ok /\ y.cert \in anchored(p, cscas)
            BY <2>1, <3>1, <3>2
        <3>5. x.ok /\ <<y.cert, x.cert>> \in p.signs
            BY <3>2, <3>4
        <3> QED
            BY <2>1, <3>3, <3>4, <3>5 DEF anchored, closed
    <2> QED
        BY <2>2, <2>3
<1>3. maxDepth \in S
    BY <1>1, <1>2, Induction
<1>4. Foot(leaf) \in Position /\ Foot(leaf).cert = leaf
    BY DEF Foot, Position
<1> QED
    BY <1>3, <1>4 DEF Build, w

\* More CSCAs anchor more.
LEMMA AnchoredGrows ==
    ASSUME NEW p, NEW S, NEW T, S \subseteq T
    PROVE  anchored(p, S) \subseteq anchored(p, T)
BY DEF anchored, closed
\* What the walk finds says whether there is a chain, and of what kind.
LEMMA BuildIsChain ==
    ASSUME NEW p \in Pki, NEW cscas \in SUBSET Cert, NEW t, NEW maxDepth \in Nat, NEW leaf \in Cert
    PROVE  Build(p, leaf, cscas, t, maxDepth) \in Chain
<1> DEFINE w == Walk(p, cscas, t, maxDepth)
           S == {k \in Nat : k <= maxDepth => \A x \in Position : w[k][x] \in Chain}
<1>0. /\ w[0] = Nowhere
      /\ \A n \in 1..maxDepth : w[n] = Level(p, cscas, t, w[n - 1])
    BY WalkEquation
<1> HIDE DEF w
<1>1. 0 \in S
    <2>1. NoChain \in Chain
        BY DEF NoChain, Chain
    <2> QED
        BY <1>0, <2>1 DEF Nowhere
<1>2. ASSUME NEW k \in Nat, k \in S PROVE k + 1 \in S
    <2> SUFFICES ASSUME k + 1 <= maxDepth, NEW x \in Position PROVE w[k + 1][x] \in Chain
        OBVIOUS
    <2>1. w[k + 1] = Level(p, cscas, t, w[k])
        BY <1>0
    <2>2. CASE ~isRoot(p, x.cert) /\ ~isStuck(p, x, cscas)
        <3>1. Climb(p, x, cscas, t) \in Position
            BY <2>2, ClimbIsPosition
        <3>2. w[k][Climb(p, x, cscas, t)] \in Chain
            BY <1>2, <3>1
        <3> QED
            BY <2>1, <2>2, <3>2 DEF Level
    <2>3. CASE isRoot(p, x.cert) \/ isStuck(p, x, cscas)
        BY <2>1, <2>3 DEF Level, Chain, NoChain, Position
    <2> QED
        BY <2>2, <2>3
<1>3. maxDepth \in S
    BY <1>1, <1>2, Induction
<1>4. Foot(leaf) \in Position
    BY DEF Foot, Position
<1> QED
    BY <1>3, <1>4 DEF Build, w

-----------------------------------------------------------------------------
(* The certificates and their rows.                                        *)

Statuses == {"VALID", "EXPIRED_VALID", "INVALID", "PENDING"}

\* Who is in the middle of something holds one certificate, and one row at most.
Jobs == [pc : {"idle", "ready", "insert", "save"}, cache : SUBSET SUBSET Cert,
         cert : SUBSET Cert, row : SUBSET Row]
Answer == [status : {"VALID", "EXPIRED_VALID", "INVALID"}, found : BOOLEAN]
Revals == [pc : {"idle", "check", "write"}, todo : SUBSET Cert, cert : SUBSET Cert,
           row : SUBSET Answer, gone : SUBSET Cert]
Relays == [pc : {"idle", "rows"}, rows : [Cert -> SUBSET [status : Statuses, periodValid : BOOLEAN]],
           gone : SUBSET Cert]
AtMostOne(S) == \A a, b \in S : a = b

ValidationShape ==
    /\ pki \in Pkis /\ now \in 0..MaxTime /\ faults \in 0..MaxFaults
    /\ cert \in [Cert -> {"none", "upload", "pa"}] /\ listed \subseteq OnList
    /\ result \in [Cert -> SUBSET Row] /\ \A c \in Cert : AtMostOne(result[c])
    /\ job \in [Job -> Jobs]
    /\ \A j \in Job : /\ job[j].pc \in {"insert", "save"} => \E c \in Cert : job[j].cert = {c}
                      /\ AtMostOne(job[j].row)
    /\ reval \in [Reval -> Revals]
    /\ \A r \in Reval : /\ reval[r].pc = "write" =>
                              \E c \in Cert \ reval[r].todo : reval[r].cert = {c} /\ reval[r].row # {}
                        /\ reval[r].pc = "idle" => reval[r].todo = {}
                        /\ reval[r].pc # "write" => reval[r].cert = {}
    /\ relay \in Relays
    /\ pa \in [pc : {"idle", "insert"}, cert : SUBSET Cert]
    /\ pa.pc = "insert" => \E c \in Cert : pa.cert = {c}
    /\ seen \subseteq Cert /\ overtaken \subseteq Cert

\* Whatever serves as an issuer was stored at some time.
CachesSeen ==
    /\ \A c \in Cert : cert[c] # "none" => c \in seen
    /\ listed \subseteq seen
    /\ \A S \in cscaCache : S \subseteq seen
    /\ \A j \in Job : \A S \in job[j].cache : S \subseteq seen

Good == {"VALID", "EXPIRED_VALID"}
Earned(c, o) == o.status \in Good => c \in anchored(pki, seen)

\* A good status is earned wherever it is: in the table, in the hands of an upload
\* or of a revalidation, in what the relay read.
RowsEarned ==
    /\ \A c \in Cert : \A o \in result[c] : Earned(c, o)
    /\ \A j \in Job : \A c \in job[j].cert : \A o \in job[j].row : Earned(c, o)
    /\ \A r \in Reval : \A c \in reval[r].cert : \A o \in reval[r].row : Earned(c, o)
    /\ \A c \in Cert : \A o \in relay.rows[c] : Earned(c, o)

\* A row goes with its certificate, and comes with it.
RowsHaveCert ==
    /\ \A c \in Cert : result[c] # {} => cert[c] = "upload"
    /\ \A j \in Job : \A c \in job[j].cert : job[j].pc = "save" /\ job[j].row # {} => cert[c] = "upload"

ValidationInv == ValidationShape /\ CachesSeen /\ RowsEarned /\ RowsHaveCert

\* No row says that the validity period is over before the relay would say so; a
\* row that is PENDING has no CSCA; and one that is VALID in spite of a period
\* that is over was written by a revalidation that did not look.
Truthful(c, o) ==
    /\ ~o.periodValid => isExpired(c)
    /\ o.status = "PENDING" => ~o.found
    /\ ~o.periodValid /\ o.status = "VALID" => c \in overtaken

RowsTruthful ==
    /\ \A c \in Cert : \A o \in result[c] : Truthful(c, o)
    /\ \A j \in Job : \A c \in job[j].cert : \A o \in job[j].row : Truthful(c, o)
    /\ \A c \in Cert : \A o \in relay.rows[c] : ~o.periodValid => isExpired(c)

\* What a revalidation has still to check or to write, and nobody deleted, has a
\* row, and not a good one.
StillBad ==
    \A r \in Reval : \A c \in (reval[r].todo \cup reval[r].cert) \ reval[r].gone :
        result[c] # {} /\ \A o \in result[c] : o.status \notin Good

\* The table with the answer of a revalidation in it, and with the relay's.
Answered(c, new) ==
    [result EXCEPT ![c] = {[o EXCEPT !.status = new.status, !.found = new.found] : o \in result[c]}]
Redated(c, st) ==
    [result EXCEPT ![c] = {[q EXCEPT !.periodValid = ~isExpired(c), !.status = st] : q \in result[c]}]

-----------------------------------------------------------------------------
(* What the invariant says of the rows that are made.                      *)

\* A status that was earned stays earned while more certificates come.
LEMMA EarnedStays ==
    ASSUME pki' = pki, seen \subseteq seen'
    PROVE  \A c, o : Earned(c, o) => Earned(c, o)'
<1>1. anchored(pki, seen) \subseteq anchored(pki, seen')
    BY AnchoredGrows
<1>2. anchored(pki, seen)' = anchored(pki, seen')
    BY DEF anchored, closed, isRoot, isSelfSigned
<1> QED
    BY <1>1, <1>2 DEF Earned, Good

\* An issuer in the database was stored.
LEMMA CscasSeen == ASSUME CachesSeen PROVE findAllCscas \subseteq seen
BY DEF CachesSeen, findAllCscas

\* A self-signed certificate that verifies with its own key is anchored.
LEMMA CscaRowFacts ==
    ASSUME NEW c \in Cert, isSelfSigned(pki, c)
    PROVE  CscaRow(c) \in Row /\ Earned(c, CscaRow(c)) /\ Truthful(c, CscaRow(c))
BY DEF CscaRow, Row, Earned, Truthful, Good, anchored, closed, isRoot

\* An upload finds a document signer good only if it is anchored.
LEMMA DscRowFacts ==
    ASSUME ValidationShape, NEW c \in Cert, NEW cscas, cscas \subseteq seen
    PROVE  DscRow(c, cscas) \in Row /\ Earned(c, DscRow(c, cscas)) /\ Truthful(c, DscRow(c, cscas))
<1> DEFINE early == isCertificateNotYetValid(pki, c, now)
           built == Build(pki, c, cscas, now, UploadDepth)
           chain == IF early THEN NoChain ELSE built
           o == DscRow(c, cscas)
           expired == isCertificateExpired(pki, c, now)
<1>1. pki \in Pki /\ cscas \in SUBSET Cert /\ seen \in SUBSET Cert /\ UploadDepth \in Nat
    BY PkisAssumption, DepthAssumption DEF ValidationShape
<1>2. built \in Chain /\ (built.valid => c \in anchored(pki, cscas))
    BY <1>1, BuildIsChain, BuildIsSound
<1>3. chain \in Chain /\ (chain.valid => c \in anchored(pki, seen))
    BY <1>2, AnchoredGrows DEF Chain, NoChain
<1>4. o = [status |-> IF chain.valid THEN (IF expired \/ chain.cscaExpired THEN "EXPIRED_VALID" ELSE "VALID")
                      ELSE IF chain.found THEN "INVALID" ELSE "PENDING",
           found |-> chain.found, periodValid |-> ~expired]
    BY DEF DscRow, NoChain
<1> HIDE DEF chain, o
<1>5. o \in Row /\ Earned(c, o)
    BY <1>3, <1>4 DEF Row, Chain, Earned, Good
<1>6. expired => isExpired(c)
    BY <1>1, AheadAssumption, BoundsAssumption DEF isCertificateExpired, isExpired, ValidationShape, Pki
<1>7. Truthful(c, o)
    BY <1>3, <1>4, <1>6 DEF Truthful, Chain
<1> QED
    BY <1>5, <1>7 DEF o

-----------------------------------------------------------------------------
(* Every step keeps the invariant.                                         *)

\* Nothing is stored and nobody is at work.
LEMMA ValidationInitInv == ValidationInit => ValidationInv
<1> SUFFICES ASSUME ValidationInit PROVE ValidationInv
    OBVIOUS
<1>1. JobIdle \in Jobs /\ RevalIdle \in Revals /\ RelayIdle \in Relays
    BY DEF JobIdle, RevalIdle, RelayIdle, Jobs, Revals, Relays
<1>2. ValidationShape
    BY <1>1, BoundsAssumption DEF ValidationInit, ValidationShape, AtMostOne, PaIdle, JobIdle, RevalIdle
<1>3. CachesSeen /\ RowsEarned /\ RowsHaveCert
    BY DEF ValidationInit, CachesSeen, RowsEarned, RowsHaveCert, JobIdle, RevalIdle, RelayIdle
<1> QED
    BY <1>2, <1>3 DEF ValidationInv

\* Time passes, or nothing happens.
LEMMA TickStep == ASSUME ValidationInv, Tick \/ UNCHANGED validationVars PROVE ValidationInv'
<1>1. /\ UNCHANGED <<pki, cert, listed, result, cscaCache, job, reval, relay, pa, seen, overtaken, faults>>
      /\ now' \in 0..MaxTime
    BY BoundsAssumption DEF Tick, validationVars, ValidationInv, ValidationShape
<1>2. \A c, o : Earned(c, o) => Earned(c, o)'
    BY <1>1, EarnedStays
<1>3. ValidationShape'
    BY <1>1 DEF ValidationInv, ValidationShape
<1>4. RowsEarned'
    BY <1>1, <1>2 DEF ValidationInv, RowsEarned
<1>5. CachesSeen' /\ RowsHaveCert'
    BY <1>1 DEF ValidationInv, CachesSeen, RowsHaveCert
<1> QED
    BY <1>3, <1>4, <1>5 DEF ValidationInv

\* Every step of an upload keeps the invariant.
LEMMA StartJobStep == ASSUME ValidationInv, NEW j \in Job, StartJob(j) PROVE ValidationInv'
<1> DEFINE q == [JobIdle EXCEPT !.pc = "ready", !.cache = {findAllCscas}]
<1>1. /\ UNCHANGED <<pki, now, cert, listed, result, cscaCache, reval, relay, pa, seen, overtaken, faults>>
      /\ job' = [job EXCEPT ![j] = q]
    BY DEF StartJob, jobRest
<1>2. findAllCscas \subseteq seen /\ seen \subseteq Cert
    BY CscasSeen DEF ValidationInv, ValidationShape
<1>3. q \in Jobs /\ q.pc = "ready" /\ q.cache = {findAllCscas} /\ q.cert = {} /\ q.row = {}
    <2> DEFINE one == {findAllCscas}
    <2>1. one \in SUBSET SUBSET Cert
        BY <1>2
    <2> HIDE DEF one
    <2>2. LET e == [JobIdle EXCEPT !.pc = "ready", !.cache = one]
          IN  e \in Jobs /\ e.pc = "ready" /\ e.cache = one /\ e.cert = {} /\ e.row = {}
        BY <2>1 DEF JobIdle, Jobs
    <2> QED
        BY <2>2 DEF one
<1> HIDE DEF q
<1>4. \A c, o : Earned(c, o) => Earned(c, o)'
    BY <1>1, EarnedStays
<1>5. job'[j] = q /\ \A i \in Job \ {j} : job'[i] = job[i]
    BY <1>1 DEF ValidationInv, ValidationShape
<1>6. ValidationShape'
    BY <1>1, <1>3, <1>5 DEF ValidationInv, ValidationShape, AtMostOne
<1>7. CachesSeen'
    BY <1>1, <1>2, <1>3, <1>5 DEF ValidationInv, CachesSeen
<1>8. RowsEarned' /\ RowsHaveCert'
    BY <1>1, <1>3, <1>4, <1>5 DEF ValidationInv, RowsEarned, RowsHaveCert
<1> QED
    BY <1>6, <1>7, <1>8 DEF ValidationInv

LEMMA EndJobStep == ASSUME ValidationInv, NEW j \in Job, EndJob(j) PROVE ValidationInv'
<1>1. /\ UNCHANGED <<pki, now, cert, listed, result, cscaCache, reval, relay, pa, seen, overtaken, faults>>
      /\ job' = [job EXCEPT ![j] = JobIdle]
    BY DEF EndJob, jobRest
<1>2. JobIdle \in Jobs /\ JobIdle = [pc |-> "idle", cache |-> {}, cert |-> {}, row |-> {}]
    BY DEF JobIdle, Jobs
<1>3. \A c, o : Earned(c, o) => Earned(c, o)'
    BY <1>1, EarnedStays
<1>4. job'[j] = JobIdle /\ \A i \in Job \ {j} : job'[i] = job[i]
    BY <1>1 DEF ValidationInv, ValidationShape
<1>5. ValidationShape'
    BY <1>1, <1>2, <1>4 DEF ValidationInv, ValidationShape, AtMostOne
<1>6. CachesSeen' /\ RowsEarned' /\ RowsHaveCert'
    BY <1>1, <1>2, <1>3, <1>4 DEF ValidationInv, CachesSeen, RowsEarned, RowsHaveCert
<1> QED
    BY <1>5, <1>6 DEF ValidationInv

\* The CSCAs an upload validates against, and what it finds.
LEMMA ValidateFacts ==
    ASSUME ValidationInv, NEW j \in Job, NEW c \in Cert, Validate(j, c)
    PROVE  \E cscas, row :
              /\ cscas \subseteq seen
              /\ row \in Row /\ Earned(c, row) /\ Truthful(c, row)
              /\ \E kept \in {job[j].cache, {cscas}} :
                    job' = [job EXCEPT ![j] = [pc |-> "insert", cert |-> {c}, row |-> {row}, cache |-> kept]]
<1> DEFINE cscas == IF job[j].cache = {} THEN findAllCscas ELSE The(job[j].cache)
           row == IF isSelfSigned(pki, c) THEN CscaRow(c) ELSE DscRow(c, cscas)
<1>1. cscas \subseteq seen
    BY CscasSeen DEF ValidationInv, CachesSeen, The
<1>2. ValidationShape
    BY DEF ValidationInv
<1>3. row \in Row /\ Earned(c, row) /\ Truthful(c, row)
    <2>1. CASE isSelfSigned(pki, c)
        BY <2>1, CscaRowFacts
    <2>2. CASE ~isSelfSigned(pki, c)
        BY <1>1, <1>2, <2>2, DscRowFacts
    <2> QED
        BY <2>1, <2>2
<1>4. job' = [job EXCEPT ![j] = [pc |-> "insert", cert |-> {c}, row |-> {row},
                                 cache |-> IF isSelfSigned(pki, c) THEN job[j].cache ELSE {cscas}]]
    BY DEF Validate
<1> HIDE DEF cscas, row
<1> QED
    BY <1>1, <1>3, <1>4

\* What validateDscCertificate found is in the hands of the upload.
LEMMA ValidateStep == ASSUME ValidationInv, NEW j \in Job, NEW c \in Cert, Validate(j, c) PROVE ValidationInv'
<1>1. PICK cscas, row :
              /\ cscas \subseteq seen /\ row \in Row /\ Earned(c, row)
              /\ \E kept \in {job[j].cache, {cscas}} :
                    job' = [job EXCEPT ![j] = [pc |-> "insert", cert |-> {c}, row |-> {row}, cache |-> kept]]
    BY ValidateFacts
<1>2. PICK kept \in {job[j].cache, {cscas}} :
          job' = [job EXCEPT ![j] = [pc |-> "insert", cert |-> {c}, row |-> {row}, cache |-> kept]]
    BY <1>1
<1> DEFINE q == [pc |-> "insert", cert |-> {c}, row |-> {row}, cache |-> kept]
<1>3. UNCHANGED <<pki, now, cert, listed, result, cscaCache, reval, relay, pa, seen, overtaken, faults>>
    BY DEF Validate, jobRest
<1>4. \A S \in kept : S \subseteq seen /\ S \subseteq Cert
    BY <1>1 DEF ValidationInv, ValidationShape, CachesSeen
<1>5. q \in Jobs /\ q.pc = "insert" /\ q.cert = {c} /\ q.row = {row} /\ q.cache = kept
    BY <1>1, <1>4 DEF Jobs
<1> HIDE DEF q
<1>6. job'[j] = q /\ \A i \in Job \ {j} : job'[i] = job[i]
    BY <1>2 DEF ValidationInv, ValidationShape, q
<1>7. job' \in [Job -> Jobs]
    BY <1>2, <1>5 DEF ValidationInv, ValidationShape, q
<1>8. \A d, o : Earned(d, o) => Earned(d, o)'
    BY <1>3, EarnedStays
<1>9. ValidationShape'
    BY <1>3, <1>5, <1>6, <1>7 DEF ValidationInv, ValidationShape, AtMostOne
<1>10. CachesSeen'
    BY <1>3, <1>4, <1>5, <1>6 DEF ValidationInv, CachesSeen
<1>11. RowsEarned' /\ RowsHaveCert'
    BY <1>1, <1>3, <1>5, <1>6, <1>8 DEF ValidationInv, RowsEarned, RowsHaveCert
<1> QED
    BY <1>9, <1>10, <1>11 DEF ValidationInv

\* The certificate is stored, or is there already.
LEMMA InsertCertStep == ASSUME ValidationInv, NEW j \in Job, InsertCert(j) PROVE ValidationInv'
<1>1. PICK c \in Cert : job[j].cert = {c} /\ c = The(job[j].cert)
    BY DEF InsertCert, ValidationInv, ValidationShape, The
<1>2. UNCHANGED <<pki, now, listed, result, cscaCache, reval, relay, pa, overtaken, faults>>
    BY DEF InsertCert, jobRest
<1>3. CASE cert' = cert /\ seen' = seen /\ job' = [job EXCEPT ![j].pc = "ready"]
    <2>1. /\ \A i \in Job \ {j} : job'[i] = job[i]
          /\ job'[j] = [job[j] EXCEPT !.pc = "ready"]
        BY <1>3 DEF ValidationInv, ValidationShape
    <2>2. /\ job'[j] \in Jobs /\ job'[j].pc = "ready" /\ job'[j].cert = job[j].cert
          /\ job'[j].row = job[j].row /\ job'[j].cache = job[j].cache
        BY <2>1 DEF ValidationInv, ValidationShape, Jobs
    <2>3. \A d, o : Earned(d, o) => Earned(d, o)'
        BY <1>2, <1>3, EarnedStays
    <2>4. ValidationShape'
        BY <1>2, <1>3, <2>1, <2>2 DEF ValidationInv, ValidationShape, AtMostOne
    <2>5. CachesSeen' /\ RowsEarned' /\ RowsHaveCert'
        BY <1>2, <1>3, <2>1, <2>2, <2>3 DEF ValidationInv, CachesSeen, RowsEarned, RowsHaveCert
    <2> QED
        BY <2>4, <2>5 DEF ValidationInv
<1>4. CASE /\ cert[c] = "none" /\ cert' = [cert EXCEPT ![c] = "upload"] /\ seen' = seen \cup {c}
           /\ \E kept \in {job[j].cache, {}} :
                 job' = [job EXCEPT ![j] = [job[j] EXCEPT !.pc = "save", !.cache = kept]]
    <2>1. PICK kept \in {job[j].cache, {}} :
              job' = [job EXCEPT ![j] = [job[j] EXCEPT !.pc = "save", !.cache = kept]]
        BY <1>4
    <2>2. /\ \A i \in Job \ {j} : job'[i] = job[i]
          /\ job'[j] \in Jobs /\ job'[j].pc = "save" /\ job'[j].cert = job[j].cert
          /\ job'[j].row = job[j].row /\ job'[j].cache = kept
        <3>1. job[j] \in Jobs /\ kept \in SUBSET SUBSET Cert
            BY DEF ValidationInv, ValidationShape, Jobs
        <3>2. LET e == [job[j] EXCEPT !.pc = "save", !.cache = kept]
              IN  e \in Jobs /\ e.pc = "save" /\ e.cache = kept /\ e.cert = job[j].cert /\ e.row = job[j].row
            BY <3>1 DEF Jobs
        <3>3. /\ job'[j] = [job[j] EXCEPT !.pc = "save", !.cache = kept]
              /\ \A i \in Job \ {j} : job'[i] = job[i]
            BY <2>1 DEF ValidationInv, ValidationShape
        <3> QED
            BY <3>2, <3>3
    <2>3. \A d, o : Earned(d, o) => Earned(d, o)'
        BY <1>2, <1>4, EarnedStays
    <2>4. \A d \in Cert : cert'[d] = IF d = c THEN "upload" ELSE cert[d]
        BY <1>4 DEF ValidationInv, ValidationShape
    <2>5. ValidationShape'
        <3>1. cert' \in [Cert -> {"none", "upload", "pa"}] /\ seen' \subseteq Cert
            BY <1>4 DEF ValidationInv, ValidationShape
        <3>2. job' \in [Job -> Jobs]
            BY <2>1, <2>2 DEF ValidationInv, ValidationShape
        <3>3. \A i \in Job : /\ job'[i].pc \in {"insert", "save"} => \E d \in Cert : job'[i].cert = {d}
                             /\ AtMostOne(job'[i].row)
            <4> TAKE i \in Job
            <4>1. /\ job'[i].cert = job[i].cert /\ job'[i].row = job[i].row
                  /\ i # j => job'[i].pc = job[i].pc
                BY <2>2
            <4>2. job'[i].pc \in {"insert", "save"} => \E d \in Cert : job'[i].cert = {d}
                <5>1. i = j => job'[i].cert = {c}
                    BY <1>1, <4>1
                <5>2. job[i].pc \in {"insert", "save"} => \E d \in Cert : job[i].cert = {d}
                    BY DEF ValidationInv, ValidationShape
                <5> QED
                    BY <4>1, <5>1, <5>2
            <4>3. AtMostOne(job'[i].row)
                BY <4>1 DEF ValidationInv, ValidationShape, AtMostOne
            <4> QED
                BY <4>2, <4>3
        <3> QED
            BY <1>2, <3>1, <3>2, <3>3 DEF ValidationInv, ValidationShape, AtMostOne
    <2>6. CachesSeen'
        BY <1>2, <1>4, <2>2, <2>4 DEF ValidationInv, CachesSeen
    <2>7. RowsEarned'
        BY <1>2, <2>2, <2>3 DEF ValidationInv, RowsEarned
    <2>8. RowsHaveCert'
        <3>1. \A d \in Cert : cert[d] = "upload" => cert'[d] = "upload"
            BY <2>4
        <3>2. \A i \in Job : job[i].cert \subseteq Cert
            BY DEF ValidationInv, ValidationShape, Jobs
        <3> QED
            BY <1>1, <1>2, <2>2, <2>4, <3>1, <3>2 DEF ValidationInv, RowsHaveCert
    <2> QED
        BY <2>5, <2>6, <2>7, <2>8 DEF ValidationInv
<1> QED
    BY <1>1, <1>3, <1>4 DEF InsertCert

\* The row is saved where there is none, or not at all.
LEMMA SaveResultFacts ==
    ASSUME ValidationInv, NEW j \in Job, SaveResult(j)
    PROVE  \E c \in Cert :
              /\ job[j].cert = {c} /\ job[j].pc = "save" /\ faults' \in 0..MaxFaults
              /\ UNCHANGED <<pki, now, cert, listed, cscaCache, reval, relay, pa, seen, overtaken>>
              /\ result' \in [Cert -> SUBSET Row]
              /\ \A d \in Cert : result'[d] = result[d] \/ (d = c /\ result[c] = {} /\ result'[c] = job[j].row)
              /\ \A i \in Job \ {j} : job'[i] = job[i]
              /\ job' \in [Job -> Jobs] /\ job'[j].pc = "ready" /\ job'[j].cert = {} /\ job'[j].row = {}
              /\ job'[j].cache = job[j].cache
<1>1. PICK c \in Cert : job[j].cert = {c} /\ c = The(job[j].cert)
    BY DEF SaveResult, ValidationInv, ValidationShape, The
<1>2. /\ UNCHANGED <<pki, now, cert, listed, cscaCache, reval, relay, pa, seen, overtaken>>
      /\ job[j].pc = "save" /\ faults' \in 0..MaxFaults
    BY BoundsAssumption DEF SaveResult, jobRest, Fault, ValidationInv, ValidationShape
<1>3. /\ result' \in [Cert -> SUBSET Row]
      /\ \A d \in Cert : result'[d] = result[d] \/ (d = c /\ result[c] = {} /\ result'[c] = job[j].row)
    <2>1. result' = result \/ result' = [result EXCEPT ![c] = IF result[c] # {} THEN result[c] ELSE job[j].row]
        BY <1>1 DEF SaveResult, HasRow
    <2>2. job[j].row \in SUBSET Row /\ result \in [Cert -> SUBSET Row]
        BY DEF ValidationInv, ValidationShape, Jobs
    <2>3. CASE result' = result
        BY <2>2, <2>3
    <2>4. CASE result[c] # {} /\ result' = [result EXCEPT ![c] = result[c]]
        BY <2>2, <2>4
    <2>5. CASE result[c] = {} /\ result' = [result EXCEPT ![c] = job[j].row]
        BY <2>2, <2>5
    <2> QED
        BY <2>1, <2>3, <2>4, <2>5
<1>4. /\ \A i \in Job \ {j} : job'[i] = job[i]
      /\ job' \in [Job -> Jobs] /\ job'[j].pc = "ready" /\ job'[j].cert = {} /\ job'[j].row = {}
      /\ job'[j].cache = job[j].cache
    <2> DEFINE q == [job[j] EXCEPT !.pc = "ready", !.cert = {}, !.row = {}]
    <2>1. job' = [job EXCEPT ![j] = q] /\ job \in [Job -> Jobs]
        BY DEF SaveResult, ValidationInv, ValidationShape
    <2>2. job[j] \in Jobs
        BY <2>1
    <2>3. q \in Jobs /\ q.pc = "ready" /\ q.cert = {} /\ q.row = {} /\ q.cache = job[j].cache
        BY <2>2 DEF Jobs
    <2> HIDE DEF q
    <2> QED
        BY <2>1, <2>3
<1> QED
    BY <1>1, <1>2, <1>3, <1>4

\* The row that is saved has its certificate.
LEMMA SaveResultStep == ASSUME ValidationInv, NEW j \in Job, SaveResult(j) PROVE ValidationInv'
<1>1. PICK c \in Cert :
          /\ job[j].cert = {c} /\ job[j].pc = "save" /\ faults' \in 0..MaxFaults
          /\ UNCHANGED <<pki, now, cert, listed, cscaCache, reval, relay, pa, seen, overtaken>>
          /\ result' \in [Cert -> SUBSET Row]
          /\ \A d \in Cert : result'[d] = result[d] \/ (d = c /\ result[c] = {} /\ result'[c] = job[j].row)
          /\ \A i \in Job \ {j} : job'[i] = job[i]
          /\ job' \in [Job -> Jobs] /\ job'[j].pc = "ready" /\ job'[j].cert = {} /\ job'[j].row = {}
          /\ job'[j].cache = job[j].cache
    BY SaveResultFacts
<1>5. \A d, o : Earned(d, o) => Earned(d, o)'
    BY <1>1, EarnedStays
<1>6. ValidationShape'
    BY <1>1 DEF ValidationInv, ValidationShape, AtMostOne
<1>7. CachesSeen'
    BY <1>1 DEF ValidationInv, CachesSeen
<1>8. RowsEarned'
    BY <1>1, <1>5 DEF ValidationInv, RowsEarned
<1>9. RowsHaveCert'
    <2>1. job[j].row # {} => cert[c] = "upload"
        BY <1>1 DEF ValidationInv, RowsHaveCert
    <2>2. \A d \in Cert : result'[d] # {} => cert'[d] = "upload"
        BY <1>1, <2>1 DEF ValidationInv, RowsHaveCert
    <2> QED
        BY <1>1, <2>2 DEF ValidationInv, RowsHaveCert
<1> QED
    BY <1>6, <1>7, <1>8, <1>9 DEF ValidationInv

\* The rows of the certificate are gone, and nothing that is under way finds them again.
LEMMA DeleteUploadFacts ==
    ASSUME ValidationInv, NEW c \in Cert, DeleteUpload(c)
    PROVE  /\ UNCHANGED <<pki, now, listed, cscaCache, pa, overtaken, seen>> /\ faults' \in 0..MaxFaults
           /\ cert' = [cert EXCEPT ![c] = "none"] /\ result' = [result EXCEPT ![c] = {}]
           /\ \A d \in Cert : cert'[d] = IF d = c THEN "none" ELSE cert[d]
           /\ \A d \in Cert : result'[d] = IF d = c THEN {} ELSE result[d]
           /\ job' \in [Job -> Jobs]
           /\ \A j \in Job : /\ job'[j].pc = job[j].pc /\ job'[j].cert = job[j].cert /\ job'[j].cache = job[j].cache
                             /\ job'[j].row \in {job[j].row, {}}
                             /\ job[j].pc = "save" /\ job[j].cert = {c} => job'[j].row = {}
           /\ reval' \in [Reval -> Revals]
           /\ \A r \in Reval : /\ reval'[r].pc = reval[r].pc /\ reval'[r].todo = reval[r].todo
                               /\ reval'[r].cert = reval[r].cert /\ reval'[r].row = reval[r].row
                               /\ reval[r].pc = "idle" \/ reval'[r].gone = reval[r].gone \cup {c}
                               /\ reval[r].gone \subseteq reval'[r].gone
           /\ relay' \in Relays /\ relay'.rows = relay.rows
<1>1. /\ UNCHANGED <<pki, now, listed, cscaCache, pa, overtaken, seen>> /\ faults' \in 0..MaxFaults
      /\ cert' = [cert EXCEPT ![c] = "none"] /\ result' = [result EXCEPT ![c] = {}]
    BY BoundsAssumption DEF DeleteUpload, Fault, ValidationInv, ValidationShape
<1>2. /\ job' \in [Job -> Jobs]
      /\ \A j \in Job : /\ job'[j].pc = job[j].pc /\ job'[j].cert = job[j].cert /\ job'[j].cache = job[j].cache
                        /\ job'[j].row \in {job[j].row, {}}
                        /\ job[j].pc = "save" /\ job[j].cert = {c} => job'[j].row = {}
    <2>1. job' = [j \in Job |-> IF job[j].pc = "save" /\ job[j].cert = {c} THEN [job[j] EXCEPT !.row = {}] ELSE job[j]]
        BY DEF DeleteUpload
    <2>2. \A q \in Jobs : LET e == [q EXCEPT !.row = {}]
                          IN  e \in Jobs /\ e.pc = q.pc /\ e.cert = q.cert /\ e.cache = q.cache /\ e.row = {}
        BY DEF Jobs
    <2>3. job \in [Job -> Jobs]
        BY DEF ValidationInv, ValidationShape
    <2> QED
        BY <2>1, <2>2, <2>3
<1>3. /\ reval' \in [Reval -> Revals]
      /\ \A r \in Reval : /\ reval'[r].pc = reval[r].pc /\ reval'[r].todo = reval[r].todo
                          /\ reval'[r].cert = reval[r].cert /\ reval'[r].row = reval[r].row
                          /\ reval[r].pc = "idle" \/ reval'[r].gone = reval[r].gone \cup {c}
                          /\ reval[r].gone \subseteq reval'[r].gone
    <2>1. \A q \in Revals : LET e == [q EXCEPT !.gone = q.gone \cup {c}]
                            IN  /\ e \in Revals /\ e.pc = q.pc /\ e.todo = q.todo /\ e.cert = q.cert
                                /\ e.row = q.row /\ e.gone = q.gone \cup {c}
        BY DEF Revals
    <2>2. reval' = [r \in Reval |-> IF reval[r].pc = "idle" THEN reval[r]
                                    ELSE [reval[r] EXCEPT !.gone = reval[r].gone \cup {c}]]
        BY DEF DeleteUpload
    <2>3. reval \in [Reval -> Revals]
        BY DEF ValidationInv, ValidationShape
    <2> QED
        BY <2>1, <2>2, <2>3
<1>4. relay' \in Relays /\ relay'.rows = relay.rows
    BY DEF DeleteUpload, ValidationInv, ValidationShape, Relays
<1>6. /\ \A d \in Cert : cert'[d] = IF d = c THEN "none" ELSE cert[d]
      /\ \A d \in Cert : result'[d] = IF d = c THEN {} ELSE result[d]
    BY <1>1 DEF ValidationInv, ValidationShape
<1> QED
    BY <1>1, <1>2, <1>3, <1>4, <1>6

\* With a certificate its row goes, and the row on its way to it.
LEMMA DeleteUploadStep == ASSUME ValidationInv, NEW c \in Cert, DeleteUpload(c) PROVE ValidationInv'
<1>1. /\ UNCHANGED <<pki, now, listed, cscaCache, pa, overtaken, seen>> /\ faults' \in 0..MaxFaults
      /\ cert' = [cert EXCEPT ![c] = "none"] /\ result' = [result EXCEPT ![c] = {}]
      /\ \A d \in Cert : cert'[d] = IF d = c THEN "none" ELSE cert[d]
      /\ \A d \in Cert : result'[d] = IF d = c THEN {} ELSE result[d]
      /\ job' \in [Job -> Jobs]
      /\ \A j \in Job : /\ job'[j].pc = job[j].pc /\ job'[j].cert = job[j].cert /\ job'[j].cache = job[j].cache
                        /\ job'[j].row \in {job[j].row, {}}
                        /\ job[j].pc = "save" /\ job[j].cert = {c} => job'[j].row = {}
      /\ reval' \in [Reval -> Revals]
      /\ \A r \in Reval : /\ reval'[r].pc = reval[r].pc /\ reval'[r].todo = reval[r].todo
                          /\ reval'[r].cert = reval[r].cert /\ reval'[r].row = reval[r].row
                          /\ reval[r].pc = "idle" \/ reval'[r].gone = reval[r].gone \cup {c}
                          /\ reval[r].gone \subseteq reval'[r].gone
      /\ relay' \in Relays /\ relay'.rows = relay.rows
    BY DeleteUploadFacts
<1>5. \A d, o : Earned(d, o) => Earned(d, o)'
    BY <1>1, EarnedStays
<1>7. ValidationShape'
    <2>1. cert' \in [Cert -> {"none", "upload", "pa"}] /\ result' \in [Cert -> SUBSET Row]
        BY <1>1 DEF ValidationInv, ValidationShape
    <2>2. \A d \in Cert : AtMostOne(result'[d])
        BY <1>1 DEF ValidationInv, ValidationShape, AtMostOne
    <2>3. \A j \in Job : AtMostOne(job'[j].row)
        BY <1>1 DEF ValidationInv, ValidationShape, AtMostOne
    <2>4. \A j \in Job : job'[j].pc \in {"insert", "save"} => \E d \in Cert : job'[j].cert = {d}
        <3>1. \A j \in Job : job'[j].pc = job[j].pc /\ job'[j].cert = job[j].cert
            BY <1>1
        <3>2. \A j \in Job : job[j].pc \in {"insert", "save"} => \E d \in Cert : job[j].cert = {d}
            BY DEF ValidationInv, ValidationShape
        <3> QED
            BY <3>1, <3>2
    <2>5. ASSUME NEW r \in Reval
          PROVE  /\ reval'[r].pc = "write" =>
                       \E d \in Cert \ reval'[r].todo : reval'[r].cert = {d} /\ reval'[r].row # {}
                 /\ reval'[r].pc = "idle" => reval'[r].todo = {}
                 /\ reval'[r].pc # "write" => reval'[r].cert = {}
        BY <1>1 DEF ValidationInv, ValidationShape
    <2> QED
        BY <1>1, <2>1, <2>2, <2>3, <2>4, <2>5 DEF ValidationInv, ValidationShape
<1>8. CachesSeen'
    BY <1>1 DEF ValidationInv, CachesSeen
<1>9. RowsEarned'
    BY <1>1, <1>5 DEF ValidationInv, RowsEarned
<1>10. RowsHaveCert'
    <2>1. \A j \in Job : job[j].pc = "save" => \E d \in Cert : job[j].cert = {d}
        BY DEF ValidationInv, ValidationShape
    <2> QED
        BY <1>1, <2>1 DEF ValidationInv, RowsHaveCert
<1> QED
    BY <1>7, <1>8, <1>9, <1>10 DEF ValidationInv

\* Master lists bring and take CSCAs without results.
LEMMA ListSteps ==
    ASSUME ValidationInv, NEW c \in Cert, MasterList(c) \/ DeleteList(c) PROVE ValidationInv'
<1>1. /\ UNCHANGED <<pki, now, cert, result, cscaCache, job, reval, relay, pa, overtaken>>
      /\ faults' \in 0..MaxFaults
      /\ listed' \subseteq OnList /\ seen' \subseteq Cert /\ seen \subseteq seen' /\ listed' \subseteq seen'
    BY OnListAssumption, BoundsAssumption
    DEF MasterList, DeleteList, Fault, ValidationInv, ValidationShape, CachesSeen
<1>2. \A d, o : Earned(d, o) => Earned(d, o)'
    BY <1>1, EarnedStays
<1>3. ValidationShape'
    BY <1>1 DEF ValidationInv, ValidationShape
<1>4. CachesSeen'
    BY <1>1 DEF ValidationInv, CachesSeen
<1>5. RowsEarned'
    BY <1>1, <1>2 DEF ValidationInv, RowsEarned
<1>6. RowsHaveCert'
    BY <1>1 DEF ValidationInv, RowsHaveCert
<1> QED
    BY <1>3, <1>4, <1>5, <1>6 DEF ValidationInv

\* A revalidation starts with empty hands.
LEMMA StartRevalStep == ASSUME ValidationInv, NEW r \in Reval, StartReval(r) PROVE ValidationInv'
<1> DEFINE q == [RevalIdle EXCEPT !.pc = "check", !.todo = findDscForRevalidation]
<1>1. /\ UNCHANGED <<pki, now, cert, listed, result, cscaCache, job, relay, pa, seen, overtaken, faults>>
      /\ reval' = [reval EXCEPT ![r] = q]
    BY DEF StartReval, revalRest
<1>2. q \in Revals /\ q.pc = "check" /\ q.cert = {} /\ q.row = {}
    <2>1. findDscForRevalidation \in SUBSET Cert
        BY DEF findDscForRevalidation
    <2> QED
        BY <2>1 DEF RevalIdle, Revals
<1> HIDE DEF q
<1>3. reval' \in [Reval -> Revals] /\ reval'[r] = q /\ \A s \in Reval \ {r} : reval'[s] = reval[s]
    BY <1>1, <1>2 DEF ValidationInv, ValidationShape
<1>4. \A d, o : Earned(d, o) => Earned(d, o)'
    BY <1>1, EarnedStays
<1>5. ValidationShape'
    BY <1>1, <1>2, <1>3 DEF ValidationInv, ValidationShape
<1>6. CachesSeen' /\ RowsHaveCert'
    BY <1>1 DEF ValidationInv, CachesSeen, RowsHaveCert
<1>7. RowsEarned'
    BY <1>1, <1>2, <1>3, <1>4 DEF ValidationInv, RowsEarned
<1> QED
    BY <1>5, <1>6, <1>7 DEF ValidationInv

\* A revalidation finds good what is anchored.
LEMMA CheckStep == ASSUME ValidationInv, NEW r \in Reval, NEW c \in Cert, Check(r, c) PROVE ValidationInv'
<1> DEFINE cscas == IF cscaCache = {} THEN findAllCscas ELSE The(cscaCache)
           chain == Build(pki, c, cscas, now, RevalDepth)
           ok == ~isCertificateNotYetValid(pki, c, now) /\ chain.valid
           expired == isCertificateExpired(pki, c, now) \/ chain.cscaExpired
           row == [status |-> IF ~ok THEN "INVALID" ELSE IF expired THEN "EXPIRED_VALID" ELSE "VALID", found |-> ok]
           q == [pc |-> "write", todo |-> reval[r].todo \ {c}, cert |-> {c}, gone |-> reval[r].gone, row |-> {row}]
<1>1. /\ UNCHANGED <<pki, now, cert, listed, result, job, relay, pa, seen, overtaken, faults>>
      /\ cscaCache' \in {cscaCache, {cscas}}
      /\ reval' = [reval EXCEPT ![r] = q]
    BY DEF Check, revalRest
<1>2. cscas \subseteq seen /\ seen \subseteq Cert /\ pki \in Pki
    BY CscasSeen, PkisAssumption DEF ValidationInv, ValidationShape, CachesSeen, The
<1>3. cscas \in SUBSET Cert
    BY <1>2
<1> HIDE DEF cscas
<1>4. chain \in Chain /\ (chain.valid => c \in anchored(pki, cscas))
    BY <1>2, <1>3, DepthAssumption, BuildIsChain, BuildIsSound
<1> HIDE DEF chain
<1>5. row \in Answer /\ Earned(c, row)
    <2>1. ok \in BOOLEAN /\ (ok => c \in anchored(pki, seen))
        BY <1>2, <1>4, AnchoredGrows DEF Chain
    <2> HIDE DEF ok
    <2> QED
        BY <2>1 DEF Answer, Earned, Good
<1> HIDE DEF row
<1>6. q \in Revals /\ q.pc = "write" /\ q.cert = {c} /\ q.row = {row} /\ c \notin q.todo
    BY <1>5 DEF ValidationInv, ValidationShape, Revals
<1> HIDE DEF q
<1>7. reval' \in [Reval -> Revals] /\ reval'[r] = q /\ \A s \in Reval \ {r} : reval'[s] = reval[s]
    BY <1>1, <1>6 DEF ValidationInv, ValidationShape
<1>8. \A d, o : Earned(d, o) => Earned(d, o)'
    BY <1>1, EarnedStays
<1>9. ValidationShape'
    BY <1>1, <1>6, <1>7 DEF ValidationInv, ValidationShape
<1>10. CachesSeen' /\ RowsHaveCert'
    BY <1>1, <1>2 DEF ValidationInv, CachesSeen, RowsHaveCert
<1>11. RowsEarned'
    BY <1>1, <1>5, <1>6, <1>7, <1>8 DEF ValidationInv, RowsEarned
<1> QED
    BY <1>9, <1>10, <1>11 DEF ValidationInv

\* The answer is written to the row that is there now, which keeps the rest.
LEMMA WriteRevalFacts ==
    ASSUME ValidationInv, NEW r \in Reval, WriteReval(r)
    PROVE  /\ UNCHANGED <<pki, now, cert, listed, job, relay, pa, seen, cscaCache>>
           /\ reval[r].pc = "write" /\ faults' \in 0..MaxFaults
           /\ overtaken' \subseteq Cert /\ overtaken \subseteq overtaken'
           /\ \E c \in Cert, new \in Answer :
                /\ reval[r].cert = {c} /\ new \in reval[r].row
                /\ \/ result' = result
                   \/ /\ c \notin reval[r].gone /\ result[c] # {}
                      /\ \A o \in result[c] : ~o.periodValid /\ new.status = "VALID" => c \in overtaken'
                      /\ result' = Answered(c, new)
<1>1. PICK c \in Cert : reval[r].cert = {c} /\ reval[r].row # {} /\ c = The(reval[r].cert)
    <2>1. reval[r].pc = "write"
        BY DEF WriteReval
    <2>2. \E c \in Cert : reval[r].cert = {c} /\ reval[r].row # {}
        BY <2>1 DEF ValidationInv, ValidationShape
    <2> QED
        BY <2>2 DEF The
<1> DEFINE new == The(reval[r].row)
<1>2. new \in reval[r].row /\ new \in Answer
    BY <1>1 DEF The, ValidationInv, ValidationShape, Revals
<1> DEFINE rows == IF c \in reval[r].gone THEN {} ELSE result[c]
           written == {[o EXCEPT !.status = new.status, !.found = new.found] : o \in rows}
<1>3. /\ UNCHANGED <<pki, now, cert, listed, job, relay, pa, seen, cscaCache>>
      /\ reval[r].pc = "write" /\ faults' \in 0..MaxFaults
      /\ overtaken' \subseteq Cert /\ overtaken \subseteq overtaken'
    <2>1. UNCHANGED <<pki, now, cert, listed, job, relay, pa, seen, cscaCache>> /\ reval[r].pc = "write"
        BY DEF WriteReval, revalRest
    <2>2. overtaken' \in {overtaken, overtaken \cup {c}}
        BY <1>1 DEF WriteReval
    <2>3. faults' = faults \/ Fault
        BY DEF WriteReval
    <2>4. faults' \in 0..MaxFaults
        BY <2>3, BoundsAssumption DEF Fault, ValidationInv, ValidationShape
    <2> QED
        BY <2>1, <2>2, <2>4 DEF ValidationInv, ValidationShape
<1>4. \/ result' = result
      \/ /\ result' = [result EXCEPT ![c] = IF rows = {} THEN result[c] ELSE written]
         /\ \A o \in rows : ~o.periodValid /\ new.status = "VALID" => c \in overtaken'
    BY <1>1 DEF WriteReval
<1>5. result \in [Cert -> SUBSET Row]
    BY DEF ValidationInv, ValidationShape
<1>6. \/ result' = result
      \/ /\ rows # {} /\ result' = [result EXCEPT ![c] = written]
         /\ \A o \in rows : ~o.periodValid /\ new.status = "VALID" => c \in overtaken'
    <2>1. CASE rows = {}
        <3>1. [result EXCEPT ![c] = result[c]] = result
            BY <1>5
        <3> QED
            BY <1>4, <2>1, <3>1
    <2>2. CASE rows # {}
        BY <1>4, <2>2
    <2> QED
        BY <2>1, <2>2
<1>7. rows # {} => c \notin reval[r].gone /\ rows = result[c]
    OBVIOUS
<1> HIDE DEF new, rows
<1>8. \/ result' = result
      \/ /\ c \notin reval[r].gone /\ result[c] # {}
         /\ \A o \in result[c] : ~o.periodValid /\ new.status = "VALID" => c \in overtaken'
         /\ result' = Answered(c, new)
    BY <1>6, <1>7 DEF Answered
<1>9. \E d \in Cert, answer \in Answer :
         /\ reval[r].cert = {d} /\ answer \in reval[r].row
         /\ \/ result' = result
            \/ /\ d \notin reval[r].gone /\ result[d] # {}
               /\ \A o \in result[d] : ~o.periodValid /\ answer.status = "VALID" => d \in overtaken'
               /\ result' = Answered(d, answer)
    <2> USE <1>2
    <2> WITNESS c \in Cert, new \in Answer
    <2> QED
        BY <1>1, <1>2, <1>8
<1> QED
    BY <1>3, <1>9

\* What updateRevalidation writes was earned when it was found.
LEMMA WriteRevalStep == ASSUME ValidationInv, NEW r \in Reval, WriteReval(r) PROVE ValidationInv'
<1>1. /\ UNCHANGED <<pki, now, cert, listed, job, relay, pa, seen, cscaCache>>
      /\ reval[r].pc = "write" /\ overtaken' \subseteq Cert /\ faults' \in 0..MaxFaults
    BY WriteRevalFacts
<1>2. PICK c \in Cert, new \in Answer :
          /\ reval[r].cert = {c} /\ new \in reval[r].row
          /\ \/ result' = result
             \/ /\ c \notin reval[r].gone /\ result[c] # {}
                /\ result' = Answered(c, new)
    BY WriteRevalFacts
<1>3. /\ result' \in [Cert -> SUBSET Row] /\ \A d \in Cert : AtMostOne(result'[d])
      /\ \A d \in Cert : \A o \in result'[d] : o \in result[d] \/ (d = c /\ o.status = new.status)
      /\ \A d \in Cert : result'[d] = {} <=> result[d] = {}
    <2>1. CASE result' = result
        BY <2>1 DEF ValidationInv, ValidationShape, AtMostOne
    <2>2. CASE result' = Answered(c, new)
        <3> DEFINE T == {[o EXCEPT !.status = new.status, !.found = new.found] : o \in result[c]}
        <3>1. new.status \in Statuses \ {"PENDING"} /\ new.found \in BOOLEAN /\ result[c] \in SUBSET Row /\ AtMostOne(result[c])
            BY DEF ValidationInv, ValidationShape, Answer, Statuses
        <3>2. /\ T \in SUBSET Row /\ AtMostOne(T) /\ \A o \in T : o.status = new.status
              /\ T = {} <=> result[c] = {}
            <4> DEFINE New(o) == [o EXCEPT !.status = new.status, !.found = new.found]
            <4>1. \A o \in Row : New(o) \in Row /\ New(o).status = new.status
                <5> SUFFICES ASSUME NEW o \in Row PROVE New(o) \in Row /\ New(o).status = new.status
                    OBVIOUS
                <5>1. PICK st \in Statuses, f \in BOOLEAN : st = new.status /\ f = new.found
                    BY <3>1
                <5>2. New(o) = [o EXCEPT !.status = st, !.found = f]
                    BY <5>1
                <5> QED
                    BY <5>1 DEF Row, Statuses
            <4>2. T = {New(o) : o \in result[c]}
                OBVIOUS
            <4> HIDE DEF T, New
            <4> QED
                BY <3>1, <4>1, <4>2 DEF AtMostOne
        <3>3. result' = [result EXCEPT ![c] = T]
            BY <2>2 DEF Answered
        <3> HIDE DEF T
        <3>4. result'[c] = T /\ \A d \in Cert \ {c} : result'[d] = result[d]
            BY <3>3 DEF ValidationInv, ValidationShape
        <3>5. result' \in [Cert -> SUBSET Row]
            BY <3>2, <3>3 DEF ValidationInv, ValidationShape
        <3>6. \A d \in Cert : AtMostOne(result'[d])
            BY <3>2, <3>4 DEF ValidationInv, ValidationShape, AtMostOne
        <3> QED
            BY <3>2, <3>4, <3>5, <3>6
    <2> QED
        BY <1>2, <2>1, <2>2
<1>4. /\ reval' \in [Reval -> Revals] /\ \A s \in Reval \ {r} : reval'[s] = reval[s]
      /\ reval'[r].pc # "write" /\ reval'[r].cert = {} /\ reval'[r].row = {}
      /\ reval'[r].pc = "idle" => reval'[r].todo = {}
    <2>1. RevalIdle \in Revals /\ RevalIdle.pc = "idle" /\ RevalIdle.todo = {} /\ RevalIdle.cert = {} /\ RevalIdle.row = {}
        BY DEF RevalIdle, Revals
    <2>2. LET e == [reval[r] EXCEPT !.pc = "check", !.cert = {}, !.row = {}]
          IN  e \in Revals /\ e.pc = "check" /\ e.cert = {} /\ e.row = {} /\ e.todo = reval[r].todo
        <3>1. reval[r] \in Revals
            BY DEF ValidationInv, ValidationShape
        <3>2. \A q \in Revals : LET e == [q EXCEPT !.pc = "check", !.cert = {}, !.row = {}]
              IN  e \in Revals /\ e.pc = "check" /\ e.cert = {} /\ e.row = {} /\ e.todo = q.todo
            BY DEF Revals
        <3> QED
            BY <3>1, <3>2
    <2>3. \E e \in {RevalIdle, [reval[r] EXCEPT !.pc = "check", !.cert = {}, !.row = {}]} :
              reval' = [reval EXCEPT ![r] = e]
        BY DEF WriteReval
    <2>4. PICK e \in Revals : /\ reval' = [reval EXCEPT ![r] = e]
                              /\ e.pc # "write" /\ e.cert = {} /\ e.row = {}
                              /\ (e.pc = "idle" => e.todo = {})
        BY <2>1, <2>2, <2>3
    <2>5. reval' \in [Reval -> Revals] /\ reval'[r] = e /\ \A s \in Reval \ {r} : reval'[s] = reval[s]
        BY <2>4 DEF ValidationInv, ValidationShape
    <2> QED
        BY <2>4, <2>5
<1>5. \A d, o : Earned(d, o) => Earned(d, o)'
    BY <1>1, EarnedStays
<1>6. ValidationShape'
    BY <1>1, <1>3, <1>4 DEF ValidationInv, ValidationShape
<1>7. CachesSeen'
    BY <1>1 DEF ValidationInv, CachesSeen
<1>8. RowsEarned'
    <2>1. Earned(c, new)
        BY <1>2 DEF ValidationInv, RowsEarned
    <2>2. \A o : o.status = new.status => Earned(c, o)
        BY <2>1 DEF Earned
    <2> QED
        BY <1>1, <1>3, <1>4, <1>5, <2>2 DEF ValidationInv, RowsEarned
<1>9. RowsHaveCert'
    BY <1>1, <1>3 DEF ValidationInv, RowsHaveCert
<1> QED
    BY <1>6, <1>7, <1>8, <1>9 DEF ValidationInv

\* A restart forgets what was in memory.
LEMMA RestartStep == ASSUME ValidationInv, Restart PROVE ValidationInv'
<1>1. /\ UNCHANGED <<pki, now, cert, listed, result, relay, pa, seen, overtaken>> /\ faults' \in 0..MaxFaults
      /\ cscaCache' = {} /\ job' = [j \in Job |-> JobIdle] /\ reval' = [r \in Reval |-> RevalIdle]
    BY BoundsAssumption DEF Restart, Fault, ValidationInv, ValidationShape
<1>2. /\ JobIdle \in Jobs /\ JobIdle.pc = "idle" /\ JobIdle.cache = {} /\ JobIdle.cert = {} /\ JobIdle.row = {}
      /\ RevalIdle \in Revals /\ RevalIdle.pc = "idle" /\ RevalIdle.todo = {} /\ RevalIdle.cert = {}
    BY DEF JobIdle, RevalIdle, Jobs, Revals
<1>3. \A d, o : Earned(d, o) => Earned(d, o)'
    BY <1>1, EarnedStays
<1>4. ValidationShape'
    BY <1>1, <1>2 DEF ValidationInv, ValidationShape, AtMostOne
<1>5. CachesSeen' /\ RowsHaveCert'
    BY <1>1, <1>2 DEF ValidationInv, CachesSeen, RowsHaveCert
<1>6. RowsEarned'
    BY <1>1, <1>2, <1>3 DEF ValidationInv, RowsEarned
<1> QED
    BY <1>4, <1>5, <1>6 DEF ValidationInv

\* The relay reads the rows, or lets go of one.
LEMMA RelayReads ==
    ASSUME ValidationInv, UNCHANGED <<pki, now, cert, listed, result, cscaCache, job, reval, pa, seen, overtaken>>,
           faults' \in 0..MaxFaults, relay' \in Relays,
           \A c \in Cert : \A o \in relay'.rows[c] : o \in relay.rows[c] \/ \E q \in result[c] : o.status = q.status
    PROVE  ValidationInv'
<1>1. \A d, o : Earned(d, o) => Earned(d, o)'
    BY EarnedStays
<1>2. ValidationShape'
    BY DEF ValidationInv, ValidationShape
<1>3. CachesSeen' /\ RowsHaveCert'
    BY DEF ValidationInv, CachesSeen, RowsHaveCert
<1>4. \A c, o, q : o.status = q.status /\ Earned(c, q) => Earned(c, o)
    BY DEF Earned
<1>5. RowsEarned'
    BY <1>1, <1>4 DEF ValidationInv, RowsEarned
<1> QED
    BY <1>2, <1>3, <1>5 DEF ValidationInv

\* The relay reads the rows as they are.
LEMMA StartRelayStep == ASSUME ValidationInv, StartRelay PROVE ValidationInv'
<1> DEFINE rows == [c \in Cert |-> {[status |-> o.status, periodValid |-> o.periodValid] : o \in result[c]}]
<1>1. relay' = [RelayIdle EXCEPT !.pc = "rows", !.rows = rows]
    BY DEF StartRelay
<1>2. rows \in [Cert -> SUBSET [status : Statuses, periodValid : BOOLEAN]]
    BY DEF ValidationInv, ValidationShape, Row, Statuses
<1>3. \A c \in Cert : \A o \in rows[c] : \E q \in result[c] : o.status = q.status
    OBVIOUS
<1> HIDE DEF rows
<1>4. relay' \in Relays /\ relay'.rows = rows
    BY <1>1, <1>2 DEF RelayIdle, Relays
<1> QED
    BY <1>3, <1>4, RelayReads DEF StartRelay, relayRest, ValidationInv, ValidationShape

LEMMA EndRelayStep == ASSUME ValidationInv, EndRelay PROVE ValidationInv'
<1>1. relay' \in Relays /\ \A c \in Cert : relay'.rows[c] = {}
    BY DEF EndRelay, RelayIdle, Relays
<1> QED
    BY <1>1, RelayReads DEF EndRelay, relayRest, ValidationInv, ValidationShape

\* One row less is to be looked at.
LEMMA ProcessedFacts ==
    ASSUME relay \in Relays, NEW c \in Cert, Processed(c)
    PROVE  /\ relay' \in Relays /\ relay'.pc = relay.pc
           /\ relay'.rows[c] = {} /\ \A d \in Cert \ {c} : relay'.rows[d] = relay.rows[d]
BY DEF Processed, Relays

\* A row that needs no change, or whose change fails, stays as it is.
LEMMA PassedOverSteps ==
    ASSUME ValidationInv, NEW c \in Cert, Unchanged(c) \/ ChangeFails(c) PROVE ValidationInv'
<1>1. /\ UNCHANGED <<pki, now, cert, listed, result, cscaCache, job, reval, pa, seen, overtaken>>
      /\ faults' \in 0..MaxFaults /\ Processed(c) /\ relay \in Relays
    BY BoundsAssumption DEF Unchanged, ChangeFails, Fault, relayRest, ValidationInv, ValidationShape
<1>2. /\ relay' \in Relays
      /\ relay'.rows[c] = {} /\ \A d \in Cert \ {c} : relay'.rows[d] = relay.rows[d]
    BY <1>1, ProcessedFacts
<1> QED
    BY <1>1, <1>2, RelayReads

\* The relay writes a status that is good only if the one it read was.
LEMMA ChangedFacts ==
    ASSUME ValidationInv, NEW c \in Cert, Changed(c)
    PROVE  /\ UNCHANGED <<pki, now, cert, listed, cscaCache, job, reval, pa, seen, overtaken, faults>>
           /\ relay' \in Relays /\ relay'.rows[c] = {} /\ relay.rows[c] # {}
           /\ \A d \in Cert \ {c} : relay'.rows[d] = relay.rows[d]
           /\ \E o \in relay.rows[c], st \in Statuses :
                 /\ ~o.periodValid # isExpired(c)
                 /\ st \in Good => (~isExpired(c) /\ o.status \in Good)
                 /\ isExpired(c) => st = "INVALID"
                 /\ \/ result' = result
                    \/ /\ c \notin relay.gone
                       /\ result' = Redated(c, st)
<1>1. /\ UNCHANGED <<pki, now, cert, listed, cscaCache, job, reval, pa, seen, overtaken, faults>>
      /\ relay \in Relays /\ Processed(c) /\ relay.rows[c] # {}
    BY DEF Changed, NextRow, relayRest, ValidationInv, ValidationShape
<1>2. PICK o \in relay.rows[c] :
          /\ ~o.periodValid # isExpired(c)
          /\ updateValidityStatus(c, ~isExpired(c), determineValidationStatus(isExpired(c), o.status))
    BY DEF Changed
<1> DEFINE st == determineValidationStatus(isExpired(c), o.status)
<1>3. /\ st \in Statuses /\ (st \in Good => ~isExpired(c) /\ o.status \in Good)
      /\ isExpired(c) => st = "INVALID"
    BY DEF determineValidationStatus, Statuses, Good
<1>4. result' = [result EXCEPT ![c] = IF c \in relay.gone THEN result[c]
                      ELSE {[q EXCEPT !.periodValid = ~isExpired(c), !.status = st] : q \in result[c]}]
    BY <1>2 DEF updateValidityStatus
<1> HIDE DEF st
<1>5. result \in [Cert -> SUBSET Row]
    BY DEF ValidationInv, ValidationShape
<1>6. CASE c \in relay.gone
    <2>1. result' = [result EXCEPT ![c] = result[c]]
        BY <1>4, <1>6
    <2>2. result' = result
        BY <1>5, <2>1
    <2> QED
        BY <1>1, <1>2, <1>3, <2>2, ProcessedFacts
<1>7. CASE c \notin relay.gone
    <2>1. result' = Redated(c, st)
        BY <1>4, <1>7 DEF Redated
    <2> QED
        BY <1>1, <1>2, <1>3, <1>7, <2>1, ProcessedFacts
<1> QED
    BY <1>6, <1>7

\* The relay writes the period, and a status no better than the one it read.
LEMMA ChangedStep == ASSUME ValidationInv, NEW c \in Cert, Changed(c) PROVE ValidationInv'
<1>1. /\ UNCHANGED <<pki, now, cert, listed, cscaCache, job, reval, pa, seen, overtaken, faults>>
      /\ relay' \in Relays /\ relay'.rows[c] = {} /\ \A d \in Cert \ {c} : relay'.rows[d] = relay.rows[d]
    BY ChangedFacts
<1>2. PICK o \in relay.rows[c], st \in Statuses :
          /\ st \in Good => o.status \in Good
          /\ \/ result' = result
             \/ result' = Redated(c, st)
    BY ChangedFacts
<1>3. /\ result' \in [Cert -> SUBSET Row] /\ \A d \in Cert : AtMostOne(result'[d])
      /\ \A d \in Cert : \A q \in result'[d] : q \in result[d] \/ (d = c /\ q.status = st)
      /\ \A d \in Cert : result'[d] = {} <=> result[d] = {}
    <2>1. CASE result' = result
        BY <2>1 DEF ValidationInv, ValidationShape, AtMostOne
    <2>2. CASE result' = Redated(c, st)
        <3> DEFINE New(q) == [q EXCEPT !.periodValid = ~isExpired(c), !.status = st]
                   T == {New(q) : q \in result[c]}
        <3>1. \A q \in Row : New(q) \in Row /\ New(q).status = st
            BY DEF Row, Statuses
        <3>2. result[c] \in SUBSET Row /\ AtMostOne(result[c]) /\ result' = [result EXCEPT ![c] = T]
            BY <2>2 DEF Redated, ValidationInv, ValidationShape
        <3> HIDE DEF New
        <3>3. T \in SUBSET Row /\ AtMostOne(T) /\ (\A q \in T : q.status = st) /\ (T = {} <=> result[c] = {})
            BY <3>1, <3>2 DEF AtMostOne
        <3> HIDE DEF T
        <3>4. result'[c] = T /\ \A d \in Cert \ {c} : result'[d] = result[d]
            BY <3>2 DEF ValidationInv, ValidationShape
        <3>5. result' \in [Cert -> SUBSET Row]
            BY <3>2, <3>3 DEF ValidationInv, ValidationShape
        <3>6. \A d \in Cert : AtMostOne(result'[d])
            BY <3>3, <3>4 DEF ValidationInv, ValidationShape, AtMostOne
        <3> QED
            BY <3>3, <3>4, <3>5, <3>6
    <2> QED
        BY <1>2, <2>1, <2>2
<1>4. \A d, q : Earned(d, q) => Earned(d, q)'
    BY <1>1, EarnedStays
<1>5. ValidationShape'
    BY <1>1, <1>3 DEF ValidationInv, ValidationShape
<1>6. CachesSeen' /\ RowsHaveCert'
    BY <1>1, <1>3 DEF ValidationInv, CachesSeen, RowsHaveCert
<1>7. RowsEarned'
    <2>1. Earned(c, o)
        BY <1>2 DEF ValidationInv, RowsEarned
    <2>2. \A q : q.status = st => Earned(c, q)
        BY <1>2, <2>1 DEF Earned
    <2> QED
        BY <1>1, <1>3, <1>4, <2>2 DEF ValidationInv, RowsEarned
<1> QED
    BY <1>5, <1>6, <1>7 DEF ValidationInv

\* pa-service stores a document signer, without a row.
LEMMA PaSteps == ASSUME ValidationInv, PaStep PROVE ValidationInv'
<1>1. UNCHANGED <<pki, now, listed, result, cscaCache, job, reval, relay, overtaken, faults>>
    BY DEF PaStep, LookUpDsc, RegisterDsc, paRest
<1>2. /\ cert' \in [Cert -> {"none", "upload", "pa"}] /\ seen \subseteq seen' /\ seen' \subseteq Cert
      /\ \A d \in Cert : cert'[d] = cert[d] \/ (d \in seen' /\ cert[d] = "none")
      /\ pa' \in [pc : {"idle", "insert"}, cert : SUBSET Cert]
      /\ pa'.pc = "insert" => \E d \in Cert : pa'.cert = {d}
    <2>1. CASE \E c \in Cert : LookUpDsc(c)
        BY <2>1 DEF LookUpDsc, ValidationInv, ValidationShape
    <2>2. CASE RegisterDsc
        <3>1. PICK c \in Cert : c = The(pa.cert)
            BY <2>2 DEF RegisterDsc, ValidationInv, ValidationShape, The
        <3>2. /\ cert' = [cert EXCEPT ![c] = IF cert[c] = "none" THEN "pa" ELSE cert[c]]
              /\ seen' = seen \cup {c} /\ pa' = [pc |-> "idle", cert |-> {}]
            BY <2>2, <3>1 DEF RegisterDsc, PaIdle
        <3> QED
            BY <3>1, <3>2 DEF ValidationInv, ValidationShape
    <2> QED
        BY <2>1, <2>2 DEF PaStep
<1>3. \A d, o : Earned(d, o) => Earned(d, o)'
    BY <1>1, <1>2, EarnedStays
<1>4. ValidationShape'
    BY <1>1, <1>2 DEF ValidationInv, ValidationShape
<1>5. CachesSeen'
    BY <1>1, <1>2 DEF ValidationInv, CachesSeen
<1>6. RowsEarned'
    BY <1>1, <1>3 DEF ValidationInv, RowsEarned
<1>7. RowsHaveCert'
    <2>1. \A d \in Cert : cert[d] = "upload" => cert'[d] = "upload"
        BY <1>2
    <2>2. \A j \in Job : job[j].cert \subseteq Cert
        BY DEF ValidationInv, ValidationShape, Jobs
    <2> QED
        BY <1>1, <2>1, <2>2 DEF ValidationInv, RowsHaveCert
<1> QED
    BY <1>4, <1>5, <1>6, <1>7 DEF ValidationInv

\* No step of any of the four writers breaks the invariant.
LEMMA StepInv == ASSUME ValidationInv, [ValidationNext]_validationVars PROVE ValidationInv'
<1>1. CASE Tick \/ UNCHANGED validationVars
    BY <1>1, TickStep
<1>2. CASE Restart
    BY <1>2, RestartStep
<1>3. CASE RelayStep
    BY <1>3, StartRelayStep, EndRelayStep, PassedOverSteps, ChangedStep DEF RelayStep
<1>4. CASE PaStep
    BY <1>4, PaSteps
<1>5. CASE \E j \in Job : JobStep(j)
    BY <1>5, StartJobStep, InsertCertStep, SaveResultStep, EndJobStep, ValidateStep DEF JobStep
<1>6. CASE \E r \in Reval : RevalStep(r)
    BY <1>6, StartRevalStep, CheckStep, WriteRevalStep DEF RevalStep
<1>7. CASE \E c \in Cert : DeleteUpload(c) \/ MasterList(c) \/ DeleteList(c)
    BY <1>7, DeleteUploadStep, ListSteps
<1> QED
    BY <1>1, <1>2, <1>3, <1>4, <1>5, <1>6, <1>7 DEF ValidationNext

\* The invariant of the table, the caches and what is under way holds throughout.
THEOREM ValidationInvHolds == ValidationSpec => []ValidationInv
<1>1. ValidationInv /\ [ValidationNext]_validationVars => ValidationInv'
    BY StepInv
<1> QED
    BY <1>1, ValidationInitInv, PTL DEF ValidationSpec

\* The row of a certificate that has one.
LEMMA TheOfRow == ASSUME NEW S, S # {} PROVE The(S) \in S
BY DEF The

\* Whoever wrote a certificate's status last, VALID and EXPIRED_VALID stand for a
\* chain of true signatures, through certificates that were stored, to a root
\* that signs itself: for every set of certificates, every number of uploads and
\* revalidations, every depth (trust_chain_builder.cpp:32-190).
THEOREM ValidMeansAnchored == ValidationSpec => []ValidIsAnchored
<1>1. ValidationInv => ValidIsAnchored
    BY TheOfRow DEF ValidationInv, RowsEarned, Earned, Good, ValidIsAnchored, HasRow, Status
<1> QED
    BY <1>1, ValidationInvHolds, PTL

\* The types, with the number of rows of a certificate.
THEOREM ValidationTypesHold == ValidationSpec => []ValidationTypeOK
<1>1. ASSUME ValidationInv PROVE ValidationTypeOK
    <2>1. \A c \in Cert : Cardinality(result[c]) <= 1
        <3> SUFFICES ASSUME NEW c \in Cert PROVE Cardinality(result[c]) <= 1
            OBVIOUS
        <3>1. CASE result[c] = {}
            BY <3>1, FS_EmptySet
        <3>2. CASE result[c] # {}
            <4>1. PICK o : o \in result[c]
                BY <3>2
            <4>2. \A q \in result[c] : q = o
                BY <1>1, <4>1 DEF ValidationInv, ValidationShape, AtMostOne
            <4>3. result[c] = {o}
                BY <4>1, <4>2
            <4> QED
                BY <4>3, FS_Singleton
        <3> QED
            BY <3>1, <3>2
    <2>2. /\ \A j \in Job : job[j] \in Jobs
          /\ \A r \in Reval : reval[r] \in Revals
          /\ relay \in Relays /\ pa.pc \in {"idle", "insert"}
        BY <1>1 DEF ValidationInv, ValidationShape
    <2> QED
        BY <1>1, <2>1, <2>2 DEF ValidationInv, ValidationShape, CachesSeen, RowsHaveCert,
           ValidationTypeOK, HasRow, Jobs, Revals, Relays
<1> QED
    BY <1>1, ValidationInvHolds, PTL

-----------------------------------------------------------------------------
(* What the rows say.                                                      *)

\* What expired stays expired, and what was true of a row stays true.
LEMMA TruthfulStays ==
    ASSUME ValidationShape, ValidationShape', pki' = pki, now <= now', overtaken \subseteq overtaken'
    PROVE  /\ \A c \in Cert : isExpired(c) => isExpired(c)'
           /\ \A c \in Cert : \A o : Truthful(c, o) => Truthful(c, o)'
<1>1. \A c \in Cert : isExpired(c) => isExpired(c)'
    BY AheadAssumption, PkisAssumption, BoundsAssumption DEF isExpired, ValidationShape, Pki
<1>2. \A c \in Cert : \A o : Truthful(c, o) => Truthful(c, o)'
    BY <1>1 DEF Truthful
<1> QED
    BY <1>1, <1>2

\* The clock and the set of the overtaken only grow.
LEMMA Onward ==
    ASSUME ValidationInv, [ValidationNext]_validationVars
    PROVE  pki' = pki /\ now <= now' /\ overtaken \subseteq overtaken'
<1>0. now \in Nat
    BY BoundsAssumption DEF ValidationInv, ValidationShape
<1>1. CASE Tick
    BY <1>0, <1>1 DEF Tick
<1>2. CASE UNCHANGED validationVars
    BY <1>0, <1>2 DEF validationVars
<1>3. CASE Restart \/ PaStep
    BY <1>0, <1>3 DEF Restart, PaStep, LookUpDsc, RegisterDsc, paRest
<1>4. CASE RelayStep
    BY <1>0, <1>4 DEF RelayStep, StartRelay, EndRelay, Unchanged, Changed, ChangeFails, relayRest
<1>5. CASE \E j \in Job : JobStep(j)
    BY <1>0, <1>5 DEF JobStep, StartJob, InsertCert, SaveResult, EndJob, Validate, jobRest
<1>6. CASE \E r \in Reval : StartReval(r) \/ \E c \in Cert : Check(r, c)
    <2>1. ASSUME NEW r \in Reval, StartReval(r) PROVE UNCHANGED <<pki, now, overtaken>>
        BY <2>1 DEF StartReval, revalRest
    <2>2. ASSUME NEW r \in Reval, NEW c \in Cert, Check(r, c) PROVE UNCHANGED <<pki, now, overtaken>>
        BY <2>2 DEF Check, revalRest
    <2>3. UNCHANGED <<pki, now, overtaken>>
        BY <1>6, <2>1, <2>2
    <2> QED
        BY <1>0, <2>3
<1>7. CASE \E r \in Reval : WriteReval(r)
    <2>1. PICK r \in Reval : WriteReval(r)
        BY <1>7
    <2>2. UNCHANGED <<pki, now>> /\ overtaken \subseteq overtaken'
        BY <2>1, WriteRevalFacts
    <2> QED
        BY <1>0, <2>2
<1>8. CASE \E c \in Cert : DeleteUpload(c) \/ MasterList(c) \/ DeleteList(c)
    BY <1>0, <1>8 DEF DeleteUpload, MasterList, DeleteList
<1> QED
    BY <1>1, <1>2, <1>3, <1>4, <1>5, <1>6, <1>7, <1>8 DEF ValidationNext, RevalStep

\* Rows that stay, that were in the hands of an upload, or that are true by now.
LEMMA TruthKept ==
    ASSUME ValidationInv, ValidationInv', RowsTruthful, [ValidationNext]_validationVars,
           \A c \in Cert : \A o \in result'[c] :
              \/ o \in result[c]
              \/ \E j \in Job : c \in job[j].cert /\ o \in job[j].row
              \/ Truthful(c, o)',
           \A j \in Job : \A c \in job'[j].cert : \A o \in job'[j].row :
              (c \in job[j].cert /\ o \in job[j].row) \/ Truthful(c, o),
           \A c \in Cert : \A o \in relay'.rows[c] :
              o \in relay.rows[c] \/ \E q \in result[c] : o.periodValid = q.periodValid
    PROVE  RowsTruthful'
<1>1. pki' = pki /\ now <= now' /\ overtaken \subseteq overtaken'
    BY Onward
<1>2. /\ \A c \in Cert : isExpired(c) => isExpired(c)'
      /\ \A c \in Cert : \A o : Truthful(c, o) => Truthful(c, o)'
    BY <1>1, TruthfulStays DEF ValidationInv
<1>3. \A c \in Cert : \A o \in result'[c] : Truthful(c, o)'
    BY <1>2 DEF RowsTruthful
<1>4. \A j \in Job : job'[j].cert \subseteq Cert
    BY DEF ValidationInv, ValidationShape, Jobs
<1>5. \A j \in Job : \A c \in job'[j].cert : \A o \in job'[j].row : Truthful(c, o)'
    BY <1>2, <1>4 DEF RowsTruthful
<1>6. \A c \in Cert : \A o \in relay'.rows[c] : ~o.periodValid => isExpired(c)
    BY DEF RowsTruthful, Truthful
<1>7. \A c \in Cert : \A o \in relay'.rows[c] : ~o.periodValid => isExpired(c)'
    BY <1>2, <1>6
<1> QED
    BY <1>3, <1>5, <1>7 DEF RowsTruthful

\* No step writes a row that is not true.
LEMMA StepTruthful ==
    ASSUME ValidationInv, RowsTruthful, [ValidationNext]_validationVars
    PROVE  RowsTruthful'
<1>0. ValidationInv'
    BY StepInv
<1>1. CASE \/ Tick \/ PaStep \/ UNCHANGED validationVars
           \/ \E r \in Reval : StartReval(r) \/ \E c \in Cert : Check(r, c)
           \/ \E c \in Cert : MasterList(c) \/ DeleteList(c)
    <2>1. UNCHANGED <<result, job, relay>>
        BY <1>1 DEF Tick, PaStep, LookUpDsc, RegisterDsc, paRest, validationVars, StartReval, Check,
           revalRest, MasterList, DeleteList
    <2> QED
        BY <1>0, <2>1, TruthKept
<1>2. CASE Restart
    <2>1. UNCHANGED <<result, relay>> /\ \A j \in Job : job'[j].cert = {}
        BY <1>2 DEF Restart, JobIdle
    <2> QED
        BY <1>0, <2>1, TruthKept
<1>3. ASSUME NEW c \in Cert, DeleteUpload(c) PROVE RowsTruthful'
    <2>1. /\ \A d \in Cert : result'[d] = IF d = c THEN {} ELSE result[d]
          /\ \A j \in Job : job'[j].cert = job[j].cert /\ job'[j].row \in {job[j].row, {}}
          /\ relay'.rows = relay.rows
        BY <1>3, DeleteUploadFacts
    <2> QED
        BY <1>0, <2>1, TruthKept
<1>4. ASSUME NEW j \in Job, StartJob(j) \/ EndJob(j) PROVE RowsTruthful'
    <2>0. job \in [Job -> Jobs]
        BY DEF ValidationInv, ValidationShape
    <2>1. UNCHANGED <<result, relay>> /\ job'[j].cert = {} /\ \A i \in Job \ {j} : job'[i] = job[i]
        <3>1. CASE StartJob(j)
            <4> DEFINE q == [JobIdle EXCEPT !.pc = "ready", !.cache = {findAllCscas}]
            <4>1. q.cert = {}
                BY DEF JobIdle
            <4>2. UNCHANGED <<result, relay>> /\ job' = [job EXCEPT ![j] = q]
                BY <3>1 DEF StartJob, jobRest
            <4> HIDE DEF q
            <4> QED
                BY <2>0, <4>1, <4>2
        <3>2. CASE EndJob(j)
            BY <2>0, <3>2 DEF EndJob, jobRest, JobIdle
        <3> QED
            BY <1>4, <3>1, <3>2
    <2> QED
        BY <1>0, <2>1, TruthKept
<1>5. ASSUME NEW j \in Job, NEW c \in Cert, Validate(j, c) PROVE RowsTruthful'
    <2>1. UNCHANGED <<result, relay>>
        BY <1>5 DEF Validate, jobRest
    <2>2. PICK cscas, row, kept :
              /\ Truthful(c, row)
              /\ job' = [job EXCEPT ![j] = [pc |-> "insert", cert |-> {c}, row |-> {row}, cache |-> kept]]
        BY <1>5, ValidateFacts
    <2>3. job'[j].cert = {c} /\ job'[j].row = {row} /\ \A i \in Job \ {j} : job'[i] = job[i]
        BY <2>2 DEF ValidationInv, ValidationShape
    <2> QED
        BY <1>0, <2>1, <2>2, <2>3, TruthKept
<1>6. ASSUME NEW j \in Job, InsertCert(j) PROVE RowsTruthful'
    <2>1. UNCHANGED <<result, relay>>
        BY <1>6 DEF InsertCert, jobRest
    <2>2. \A i \in Job : job'[i].cert = job[i].cert /\ job'[i].row = job[i].row
        BY <1>6 DEF InsertCert, ValidationInv, ValidationShape, Jobs
    <2> QED
        BY <1>0, <2>1, <2>2, TruthKept
<1>7. ASSUME NEW j \in Job, SaveResult(j) PROVE RowsTruthful'
    <2>1. PICK c \in Cert :
              /\ job[j].cert = {c} /\ relay' = relay
              /\ \A d \in Cert : result'[d] = result[d] \/ (d = c /\ result'[c] = job[j].row)
              /\ \A i \in Job \ {j} : job'[i] = job[i]
              /\ job'[j].cert = {}
        BY <1>7, SaveResultFacts
    <2> QED
        BY <1>0, <2>1, TruthKept
<1>8. ASSUME NEW r \in Reval, WriteReval(r) PROVE RowsTruthful'
    <2>1. UNCHANGED <<job, relay, pki, now>>
        BY <1>8, WriteRevalFacts
    <2>2. PICK c \in Cert, new \in Answer :
              \/ result' = result
              \/ /\ \A o \in result[c] : ~o.periodValid /\ new.status = "VALID" => c \in overtaken'
                 /\ result' = Answered(c, new)
        BY <1>8, WriteRevalFacts
    <2>3. CASE result' = result
        BY <1>0, <2>1, <2>3, TruthKept
    <2>4. CASE result' # result
        <3> DEFINE New(o) == [o EXCEPT !.status = new.status, !.found = new.found]
        <3>1. \A o \in Row : New(o).status = new.status /\ New(o).periodValid = o.periodValid
            BY DEF Row
        <3>2. result' = [result EXCEPT ![c] = {New(o) : o \in result[c]}]
            BY <2>2, <2>4 DEF Answered
        <3> HIDE DEF New
        <3>3. \A d \in Cert \ {c} : result'[d] = result[d]
            BY <3>2 DEF ValidationInv, ValidationShape
        <3>4. result'[c] = {New(o) : o \in result[c]} /\ result[c] \subseteq Row
            BY <3>2 DEF ValidationInv, ValidationShape
        <3>5. ASSUME NEW o \in result[c] PROVE Truthful(c, New(o))'
            <4>1. New(o).status # "PENDING" /\ New(o).status = new.status /\ New(o).periodValid = o.periodValid
                BY <3>1, <3>4 DEF Answer
            <4>2. Truthful(c, o)
                BY DEF RowsTruthful
            <4>3. isExpired(c)' <=> isExpired(c)
                BY <2>1 DEF isExpired
            <4>4. ~o.periodValid /\ new.status = "VALID" => c \in overtaken'
                BY <2>2, <2>4
            <4>5. \A q : /\ q.status # "PENDING" /\ q.periodValid = o.periodValid /\ q.status = new.status
                         => Truthful(c, q)'
                BY <4>2, <4>3, <4>4 DEF Truthful
            <4> QED
                BY <4>1, <4>5
        <3>6. \A d \in Cert : \A o \in result'[d] : o \in result[d] \/ Truthful(d, o)'
            BY <3>3, <3>4, <3>5
        <3> QED
            BY <1>0, <2>1, <3>6, TruthKept
    <2> QED
        BY <2>3, <2>4
<1>9. CASE RelayStep
    <2>1. CASE StartRelay
        <3>1. UNCHANGED <<result, job>>
              /\ \A c \in Cert : \A o \in relay'.rows[c] : \E q \in result[c] : o.periodValid = q.periodValid
            BY <2>1 DEF StartRelay, relayRest, RelayIdle
        <3> QED
            BY <1>0, <3>1, TruthKept
    <2>2. CASE EndRelay
        <3>1. UNCHANGED <<result, job>> /\ \A c \in Cert : relay'.rows[c] = {}
            BY <2>2 DEF EndRelay, relayRest, RelayIdle
        <3> QED
            BY <1>0, <3>1, TruthKept
    <2>3. ASSUME NEW c \in Cert, Unchanged(c) \/ ChangeFails(c) PROVE RowsTruthful'
        <3>1. UNCHANGED <<result, job>> /\ Processed(c) /\ relay \in Relays
            BY <2>3 DEF Unchanged, ChangeFails, relayRest, ValidationInv, ValidationShape
        <3>2. relay'.rows[c] = {} /\ \A d \in Cert \ {c} : relay'.rows[d] = relay.rows[d]
            BY <3>1, ProcessedFacts
        <3> QED
            BY <1>0, <3>1, <3>2, TruthKept
    <2>4. ASSUME NEW c \in Cert, Changed(c) PROVE RowsTruthful'
        <3>1. /\ UNCHANGED <<pki, now, job, overtaken>> /\ relay'.rows[c] = {}
              /\ \A d \in Cert \ {c} : relay'.rows[d] = relay.rows[d]
            BY <2>4, ChangedFacts
        <3>2. PICK o \in relay.rows[c], st \in Statuses :
                  /\ ~o.periodValid # isExpired(c)
                  /\ isExpired(c) => st = "INVALID"
                  /\ \/ result' = result
                     \/ result' = Redated(c, st)
            BY <2>4, ChangedFacts
        <3>3. isExpired(c) /\ st = "INVALID"
            BY <3>2 DEF RowsTruthful
        <3> DEFINE New(q) == [q EXCEPT !.periodValid = ~isExpired(c), !.status = st]
        <3>4. \A q \in Row : New(q).status = st /\ New(q).periodValid = FALSE
            BY <3>3 DEF Row
        <3>5. result' = result \/ result' = [result EXCEPT ![c] = {New(q) : q \in result[c]}]
            BY <3>2 DEF Redated
        <3> HIDE DEF New
        <3>6. \A d \in Cert \ {c} : result'[d] = result[d]
            BY <3>5 DEF ValidationInv, ValidationShape
        <3>7. result[c] \subseteq Row /\ (result'[c] = result[c] \/ result'[c] = {New(q) : q \in result[c]})
            BY <3>5 DEF ValidationInv, ValidationShape
        <3>8. isExpired(c)' <=> isExpired(c)
            BY <3>1 DEF isExpired
        <3>9. \A q : q.status = "INVALID" => Truthful(c, q)'
            BY <3>3, <3>8 DEF Truthful
        <3>10. \A d \in Cert : \A q \in result'[d] : q \in result[d] \/ Truthful(d, q)'
            BY <3>3, <3>4, <3>6, <3>7, <3>9
        <3> QED
            BY <1>0, <3>1, <3>10, TruthKept
    <2> QED
        BY <1>9, <2>1, <2>2, <2>3, <2>4 DEF RelayStep
<1> QED
    BY <1>1, <1>2, <1>3, <1>4, <1>5, <1>6, <1>7, <1>8, <1>9 DEF ValidationNext, JobStep, RevalStep

\* All rows are true, in the table, on their way to it and as the relay read them.
THEOREM TruthfulHolds == ValidationSpec => [](ValidationInv /\ RowsTruthful)
<1>1. ValidationInit => RowsTruthful
    BY DEF ValidationInit, RowsTruthful, JobIdle, RelayIdle
<1>2. ValidationInv /\ RowsTruthful /\ [ValidationNext]_validationVars => ValidationInv' /\ RowsTruthful'
    BY StepInv, StepTruthful
<1> QED
    BY <1>1, <1>2, ValidationInitInv, PTL DEF ValidationSpec

\* A document signer that is PENDING is what the next revalidation looks for
\* (validation_repository.cpp: csca_found and status).
THEOREM PendingAreRetried == ValidationSpec => []PendingIsRetried
<1>1. ASSUME ValidationInv, RowsTruthful PROVE PendingIsRetried
    <2> SUFFICES ASSUME NEW c \in Cert, HasRow(c), typeOf(c) = "DSC", Status(c) = "PENDING"
                 PROVE  c \in findDscForRevalidation
        BY DEF PendingIsRetried
    <2>1. The(result[c]) \in result[c] /\ result[c] \subseteq Row
        BY <1>1, TheOfRow DEF HasRow, ValidationInv, ValidationShape
    <2>2. ~The(result[c]).found
        BY <1>1, <2>1 DEF RowsTruthful, Truthful, Status
    <2>3. cert[c] # "none"
        BY <1>1 DEF ValidationInv, RowsHaveCert, HasRow
    <2> QED
        BY <2>2, <2>3 DEF findDscForRevalidation
<1> QED
    BY <1>1, TruthfulHolds, PTL

\* Once the relay has seen a certificate expire, its row says VALID only if a
\* revalidation that overlapped wrote it (updateRevalidation leaves
\* validity_period_valid alone).
THEOREM ExpiredAreNotValid == ValidationSpec => []ExpiredIsNotValid
<1>1. ValidationInv /\ RowsTruthful => ExpiredIsNotValid
    BY TheOfRow DEF ExpiredIsNotValid, RowsTruthful, Truthful, HasRow, Status
<1> QED
    BY <1>1, TruthfulHolds, PTL
-----------------------------------------------------------------------------
(* What a revalidation found good stays good.                              *)

\* What is in the hands of the revalidations was so before, and the rows that are
\* there are the same or no better.
LEMMA BadKept ==
    ASSUME ValidationInv, StillBad,
           \A r \in Reval : /\ reval'[r].todo \cup reval'[r].cert \subseteq reval[r].todo \cup reval[r].cert
                            /\ \A c \in reval'[r].todo \cup reval'[r].cert : c \in reval[r].gone => c \in reval'[r].gone,
           \A c \in Cert : \/ result'[c] = result[c]
                           \/ result[c] = {}
                           \/ result'[c] # {} /\ \A o \in result'[c] : o.status \notin Good
                           \/ \A r \in Reval : c \notin (reval'[r].todo \cup reval'[r].cert) \ reval'[r].gone
    PROVE  StillBad'
<1> SUFFICES ASSUME NEW r \in Reval, NEW c \in (reval'[r].todo \cup reval'[r].cert) \ reval'[r].gone
             PROVE  result'[c] # {} /\ \A o \in result'[c] : o.status \notin Good
    BY DEF StillBad
<1>1. c \in (reval[r].todo \cup reval[r].cert) \ reval[r].gone
    OBVIOUS
<1>2. c \in Cert
    BY <1>1 DEF ValidationInv, ValidationShape, Revals
<1>3. result[c] # {} /\ \A o \in result[c] : o.status \notin Good
    BY <1>1 DEF StillBad
<1> QED
    BY <1>2, <1>3

\* The write changes one row, which is in nobody's hands any more.
LEMMA BadAfterWrite ==
    ASSUME ValidationInv, StillBad, \A r, s \in Reval : r = s, NEW r \in Reval, WriteReval(r)
    PROVE  StillBad'
<1>1. PICK c \in Cert : reval[r].cert = {c} /\ \A d \in Cert \ {c} : result'[d] = result[d]
    <2>1. PICK c \in Cert, new \in Answer :
              /\ reval[r].cert = {c}
              /\ \/ result' = result
                 \/ result' = Answered(c, new)
        BY WriteRevalFacts
    <2>2. result \in [Cert -> SUBSET Row]
        BY DEF ValidationInv, ValidationShape
    <2>3. \A d \in Cert \ {c} : result'[d] = result[d]
        BY <2>1, <2>2 DEF Answered
    <2> QED
        BY <2>1, <2>3
<1>2. c \notin reval[r].todo /\ reval[r] \in Revals /\ reval[r].pc = "write"
    <2>1. reval[r].pc = "write" /\ reval[r] \in Revals
        BY DEF WriteReval, ValidationInv, ValidationShape
    <2>2. \E d \in Cert \ reval[r].todo : reval[r].cert = {d}
        BY <2>1 DEF ValidationInv, ValidationShape
    <2> QED
        BY <1>1, <2>1, <2>2
<1> DEFINE q == IF reval[r].todo = {} THEN RevalIdle
                ELSE [reval[r] EXCEPT !.pc = "check", !.cert = {}, !.row = {}]
<1>3. reval'[r] = q
    <2>1. reval' = [reval EXCEPT ![r] = q]
        BY DEF WriteReval
    <2> HIDE DEF q
    <2> QED
        BY <2>1 DEF ValidationInv, ValidationShape
<1>4. q.todo \subseteq reval[r].todo /\ q.cert = {} /\ (q.todo # {} => q.gone = reval[r].gone)
    BY <1>2 DEF RevalIdle, Revals
<1> HIDE DEF q
<1>5. \A s \in Reval : s = r
    OBVIOUS
<1> QED
    BY <1>1, <1>2, <1>3, <1>4, <1>5, BadKept

\* A revalidation takes bad rows into its hands.
LEMMA BadAfterStart ==
    ASSUME ValidationInv, StillBad, NEW r \in Reval, StartReval(r)
    PROVE  StillBad'
<1> DEFINE q == [RevalIdle EXCEPT !.pc = "check", !.todo = findDscForRevalidation]
<1>1. result' = result /\ reval' = [reval EXCEPT ![r] = q]
    BY DEF StartReval
<1>2. q.cert = {} /\ q.todo = findDscForRevalidation
    BY DEF RevalIdle
<1> HIDE DEF q
<1>3. reval'[r] = q /\ \A s \in Reval \ {r} : reval'[s] = reval[s]
    BY <1>1 DEF ValidationInv, ValidationShape
<1>4. ASSUME NEW c \in findDscForRevalidation PROVE result[c] # {} /\ \A o \in result[c] : o.status \notin Good
    <2>1. c \in Cert /\ result[c] # {} /\ The(result[c]).status \in {"INVALID", "PENDING"}
        BY DEF findDscForRevalidation, HasRow, Status
    <2>2. \A o \in result[c] : o = The(result[c])
        BY <2>1, TheOfRow DEF ValidationInv, ValidationShape, AtMostOne
    <2> QED
        BY <2>1, <2>2 DEF Good
<1> QED
    BY <1>1, <1>2, <1>3, <1>4 DEF StillBad

\* The certificate that was checked is still in its hands.
LEMMA BadAfterCheck ==
    ASSUME ValidationInv, StillBad, NEW r \in Reval, NEW c \in Cert, Check(r, c)
    PROVE  StillBad'
<1>1. PICK row : reval' = [reval EXCEPT ![r] = [pc |-> "write", todo |-> reval[r].todo \ {c}, cert |-> {c},
                                                gone |-> reval[r].gone, row |-> row]]
    BY DEF Check
<1>2. result' = result /\ c \in reval[r].todo
    BY DEF Check, revalRest
<1> DEFINE q == [pc |-> "write", todo |-> reval[r].todo \ {c}, cert |-> {c}, gone |-> reval[r].gone, row |-> row]
<1>3. q.todo \subseteq reval[r].todo /\ q.cert = {c} /\ q.gone = reval[r].gone
    OBVIOUS
<1>4. reval' = [reval EXCEPT ![r] = q]
    BY <1>1
<1> HIDE DEF q
<1>5. reval'[r] = q /\ \A s \in Reval \ {r} : reval'[s] = reval[s]
    BY <1>4 DEF ValidationInv, ValidationShape
<1> QED
    BY <1>2, <1>3, <1>5, BadKept

\* The relay makes no row better that is already there to be made worse: what it
\* finds changed has expired.
LEMMA ChangedIsExpired ==
    ASSUME ValidationInv, RowsTruthful, NEW c \in Cert, Changed(c)
    PROVE  /\ isExpired(c) /\ relay' # relay /\ UNCHANGED reval
           /\ \A d \in Cert \ {c} : result'[d] = result[d]
           /\ \/ result'[c] = result[c]
              \/ (result[c] # {} => result'[c] # {}) /\ \A q \in result'[c] : q.status \notin Good
<1>1. /\ UNCHANGED reval /\ relay'.rows[c] = {} /\ relay.rows[c] # {}
    BY ChangedFacts
<1>2. PICK o \in relay.rows[c], st \in Statuses :
          /\ ~o.periodValid # isExpired(c)
          /\ isExpired(c) => st = "INVALID"
          /\ \/ result' = result
             \/ result' = Redated(c, st)
    BY ChangedFacts
<1>3. isExpired(c) /\ st = "INVALID"
    BY <1>2 DEF RowsTruthful
<1> DEFINE New(q) == [q EXCEPT !.periodValid = ~isExpired(c), !.status = st]
<1>4. \A q \in Row : New(q).status = "INVALID"
    BY <1>3 DEF Row
<1>5. result' = result \/ result' = [result EXCEPT ![c] = {New(q) : q \in result[c]}]
    BY <1>2 DEF Redated
<1> HIDE DEF New
<1>6. result \in [Cert -> SUBSET Row]
    BY DEF ValidationInv, ValidationShape
<1>7. CASE result' = result
    BY <1>1, <1>3, <1>7
<1>8. CASE result' = [result EXCEPT ![c] = {New(q) : q \in result[c]}]
    <2>1. result'[c] = {New(q) : q \in result[c]} /\ \A d \in Cert \ {c} : result'[d] = result[d]
        BY <1>6, <1>8
    <2>2. result[c] # {} => result'[c] # {}
        BY <2>1
    <2>3. \A q \in result'[c] : q.status \notin Good
        BY <1>4, <1>6, <2>1 DEF Good
    <2> QED
        BY <1>1, <1>3, <2>1, <2>2, <2>3
<1> QED
    BY <1>5, <1>7, <1>8

\* No step makes a row good that a revalidation still holds.
LEMMA StepBad ==
    ASSUME ValidationInv, RowsTruthful, StillBad, \A r, s \in Reval : r = s, [ValidationNext]_validationVars
    PROVE  StillBad'
<1>1. CASE \/ Tick \/ PaStep \/ UNCHANGED validationVars \/ StartRelay \/ EndRelay
           \/ \E c \in Cert : Unchanged(c) \/ ChangeFails(c) \/ MasterList(c) \/ DeleteList(c)
    <2>1. UNCHANGED <<result, reval>>
        BY <1>1 DEF Tick, PaStep, LookUpDsc, RegisterDsc, paRest, validationVars, StartRelay, EndRelay,
           Unchanged, ChangeFails, relayRest, MasterList, DeleteList
    <2> QED
        BY <2>1, BadKept
<1>2. CASE Restart
    <2>1. result' = result /\ \A r \in Reval : reval'[r].todo = {} /\ reval'[r].cert = {}
        BY <1>2 DEF Restart, RevalIdle
    <2> QED
        BY <2>1 DEF StillBad
<1>3. ASSUME NEW c \in Cert, DeleteUpload(c) PROVE StillBad'
    <2>1. /\ \A d \in Cert : result'[d] = IF d = c THEN {} ELSE result[d]
          /\ \A r \in Reval : /\ reval'[r].pc = reval[r].pc /\ reval'[r].todo = reval[r].todo
                              /\ reval'[r].cert = reval[r].cert
                              /\ reval[r].pc = "idle" \/ reval'[r].gone = reval[r].gone \cup {c}
                              /\ reval[r].gone \subseteq reval'[r].gone
        BY <1>3, DeleteUploadFacts
    <2>2. \A r \in Reval : c \notin (reval'[r].todo \cup reval'[r].cert) \ reval'[r].gone
        BY <2>1 DEF ValidationInv, ValidationShape
    <2> QED
        BY <2>1, <2>2, BadKept
<1>4. ASSUME NEW j \in Job, StartJob(j) \/ EndJob(j) \/ InsertCert(j) \/ \E c \in Cert : Validate(j, c)
      PROVE  StillBad'
    <2>1. UNCHANGED <<result, reval>>
        <3>1. ASSUME NEW c \in Cert, Validate(j, c) PROVE UNCHANGED <<result, reval>>
            BY <3>1 DEF Validate, jobRest
        <3> QED
            BY <1>4, <3>1 DEF StartJob, EndJob, InsertCert, jobRest
    <2> QED
        BY <2>1, BadKept
<1>5. ASSUME NEW j \in Job, SaveResult(j) PROVE StillBad'
    <2>1. reval' = reval /\ \A d \in Cert : result'[d] = result[d] \/ result[d] = {}
        BY <1>5, SaveResultFacts
    <2> QED
        BY <2>1, BadKept
<1>6. ASSUME NEW c \in Cert, Changed(c) PROVE StillBad'
    <2>1. \A d \in Cert : \/ result'[d] = result[d] \/ result[d] = {}
                          \/ result'[d] # {} /\ \A q \in result'[d] : q.status \notin Good
        BY <1>6, ChangedIsExpired
    <2>2. reval' = reval
        BY <1>6, ChangedIsExpired
    <2> QED
        BY <2>1, <2>2, BadKept
<1>7. ASSUME NEW r \in Reval, RevalStep(r) PROVE StillBad'
    BY <1>7, BadAfterStart, BadAfterWrite, BadAfterCheck DEF RevalStep
<1> QED
    BY <1>1, <1>2, <1>3, <1>4, <1>5, <1>6, <1>7 DEF ValidationNext, JobStep, RelayStep

\* A row that was good stays good, or the relay has seen it expire.
LEMMA StepNotTakenBack ==
    ASSUME ValidationInv, RowsTruthful, StillBad, [ValidationNext]_validationVars,
           NEW c \in Cert, HasRow(c), result'[c] # {}, Status(c) \in Good
    PROVE  The(result'[c]).status \in Good \/ (isExpired(c) /\ relay' # relay)
<1>1. result[c] # {} /\ \E o \in result[c] : o.status \in Good
    BY TheOfRow DEF HasRow, Status
<1>2. SUFFICES ASSUME result'[c] # result[c] PROVE isExpired(c) /\ relay' # relay
    BY DEF Status
<1>3. ASSUME NEW d \in Cert, DeleteUpload(d) PROVE FALSE
    BY <1>2, <1>3, DeleteUploadFacts
<1>4. ASSUME NEW j \in Job, SaveResult(j) PROVE FALSE
    BY <1>1, <1>2, <1>4, SaveResultFacts
<1>5. ASSUME NEW r \in Reval, WriteReval(r) PROVE FALSE
    <2>1. PICK d \in Cert, new \in Answer :
              /\ reval[r].cert = {d}
              /\ \/ result' = result
                 \/ /\ d \notin reval[r].gone
                    /\ result' = Answered(d, new)
        BY <1>5, WriteRevalFacts
    <2>2. c = d /\ c \notin reval[r].gone
        BY <1>2, <2>1 DEF Answered, ValidationInv, ValidationShape
    <2> QED
        BY <1>1, <2>1, <2>2 DEF StillBad
<1>6. ASSUME NEW d \in Cert, Changed(d) PROVE isExpired(c) /\ relay' # relay
    <2>1. isExpired(d) /\ relay' # relay /\ \A e \in Cert \ {d} : result'[e] = result[e]
        BY <1>6, ChangedIsExpired
    <2> QED
        BY <1>2, <2>1
<1>7. ASSUME NEW j \in Job, StartJob(j) \/ EndJob(j) \/ InsertCert(j) PROVE FALSE
    BY <1>2, <1>7 DEF StartJob, EndJob, InsertCert, jobRest
<1>8. ASSUME NEW j \in Job, NEW d \in Cert, Validate(j, d) PROVE FALSE
    BY <1>2, <1>8 DEF Validate, jobRest
<1>9. ASSUME NEW r \in Reval, NEW d \in Cert, Check(r, d) PROVE FALSE
    BY <1>2, <1>9 DEF Check, revalRest
<1>10. ASSUME NEW r \in Reval, StartReval(r) PROVE FALSE
    BY <1>2, <1>10 DEF StartReval, revalRest
<1>11. ASSUME NEW d \in Cert, Unchanged(d) \/ ChangeFails(d) \/ MasterList(d) \/ DeleteList(d) PROVE FALSE
    BY <1>2, <1>11 DEF Unchanged, ChangeFails, relayRest, MasterList, DeleteList
<1>12. CASE Tick \/ PaStep \/ Restart \/ UNCHANGED validationVars \/ StartRelay \/ EndRelay
    BY <1>2, <1>12 DEF Tick, PaStep, LookUpDsc, RegisterDsc, paRest, Restart, validationVars, StartRelay,
       EndRelay, relayRest
<1> QED
    BY <1>3, <1>4, <1>5, <1>6, <1>7, <1>8, <1>9, <1>10, <1>11, <1>12
    DEF ValidationNext, JobStep, RevalStep, RelayStep

\* With one revalidation at a time pkd-management takes no VALID or EXPIRED_VALID
\* back, for every set of certificates, every number of uploads and every depth:
\* a row it is about to write over is a bad one as long as it is there.
THEOREM NothingIsTakenBack ==
    ASSUME \A r, s \in Reval : r = s
    PROVE  ValidationSpec => NotTakenBack
<1>1. ASSUME ValidationInit PROVE StillBad
    <2>1. RevalIdle.todo = {} /\ RevalIdle.cert = {}
        BY DEF RevalIdle
    <2>2. \A r \in Reval : reval[r] = RevalIdle
        BY <1>1 DEF ValidationInit
    <2> QED
        BY <2>1, <2>2 DEF StillBad
<1>2. StillBad /\ ValidationInv /\ RowsTruthful /\ [ValidationNext]_validationVars => StillBad'
    BY StepBad
<1>3. ASSUME StillBad, ValidationInv, RowsTruthful, [ValidationNext]_validationVars
      PROVE  [\A c \in Cert : HasRow(c) /\ result'[c] # {} /\ Status(c) \in {"VALID", "EXPIRED_VALID"} =>
                  \/ The(result'[c]).status \in {"VALID", "EXPIRED_VALID"}
                  \/ isExpired(c) /\ relay' # relay]_validationVars
    BY <1>3, StepNotTakenBack DEF Good
<1> QED
    BY <1>1, <1>2, <1>3, TruthfulHolds, PTL DEF ValidationSpec, NotTakenBack

-----------------------------------------------------------------------------
(* The scheduler: its inductive invariants.                                *)

\* A caller that is stopping, configuring or starting the scheduler.
Active(c) == pc[c] \notin {"idle", "notify"}

\* dailyThread_ stands for the one thread that may be alive.
ThreadKnown == \A g \in Gen : Live(g) => thread = g

\* join() waits for the thread dailyThread_ stands for, and past it there is no
\* thread left until start() makes one.
CallerOK(c) ==
    /\ pc[c] = "join" => joins[c] = thread
    /\ pc[c] \in {"stopped", "configured", "starting", "ended"} => thread = NoThread

OneActive == \A c, d \in Caller : Active(c) /\ Active(d) => c = d

Serial ==
    ~overlap => /\ ~crashed
                /\ OneActive
                /\ ThreadKnown
                /\ \A c \in Caller : CallerOK(c)

\* The thread a start() is about to make is a new one, and nobody else makes it.
Fresh ==
    /\ \A g \in Gen : g > starts => daily[g] = "none"
    /\ \A c \in Caller : pc[c] = "starting" =>
          joins[c] \in 1..starts /\ daily[joins[c]] = "none"
    /\ \A c, d \in Caller :
          pc[c] = "starting" /\ pc[d] = "starting" /\ joins[c] = joins[d] => c = d

\* The mutex is held from the end of the wait to the end of the tasks.
Holding == {"eval", "falling", "go", "check", "revalidate", "reconcile"}
MutexOK ==
    /\ mutex # Free => daily[mutex] \in Holding
    /\ \A g \in Gen : daily[g] \in Holding => mutex = g

Inv == TypeOK /\ MutexOK /\ Fresh /\ Serial

\* Generations of threads are naturals, unlike the two values for none.
LEMMA GenFacts == 1 \in Gen /\ Gen \subseteq Nat /\ Free \notin Gen /\ NoThread \notin Gen
  BY StartsAssumption DEF Gen, Free, NoThread

LEMMA GensUpTo == ASSUME NEW n \in Gen PROVE 1..n \subseteq Gen /\ n \in Nat
  BY StartsAssumption DEF Gen

\* The scheduler starts with one caller, main.
LEMMA SchedulerInitInv == Init => Inv
  <1> SUFFICES ASSUME Init PROVE Inv
    OBVIOUS
  <1> USE GenFacts DEF Init
  <1>1. TypeOK
    BY ConfigAssumption DEF TypeOK, DailyPc, CallerPc
  <1>2. MutexOK
    BY DEF MutexOK, Holding
  <1>3. Serial
    BY DEF Serial, OneActive, Active, ThreadKnown, CallerOK, Live
  <1>4. Fresh
    BY DEF Fresh
  <1> QED BY <1>1, <1>2, <1>3, <1>4 DEF Inv

\* What a step of a daily thread may do: it moves itself only, and it is not
\* the one that brings itself to life.
LEMMA DailyMoves ==
    ASSUME Inv, NEW g \in Gen, NEW l \in DailyPc \ {"none"}, Live(g), Goto(g, l),
           UNCHANGED dailyRest, mutex' \in Gen \cup {Free}, MutexOK',
           force' \in BOOLEAN, due' \in BOOLEAN
    PROVE  Inv'
  <1> USE DEF dailyRest, callers
  <1>1. TypeOK'
    BY DEF Inv, TypeOK, Goto
  <1>2. \A h \in Gen : Live(h)' => Live(h)
    BY DEF Inv, TypeOK, Goto, Live
  <1>3. Serial'
    BY <1>2 DEF Inv, Serial, OneActive, Active, ThreadKnown, CallerOK
  <1>4. Fresh'
    BY DEF Inv, TypeOK, Fresh, Goto, Live
  <1> QED BY <1>1, <1>3, <1>4 DEF Inv

\* The steps of the daily thread.
LEMMA DailyInv ==
    ASSUME Inv, NEW g \in Gen,
           DailyStep(g) \/ TimeReached(g) \/ WakeUp(g) \/ TaskThrows(g)
    PROVE  Inv'
  <1> USE GenFacts
  <1>t. daily \in [Gen -> DailyPc] /\ mutex \in Gen \cup {Free} /\ MutexOK
        /\ force \in BOOLEAN /\ due \in BOOLEAN
    BY DEF Inv, TypeOK
  <1>1. CASE Top(g)
    <2>1. PICK l \in {"eval", "done"} : Goto(g, l)
      BY <1>1 DEF Top
    <2>2. MutexOK' /\ mutex' \in Gen \cup {Free}
      <3>1. CASE daily'[g] = "eval"
        BY <1>1, <1>t, <3>1 DEF Top, Goto, MutexOK, Holding, Live
      <3>2. CASE daily'[g] = "done"
        <4>1. mutex' = mutex /\ mutex # g /\ Goto(g, "done")
          BY <1>1, <1>t, <3>2 DEF Top, Goto, MutexOK, Holding
        <4> QED BY <1>t, <4>1 DEF Goto, MutexOK, Holding, Live
      <3> QED BY <1>t, <2>1, <3>1, <3>2 DEF Goto
    <2> QED BY <1>1, <1>t, <2>1, <2>2, DailyMoves DEF Top, DailyPc, Live
  <1>2. CASE Eval(g)
    <2>1. PICK l \in {"go", "falling"} : Goto(g, l)
      BY <1>2 DEF Eval
    <2>2. MutexOK'
      BY <1>2, <1>t, <2>1 DEF Eval, Goto, MutexOK, Holding, Live
    <2> QED BY <1>2, <1>t, <2>1, <2>2, DailyMoves DEF Eval, DailyPc, Live
  <1>3. CASE FallAsleep(g)
    <2>1. MutexOK'
      BY <1>3, <1>t DEF FallAsleep, Goto, MutexOK, Holding
    <2> QED BY <1>3, <1>t, <2>1, DailyMoves DEF FallAsleep, DailyPc, Live
  <1>4. CASE TimeReached(g) \/ WakeUp(g)
    <2>1. PICK l \in {"late", "woken"} : Goto(g, l)
      BY <1>4 DEF TimeReached, WakeUp
    <2>2. MutexOK'
      BY <1>4, <1>t, <2>1 DEF TimeReached, WakeUp, Goto, MutexOK, Holding, Live
    <2> QED BY <1>4, <1>t, <2>1, <2>2, DailyMoves DEF TimeReached, WakeUp, DailyPc, Live
  <1>5. CASE Relock(g)
    <2>1. PICK l \in {"eval", "go"} : Goto(g, l)
      BY <1>5 DEF Relock
    <2>2. MutexOK' /\ mutex' = g
      BY <1>5, <1>t, <2>1 DEF Relock, Goto, MutexOK, Holding, Live
    <2> QED BY <1>5, <1>t, <2>1, <2>2, DailyMoves DEF Relock, DailyPc, Live
  <1>6. CASE Go(g)
    <2>1. PICK l \in {"done", "check", "top"} : Goto(g, l)
      BY <1>6 DEF Go
    <2>2. mutex = g
      BY <1>6, <1>t DEF Go, MutexOK, Holding
    <2>3. MutexOK' /\ mutex' \in Gen \cup {Free}
      BY <1>6, <1>t, <2>2 DEF Go, Goto, MutexOK, Holding, Live
    <2>4. force' \in BOOLEAN /\ due' \in BOOLEAN
      BY <1>6, <1>t DEF Go
    <2> QED BY <1>6, <1>t, <2>1, <2>3, <2>4, DailyMoves DEF Go, DailyPc, Live
  <1>7. CASE Task(g) \/ TaskThrows(g)
    <2>1. PICK l \in {"revalidate", "reconcile", "top"} : TaskEnds(g, l)
      BY <1>7 DEF Task, TaskThrows
    <2>2. daily[g] \in {"check", "revalidate", "reconcile"} /\ mutex = g
      BY <1>7, <1>t DEF Task, TaskThrows, MutexOK, Holding
    <2>3. MutexOK' /\ mutex' \in Gen \cup {Free}
      BY <1>t, <2>1, <2>2 DEF TaskEnds, Goto, MutexOK, Holding, Live
    <2> QED BY <1>7, <1>t, <2>1, <2>2, <2>3, DailyMoves
            DEF Task, TaskThrows, TaskEnds, DailyPc, Live
  <1> QED BY <1>1, <1>2, <1>3, <1>4, <1>5, <1>6, <1>7 DEF DailyStep

\* Waking the sleepers brings nobody to life and takes no mutex.
LEMMA WakingAll ==
    ASSUME Inv, NotifyAll, mutex' = mutex
    PROVE  /\ daily' \in [Gen -> DailyPc] /\ MutexOK'
           /\ \A g \in Gen : Live(g)' <=> Live(g)
           /\ \A g \in Gen : daily'[g] = "none" <=> daily[g] = "none"
  <1>1. daily \in [Gen -> DailyPc]
    BY DEF Inv, TypeOK
  <1>2. /\ daily' \in [Gen -> DailyPc]
        /\ \A g \in Gen : Live(g)' <=> Live(g)
        /\ \A g \in Gen : daily'[g] = "none" <=> daily[g] = "none"
    BY <1>1 DEF NotifyAll, DailyPc, Live
  <1>3. MutexOK'
    BY <1>1, <1>2, GenFacts DEF Inv, TypeOK, MutexOK, Holding, NotifyAll, Free
  <1> QED BY <1>2, <1>3

\* The requests and the end of main().
LEMMA CallerInv ==
    ASSUME Inv, NEW c \in Caller, Stop(c) \/ CallerStep(c) \/ JoinThrows(c)
    PROVE  Inv'
  <1> USE GenFacts DEF threads, callers, callerRest
  <1>t. /\ daily \in [Gen -> DailyPc] /\ pc \in [Caller -> CallerPc]
        /\ joins \in [Caller -> Gen \cup {NoThread}] /\ TypeOK
    BY DEF Inv, TypeOK
  <1>pc. {"idle", "notify", "stopping", "notified", "join", "stopped",
          "configured", "starting", "ended"} = CallerPc
    BY DEF CallerPc
  <1>fresh. ASSUME NEW l \in CallerPc \ {"starting"}, CallerGoto(c, l), starts' = starts,
                   \A g \in Gen : daily[g] = "none" <=> daily'[g] = "none",
                   \A d \in Caller \ {c} : joins'[d] = joins[d]
            PROVE  Fresh'
    <2>1. \A d \in Caller : pc'[d] = "starting" => pc[d] = "starting" /\ joins'[d] = joins[d]
      BY <1>fresh, <1>t DEF CallerGoto
    <2>2. 1..starts \subseteq Gen
      BY <1>t, GensUpTo DEF TypeOK
    <2>3. /\ \A g \in Gen : g > starts => daily[g] = "none"
          /\ \A d \in Caller : pc[d] = "starting"
                             => joins[d] \in 1..starts /\ daily[joins[d]] = "none"
          /\ \A d, e \in Caller :
                pc[d] = "starting" /\ pc[e] = "starting" /\ joins[d] = joins[e] => d = e
      BY DEF Inv, Fresh
    <2>4. \A g \in Gen : g > starts' => daily'[g] = "none"
      BY <1>fresh, <2>3
    <2>5. \A d \in Caller : pc'[d] = "starting"
                          => joins'[d] \in 1..starts' /\ daily'[joins'[d]] = "none"
      BY <1>fresh, <2>1, <2>2, <2>3
    <2>6. \A d, e \in Caller :
             pc'[d] = "starting" /\ pc'[e] = "starting" /\ joins'[d] = joins'[e] => d = e
      BY <2>1, <2>3
    <2> QED BY <2>4, <2>5, <2>6 DEF Fresh
  <1>same. daily' = daily /\ mutex' = mutex => MutexOK'
    BY DEF Inv, MutexOK, Holding, Live
  <1>1. CASE Stop(c)
    <2>1. TypeOK'
      BY <1>1, <1>t, <1>pc DEF Stop, CallerGoto, TypeOK
    <2>2. ~overlap' => ~overlap /\ \A d \in Caller : ~Active(d)
      BY <1>1 DEF Stop, Active
    <2>3. Serial'
      BY <1>1, <1>t, <2>2 DEF Stop, CallerGoto, Inv, Serial, OneActive, Active, ThreadKnown,
         CallerOK, Live
    <2>4. Fresh'
      BY <1>1, <1>pc, <1>fresh DEF Stop
    <2> QED BY <1>1, <1>same, <2>1, <2>3, <2>4 DEF Stop, Inv
  <1>2. CASE TriggerNotifies(c) \/ StopNotifies(c)
    <2>1. PICK l \in {"idle", "notified"} : CallerGoto(c, l)
      BY <1>2 DEF TriggerNotifies, StopNotifies
    <2>2. /\ NotifyAll
          /\ UNCHANGED <<running, force, cfg, starts, thread, mutex, joins, callerRest>>
          /\ l = "idle" \/ pc[c] = "stopping"
      BY <1>2, <1>t, <2>1 DEF TriggerNotifies, StopNotifies, CallerGoto
    <2>3. /\ daily' \in [Gen -> DailyPc] /\ MutexOK'
          /\ \A g \in Gen : Live(g)' <=> Live(g)
          /\ \A g \in Gen : daily'[g] = "none" <=> daily[g] = "none"
      BY <2>2, WakingAll
    <2>4. TypeOK'
      BY <1>t, <1>pc, <2>1, <2>2, <2>3 DEF CallerGoto, TypeOK
    <2>5. Serial'
      BY <1>t, <2>1, <2>2, <2>3 DEF CallerGoto, Inv, Serial, OneActive, Active, ThreadKnown,
         CallerOK
    <2>6. Fresh'
      BY <1>pc, <1>fresh, <2>1, <2>2, <2>3
    <2> QED BY <2>3, <2>4, <2>5, <2>6 DEF Inv
  <1>3. CASE Joinable(c)
    <2>1. TypeOK'
      BY <1>3, <1>t, <1>pc DEF Joinable, CallerGoto, TypeOK
    <2>2. Serial'
      BY <1>3, <1>t DEF Joinable, CallerGoto, Inv, Serial, OneActive, Active, ThreadKnown,
         CallerOK, Live
    <2>3. Fresh'
      BY <1>3, <1>t, <1>pc, <1>fresh DEF Joinable
    <2> QED BY <1>3, <1>same, <2>1, <2>2, <2>3 DEF Joinable, Inv
  <1>4. CASE Joined(c)
    <2>1. TypeOK'
      BY <1>4, <1>t, <1>pc DEF Joined, CallerGoto, TypeOK
    <2>2. ASSUME ~overlap PROVE \A g \in Gen : ~Live(g)
      BY <1>4, <2>2 DEF Joined, Inv, Serial, ThreadKnown, CallerOK, Live
    <2>3. ASSUME ~overlap PROVE \A d \in Caller : d # c => ~Active(d)
      BY <1>4, <2>3 DEF Joined, Inv, Serial, OneActive, Active
    <2>4. Serial'
      BY <1>4, <1>t, <2>2, <2>3 DEF Joined, CallerGoto, Inv, Serial, OneActive, Active,
         ThreadKnown, CallerOK, Live
    <2>5. Fresh'
      BY <1>4, <1>t, <1>pc, <1>fresh DEF Joined
    <2> QED BY <1>4, <1>same, <2>1, <2>4, <2>5 DEF Joined, Inv
  <1>5. CASE JoinThrows(c)
    <2>1. TypeOK'
      BY <1>5, <1>t, <1>pc DEF JoinThrows, CallerGoto, TypeOK
    <2>2. Serial'
      BY <1>5, <1>t DEF JoinThrows, CallerGoto, Inv, Serial, OneActive, Active, ThreadKnown,
         CallerOK, Live
    <2>3. Fresh'
      BY <1>5, <1>t, <1>pc, <1>fresh DEF JoinThrows
    <2> QED BY <1>5, <1>same, <2>1, <2>2, <2>3 DEF JoinThrows, Inv
  <1>6. CASE Configure(c)
    <2>1. TypeOK'
      BY <1>6, <1>t, <1>pc DEF Configure, CallerGoto, TypeOK
    <2>2. Serial'
      BY <1>6, <1>t DEF Configure, CallerGoto, Inv, Serial, OneActive, Active, ThreadKnown,
         CallerOK, Live
    <2>3. Fresh'
      BY <1>6, <1>pc, <1>fresh DEF Configure
    <2> QED BY <1>6, <1>same, <2>1, <2>2, <2>3 DEF Configure, Inv
  <1>7. CASE Start(c)
    <2>1. starts + 1 \in Gen
      BY <1>7, <1>t, StartsAssumption DEF Start, TypeOK, Gen
    <2>2. TypeOK'
      BY <1>7, <1>t, <1>pc, <2>1 DEF Start, CallerGoto, TypeOK
    <2>3. Serial'
      BY <1>7, <1>t DEF Start, CallerGoto, Inv, Serial, OneActive, Active, ThreadKnown,
         CallerOK, Live
    <2>4. Fresh'
      <3>1. \A d \in Caller : pc'[d] = "starting" =>
                \/ d = c /\ joins'[d] = starts + 1
                \/ d # c /\ pc[d] = "starting" /\ joins'[d] = joins[d]
        BY <1>7, <1>t DEF Start, CallerGoto
      <3>2. starts \in Nat /\ daily[starts + 1] = "none"
        BY <1>t, <2>1 DEF Inv, Fresh, TypeOK, Gen
      <3> QED BY <1>7, <3>1, <3>2 DEF Start, Inv, Fresh, Gen
    <2> QED BY <1>7, <1>same, <2>2, <2>3, <2>4 DEF Start, Inv
  <1>8. CASE StartDaily(c)
    <2>1. TypeOK'
      BY <1>8, <1>t, <1>pc DEF StartDaily, CallerGoto, Goto, TypeOK, DailyPc
    <2>0. joins[c] \in Gen /\ daily[joins[c]] = "none" /\ joins[c] <= starts
      <3>1. 1..starts \subseteq Gen /\ starts \in Nat
        BY <1>t, GensUpTo DEF TypeOK
      <3> QED BY <1>8, <3>1 DEF StartDaily, Inv, Fresh
    <2>2. MutexOK'
      <3>1. mutex # joins[c] /\ mutex' = mutex /\ (mutex # Free => mutex \in Gen)
        BY <1>8, <1>t, <2>0 DEF StartDaily, Inv, TypeOK, MutexOK, Holding
      <3>2. /\ \A g \in Gen : g # joins[c] => daily'[g] = daily[g]
            /\ daily'[joins[c]] \in {"none", "top"}
        BY <1>8, <1>t, <2>0 DEF StartDaily, Goto
      <3> QED BY <3>1, <3>2 DEF Inv, MutexOK, Holding
    <2>3. ASSUME ~overlap
          PROVE  /\ \A g \in Gen : ~Live(g)
                 /\ thread = NoThread
                 /\ \A d \in Caller : d # c => ~Active(d)
      BY <1>8, <2>3 DEF StartDaily, Inv, Serial, OneActive, Active, ThreadKnown, CallerOK
    <2>4. Serial'
      BY <1>8, <1>t, <2>3 DEF StartDaily, CallerGoto, Goto, Inv, Serial, OneActive, Active,
         ThreadKnown, CallerOK, Live
    <2>5. Fresh'
      <3>1. \A d \in Caller : pc'[d] = "starting" =>
                d # c /\ pc[d] = "starting" /\ joins'[d] = joins[d] /\ joins[d] # joins[c]
        BY <1>8, <1>t DEF StartDaily, CallerGoto, Inv, Fresh
      <3>2. \A g \in Gen : g # joins[c] => daily'[g] = daily[g]
        BY <1>8, <1>t DEF StartDaily, Goto
      <3>3. starts' = starts /\ starts \in Nat /\ 1..starts \subseteq Gen /\ Gen \subseteq Nat
        BY <1>8, <1>t, GensUpTo DEF StartDaily, TypeOK
      <3>4. ASSUME NEW g \in Gen, g > starts PROVE daily'[g] = "none"
        <4>1. g # joins[c]
          BY <2>0, <3>3, <3>4
        <4> QED BY <3>2, <3>4, <4>1 DEF Inv, Fresh
      <3>5. ASSUME NEW d \in Caller, pc'[d] = "starting"
            PROVE  joins'[d] \in 1..starts /\ daily'[joins'[d]] = "none"
        BY <3>1, <3>2, <3>3, <3>5 DEF Inv, Fresh
      <3>6. ASSUME NEW d \in Caller, NEW e \in Caller,
                   pc'[d] = "starting", pc'[e] = "starting", joins'[d] = joins'[e]
            PROVE  d = e
        BY <3>1, <3>6 DEF Inv, Fresh
      <3> QED BY <3>3, <3>4, <3>5, <3>6 DEF Fresh
    <2> QED BY <2>1, <2>2, <2>4, <2>5 DEF Inv
  <1> QED BY <1>1, <1>2, <1>3, <1>4, <1>5, <1>6, <1>7, <1>8 DEF CallerStep

\* The steps that touch neither the daily thread nor its configuration.
LEMMA QuietInv ==
    ASSUME Inv,
           \/ \E g \in Gen : FirstStep(g)
           \/ \E h \in Handler : Trigger(h)
           \/ Midnight \/ Teardown \/ UNCHANGED vars
    PROVE  Inv'
  <1> USE DEF threads, callers
  <1>1. UNCHANGED <<cfg, starts, thread, daily, mutex, overlap, crashed>>
    BY DEF FirstStep, FirstCheck, FirstCheckEnds, firstRest, Trigger, callerRest, Midnight,
       Teardown, vars
  <1>2. TypeOK'
    BY DEF FirstStep, FirstCheck, FirstCheckEnds, firstRest, Trigger, callerRest, Midnight,
       Teardown, vars, CallerGoto, Inv, TypeOK, CallerPc, Caller
  <1>3. \A c \in Caller : \/ pc'[c] = pc[c] /\ joins'[c] = joins[c]
                          \/ pc'[c] = "notify"
                          \/ pc[c] = "stopped" /\ pc'[c] = "ended"
    BY DEF FirstStep, FirstCheck, FirstCheckEnds, firstRest, Trigger, callerRest, Midnight,
       Teardown, vars, CallerGoto, Inv, TypeOK, Caller
  <1>4. Serial'
    BY <1>1, <1>3 DEF Inv, Serial, OneActive, Active, ThreadKnown, CallerOK, Live
  <1>5. Fresh'
    BY <1>1, <1>3 DEF Inv, Fresh
  <1> QED BY <1>1, <1>2, <1>4, <1>5 DEF Inv, MutexOK

\* No step of a caller or a thread breaks the invariant.
LEMMA NextInv == Inv /\ [Next]_vars => Inv'
  BY DailyInv, CallerInv, QuietInv DEF Next

\* The inductive invariant of the scheduler holds throughout.
THEOREM InvHolds == Spec => []Inv
  BY SchedulerInitInv, NextInv, PTL DEF Spec

-----------------------------------------------------------------------------
(* The theorems.                                                           *)

\* Every variable of the scheduler and its callers keeps its type.
THEOREM SchedulerTypesHold == Spec => []TypeOK
  <1>1. Inv => TypeOK
    BY DEF Inv
  <1> QED BY <1>1, InvHolds, PTL

\* dailyMutex_ does its work also across restarts, when the condition variable
\* wakes the thread for nothing and when two PUTs overlap: the thread that
\* holds it is alive, and a thread in its tasks holds it.
THEOREM TasksHoldMutex == Spec => []MutexHeld
  <1>1. Inv => MutexHeld
    BY DEF Inv, TypeOK, MutexOK, MutexHeld, Holding, Live
  <1> QED BY <1>1, InvHolds, PTL

\* As long as no two PUTs overlapped, no restart has ever assigned to a
\* dailyThread_ that was still joinable, which would end the program.
THEOREM SerialRestartsAreSafe == Spec => []SerialRestartIsSafe
  <1>1. Inv => SerialRestartIsSafe
    BY DEF Inv, Serial, SerialRestartIsSafe
  <1> QED BY <1>1, InvHolds, PTL

\* As long as no two PUTs overlapped, at most one daily thread is alive.
THEOREM DailyIsAlone == Spec => []OneDaily
  <1>1. Inv => OneDaily
    BY DEF Inv, Serial, ThreadKnown, OneDaily
  <1> QED BY <1>1, InvHolds, PTL

\* configure() never writes the settings while a daily thread is there to read
\* them, as long as no two PUTs overlapped: stop() has joined it.
THEOREM ConfigIsSettled == Spec => ConfigSettled
  <1> DEFINE Settled == ~overlap /\ cfg' # cfg => \A g \in Gen : ~Live(g)
  <1>1. Inv /\ [Next]_vars => [Settled]_vars
    <2> SUFFICES ASSUME Inv, Next, ~overlap, cfg' # cfg PROVE \A g \in Gen : ~Live(g)
      OBVIOUS
    <2>1. PICK c \in Caller : Configure(c)
      BY DEF Next, DailyStep, Top, Eval, FallAsleep, Relock, Go, Task, TimeReached, WakeUp,
         TaskThrows, FirstStep, FirstCheck, FirstCheckEnds, Stop, CallerStep, TriggerNotifies,
         StopNotifies, Joinable, Joined, Start, StartDaily, JoinThrows, Trigger, Midnight,
         Teardown, dailyRest, firstRest
    <2>2. thread = NoThread
      BY <2>1 DEF Configure, Inv, Serial, CallerOK
    <2> QED BY <2>2, GenFacts DEF Inv, Serial, ThreadKnown
  <1> QED BY <1>1, InvHolds, PTL DEF Spec, ConfigSettled
=============================================================================
