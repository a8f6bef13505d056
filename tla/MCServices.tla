---------------------------- MODULE MCServices ----------------------------
(***************************************************************************)
(* The services around the two stores, for TLC. They share no state, so    *)
(* that one run checks them side by side: `part` names the one that moves  *)
(* in a behaviour, and the others stay in their initial states.            *)
(***************************************************************************)
EXTENDS RateLimiter, ApiAccess, Accounts, Progress, IcaoVersions, PaVerification, CertImport, CertificateSearch,
        CertificateFiles

CONSTANTS Parts, c1, c2, ca1, ca2, lc1, sg

\* Callers, administrators, keys, sessions, streams, checks and imports are interchangeable.
Alike == Permutations(Caller)

VARIABLE part

MCLength == "minute" :> 5 @@ "hour" :> 6 @@ "day" :> 6
MCLimit == c1 :> ("minute" :> 2 @@ "hour" :> 0 @@ "day" :> 0)
           @@ c2 :> ("minute" :> 0 @@ "hour" :> 1 @@ "day" :> 2)

MCCollection == <<"DSC_CRL", "MASTERLIST">>

\* Documents that differ from a good one in one respect each.
Good == [signedBy |-> {ca1}, signing |-> "within", sod |-> TRUE, groups |-> {"equal"}]
MCDocument == {[Good EXCEPT !.signedBy = s] : s \in {{}, {ca1}, {ca2}, {lc1}}}
    \cup {[Good EXCEPT !.sod = FALSE], [Good EXCEPT !.signing = "outside"]}
    \cup {[Good EXCEPT !.groups = g] : g \in {{"different"}, {"equal", "unlisted"}}}

\* Lists that share a certificate or a signer, one that repeats itself, one without a list
\* in it, and a single certificate.
ListOf(signers, certs) == [kind |-> "list", signers |-> signers, body |-> certs # <<>>, certs |-> certs]
MCContents == {ListOf(<<sg>>, <<ca1>>), ListOf(<<>>, <<ca1, ca2>>), ListOf(<<>>, <<ca1, ca1>>),
               ListOf(<<sg>>, <<>>), [ListOf(<<>>, <<ca1>>) EXCEPT !.kind = "single"]}

Cert(n, names, ca, eku, nc, s) ==
    [kind |-> "cert", id |-> n, country |-> "AA", names |-> names, ca |-> ca, sign |-> ca,
     verifies |-> names # "different", eku |-> eku, nc |-> nc, serial |-> s, period |-> "valid"]
Other(kind, n, country) == [kind |-> kind, id |-> n, country |-> country]
\* Two non-conformant signers; two namesakes, one with names that differ in case only;
\* CRLs of two countries beside a list; a list signer and two CRLs of a country.
MCUniverses ==
    {{Cert(n, "different", FALSE, "none", TRUE, n) : n \in 1..2},
     {Cert(1, "case", TRUE, "none", FALSE, 1), Cert(2, "different", TRUE, "none", FALSE, 1)},
     {Other("crl", 2, "AA"), Other("crl", 3, "BB"), Other("ml", 4, "AA")},
     {Cert(3, "same", FALSE, "ml", FALSE, 1), Other("crl", 1, "AA"), Other("crl", 2, "AA")}}
MCQueries == {Query("", "", ""), Query("AA", "CSCA", ""), Query("", "DSC", "valid")}

\* A CRL in both encodings, one that is read as a certificate, certificates of each kind
\* of file, and deviation lists whose deviations are found again or are not, or that are none.
File(ext, text, kind) ==
    [ext |-> ext, text |-> text, kind |-> kind, certs |-> <<>>, deviations |-> <<>>, revoked |-> 0,
     name |-> 0]
MCFiles ==
    {[File("crl", text, "crl") EXCEPT !.revoked = 2, !.name = 1] : text \in BOOLEAN}
    \cup {[File("pem", TRUE, "certs") EXCEPT !.certs = <<"CSCA", "broken", "DL_SIGNER">>],
          File("", FALSE, "crl"), File("cer", TRUE, "certs"), File("dl", FALSE, "cms"),
          [File("der", FALSE, "certs") EXCEPT !.certs = <<"LINK_CERT">>],
          [File("dl", FALSE, "cms") EXCEPT !.certs = <<"MLSC">>],
          [File("", FALSE, "deviations") EXCEPT !.certs = <<"DL_SIGNER">>, !.name = 2,
              !.deviations = <<[id |-> 2, defects |-> <<1, 1>>], [id |-> 1, defects |-> <<1>>],
                               [id |-> 2, defects |-> <<1>>]>>],
          [File("dl", FALSE, "deviations") EXCEPT !.name = 3,
              !.deviations = <<[id |-> 1, defects |-> <<2>>], [id |-> 1, defects |-> <<3>>]>>]}

state == <<limiterVars, apiVars, accountVars, progressVars, icaoVars, paVars, importVars, searchVars, fileVars>>
vars == <<part, state>>

Init ==
    /\ part \in Parts
    /\ LimiterInit /\ ApiInit /\ AccountsInit /\ ProgressInit
    \* The initial states that a part chooses from are one while another moves.
    /\ IcaoInit /\ (part # "icao" => columns = (CHOOSE c \in Columns : TRUE))
    /\ PaInit /\ (part # "pa" => entries = {})
    /\ ImportInit /\ SearchInit /\ (part # "search" => coming = CHOOSE U \in Universes : TRUE)
    /\ (part # "import" => /\ dbType = (CHOOSE d \in DbTypes : TRUE)
                           /\ contents = [j \in Import |-> CHOOSE f \in Contents : TRUE])
    /\ FilesInit /\ (part # "files" => database = "oracle")

Next ==
    /\ UNCHANGED part
    /\ \/ part = "limiter" /\ LimiterNext
          /\ UNCHANGED <<apiVars, accountVars, progressVars, icaoVars, paVars, importVars, searchVars, fileVars>>
       \/ part = "access" /\ ApiNext
          /\ UNCHANGED <<limiterVars, accountVars, progressVars, icaoVars, paVars, importVars, searchVars, fileVars>>
       \/ part = "accounts" /\ AccountsNext
          /\ UNCHANGED <<limiterVars, apiVars, progressVars, icaoVars, paVars, importVars, searchVars, fileVars>>
       \/ part = "progress" /\ ProgressNext
          /\ UNCHANGED <<limiterVars, apiVars, accountVars, icaoVars, paVars, importVars, searchVars, fileVars>>
       \/ part = "icao" /\ IcaoNext
          /\ UNCHANGED <<limiterVars, apiVars, accountVars, progressVars, paVars, importVars, searchVars, fileVars>>
       \/ part = "pa" /\ PaNext
          /\ UNCHANGED <<limiterVars, apiVars, accountVars, progressVars, icaoVars, importVars, searchVars, fileVars>>
       \/ part = "import" /\ ImportNext
          /\ UNCHANGED <<limiterVars, apiVars, accountVars, progressVars, icaoVars, paVars, searchVars, fileVars>>
       \/ part = "search" /\ SearchNext
          /\ UNCHANGED <<limiterVars, apiVars, accountVars, progressVars, icaoVars, paVars, importVars, fileVars>>
       \/ part = "files" /\ FilesNext
          /\ UNCHANGED <<limiterVars, apiVars, accountVars, progressVars, icaoVars, paVars, importVars, searchVars>>

Spec == Init /\ [][Next]_vars
=============================================================================
