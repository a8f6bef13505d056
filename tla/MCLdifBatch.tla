----------------------------- MODULE MCLdifBatch -----------------------------
(***************************************************************************)
(* LdifBatch and UploadReports for TLC, one of them (part) in a behaviour: *)
(* they look at the same uploads, the first at transactions and the second *)
(* at numbers.                                                             *)
(***************************************************************************)
EXTENDS LdifBatch, UploadReports, TLC

CONSTANTS dsc, crl, r1, r2,
          Parts

VARIABLE part

\* A certificate and a CRL that the other upload may have as well; the CRL twice.
MCFiles == {<<dsc, crl>>, <<crl, crl, dsc>>}

-----------------------------------------------------------------------------
MCKindOf == "a" :> "CSCA" @@ "l" :> "LC" @@ "d" :> "DSC" @@ "m" :> "MLSC"
Because(status, expired) == [status |-> status, expired |-> expired]
MCVerdicts == {Because("EXPIRED_VALID", TRUE), Because("PENDING", FALSE), Because("VALID", FALSE)}

EntryWith(kind, items) == [kind |-> kind, items |-> items]
Ldif(entries) == [asList |-> FALSE, entries |-> entries]
ListFile(items) == [asList |-> TRUE, entries |-> <<EntryWith("list", items)>>]

\* Two LDIF files with a certificate in common; a list in an LDIF file and by itself; a
\* link certificate twice in a file, beside a list without CSCA.
MCBundles ==
    {r1 :> p[1] @@ r2 :> p[2] : p \in {
        <<Ldif(<<EntryWith("cert", <<"a">>), EntryWith("cert", <<"d">>)>>),
          Ldif(<<EntryWith("cert", <<"d">>), EntryWith("crl", <<"r">>)>>)>>,
        <<Ldif(<<EntryWith("list", <<"m", "a">>), EntryWith("broken", <<>>),
                 EntryWith("crl", <<"r">>), EntryWith("crl", <<"r">>)>>),
          ListFile(<<"m", "a">>)>>,
        <<Ldif(<<EntryWith("cert", <<"l">>), EntryWith("list", <<"l">>)>>),
          ListFile(<<"m">>)>>}}

-----------------------------------------------------------------------------
MCInit ==
    /\ part \in Parts
    /\ LdifInit /\ BulkInit
    \* The initial states that a part chooses from are one while the other moves.
    /\ part # "batch" => dbType = "oracle" /\ content = [j \in Job |-> <<dsc, crl>>]
    /\ part # "reports" => bulkDb = "oracle" /\ fileOf = (CHOOSE b \in Bundles : TRUE)

MCNext ==
    /\ UNCHANGED part
    /\ \/ part = "batch" /\ LdifNext /\ UNCHANGED bulkVars
       \/ part = "reports" /\ BulkNext /\ UNCHANGED ldifVars

MCSpec == MCInit /\ [][MCNext]_<<part, ldifVars, bulkVars>>
=============================================================================
