------------------------------ MODULE LdifBatch ------------------------------
(***************************************************************************)
(* The entries of LDIF files on their way into the database and LDAP:      *)
(* LdifProcessor::processEntries, the repositories it writes through and   *)
(* the batch mode of the two query executors.                              *)
(*                                                                         *)
(* One executor serves the whole process.  In batch mode executeCommand,   *)
(* whoever calls it, is a statement of the one batch transaction;          *)
(* executeQuery takes a connection of its own, commits at once and does    *)
(* not see what the transaction holds.  On PostgreSQL INSERT INTO          *)
(* certificate goes through executeQuery, everything else that is written  *)
(* through executeCommand, rows refer to others by foreign keys, and a     *)
(* failed statement aborts the transaction.  On Oracle all of them go      *)
(* through executeCommand, only unique keys are checked, and a failed      *)
(* statement is the only one that fails; there are no savepoints.          *)
(***************************************************************************)
EXTENDS Integers, Sequences, FiniteSets

CONSTANTS Job,        \* uploads of LDIF files; none is uploaded again
          Cert, Crl,  \* what entries hold; every CRL revokes something
          Files,      \* the entries a file may have
          BatchSize,  \* 500
          DbTypes,    \* the databases the program may run on
          MaxFaults   \* bound: statements that fail by themselves

ASSUME EntryAssumption == Cert \cap Crl = {}
ASSUME BatchAssumption == BatchSize \in Nat \ {0}
ASSUME FilesAssumption == Files \subseteq Seq(Cert \cup Crl)
ASSUME DbTypesAssumption == DbTypes \subseteq {"postgres", "oracle"}
ASSUME FaultsAssumption == MaxFaults \in Nat

Entry == Cert \cup Crl

\* A row is named by its table and what it is about. "flag" is stored_in_ldap.
Row == ({"upload"} \X Job) \cup ({"certificate", "validation"} \X Cert)
        \cup ({"crl", "revoked"} \X Crl) \cup ({"flag"} \X Entry)

VARIABLES dbType,
          db,        \* the rows that are committed
          batchMode, \* batchMode_ and the state of its transaction
          pend,      \* the rows the transaction adds
          mark,      \* {} or {pend at the last savepoint sp_entry}
          cache,     \* fingerprintCache_
          ldap,      \* the entries in LDAP
          content, pc, at, \* of each job: its entries, where it is, its entry
          lost,      \* history: entries with a row that was not written
          hit,       \* history: entries with a statement that failed by itself
          faults

tx == <<batchMode, pend, mark>>
jobs == <<content, pc, at>>
history == <<lost, hit>>
ldifVars == <<dbType, db, tx, cache, ldap, jobs, history, faults>>

Proceed(j, l) == pc' = [pc EXCEPT ![j] = l]
Here(j) == content[j][at[j]]
\* The entry is dealt with; after BatchSize of them and after the last comes a
\* commit.
Leave(j) ==
    /\ at' = [at EXCEPT ![j] = @ + 1]
    /\ Proceed(j, IF at[j] % BatchSize = 0 \/ at[j] = Len(content[j]) THEN "commit" ELSE "entry")
\* On to the next step of the entry.
Then(j, l) == Proceed(j, l) /\ at' = at

Committed(t, x) == <<t, x>> \in db
Visible(r) == r \in db \/ (batchMode = "on" /\ r \in pend)

LdifInit ==
    /\ dbType \in DbTypes
    /\ db = {} /\ batchMode = "off" /\ pend = {} /\ mark = {}
    /\ cache = {} /\ ldap = {}
    /\ content \in [Job -> Files]
    /\ pc = [j \in Job |-> "idle"]
    /\ at = [j \in Job |-> 1]
    /\ lost = {} /\ hit = {}
    /\ faults = 0

-----------------------------------------------------------------------------
(* executeCommand.                                                         *)

\* The statement adds row r.
Applied(r) ==
    /\ batchMode # "aborted"
    /\ db' = IF batchMode = "off" THEN db \cup {r} ELSE db
    /\ pend' = IF batchMode = "on" THEN pend \cup {r} ELSE pend
    /\ UNCHANGED <<batchMode, mark, history, faults>>

\* "current transaction is aborted, commands ignored until end of transaction block"
Ignored(x) ==
    /\ batchMode = "aborted"
    /\ lost' = lost \cup {x}
    /\ UNCHANGED <<db, tx, hit, faults>>

\* The statement fails, and on PostgreSQL the transaction it is in.
RefusedAlone(x) ==
    /\ dbType = "oracle"
    /\ lost' = lost \cup {x}
    /\ hit' = hit \cup {x}
    /\ UNCHANGED <<db, tx>>

Refused(x) ==
    /\ dbType = "postgres" /\ batchMode # "aborted"
    /\ batchMode' = IF batchMode = "on" THEN "aborted" ELSE "off"
    /\ lost' = lost \cup {x}
    /\ hit' = hit \cup {x}
    /\ UNCHANGED <<db, pend, mark>>

Orphan(parents) == dbType = "postgres" /\ \E p \in parents : ~Visible(p)

Fails(x, parents) ==
    \/ Ignored(x)
    \/ Refused(x) /\ Orphan(parents) /\ faults' = faults
    \/ (Refused(x) \/ RefusedAlone(x)) /\ faults < MaxFaults /\ faults' = faults + 1

\* The repositories catch and log what executeCommand throws: the caller goes on
\* in each case. parents are the rows the new one refers to.
Command(r, x, parents) == Fails(x, parents) \/ (Applied(r) /\ ~Orphan(parents))

-----------------------------------------------------------------------------
(* beginBatch, endBatch, the savepoints.                                   *)

\* One begins it; for the others, and without a connection, nothing happens.
BeginBatch ==
    \/ /\ batchMode = "off"
       /\ batchMode' = "on" /\ pend' = {} /\ mark' = {}
    \/ UNCHANGED tx

\* COMMIT; of an aborted transaction it is a rollback that reports no error.
\* Of an open one it may fail, and then nobody is told either.
CommitLost ==
    LET gone == {r[2] : r \in pend} IN
    /\ batchMode = "on"
    /\ faults < MaxFaults
    /\ faults' = faults + 1
    /\ lost' = lost \cup gone /\ hit' = hit \cup gone
    /\ batchMode' = "off" /\ pend' = {} /\ mark' = {}
    /\ UNCHANGED db

EndBatch ==
    /\ db' = IF batchMode = "on" THEN db \cup pend ELSE db
    /\ lost' = IF batchMode = "aborted" THEN lost \cup {r[2] : r \in pend} ELSE lost
    /\ batchMode' = "off" /\ pend' = {} /\ mark' = {}

\* In an aborted transaction SAVEPOINT fails too, and the older one is the last.
Savepoint == mark' = IF batchMode = "on" /\ dbType = "postgres" THEN {pend} ELSE mark

RollbackToSavepoint ==
    \/ mark = {} /\ UNCHANGED <<batchMode, pend, lost>>
    \/ \E m \in mark :
        /\ batchMode' = "on"
        /\ lost' = lost \cup {r[2] : r \in pend \ m}
        /\ pend' = m

-----------------------------------------------------------------------------
(* One upload.                                                             *)

\* The handler inserts the uploaded_file row; refused, the upload is at its end.
Arrive(j) ==
    /\ pc[j] = "idle"
    /\ \/ Applied(<<"upload", j>>) /\ Proceed(j, "preload")
       \/ Fails(j, {}) /\ Proceed(j, "refused")
    /\ UNCHANGED <<dbType, cache, ldap, content, at>>

PreloadExistingFingerprints(j) ==
    /\ pc[j] = "preload"
    /\ cache' = {x \in Cert : Committed("certificate", x)}
    /\ Proceed(j, "begin")
    /\ UNCHANGED <<dbType, db, tx, ldap, content, at, history, faults>>

\* Mutant of Begin: the last entry of a file that starts a batch is left out.
BeginSkips(j) ==
    /\ pc[j] = "begin"
    /\ BeginBatch
    /\ Proceed(j, IF at[j] >= Len(content[j]) THEN "end" ELSE "entry")
    /\ UNCHANGED <<dbType, db, cache, ldap, content, at, history, faults>>

BeginEntries(j) ==
    /\ pc[j] = "begin"
    /\ BeginBatch
    /\ Proceed(j, IF at[j] > Len(content[j]) THEN "end" ELSE "entry")
    /\ UNCHANGED <<dbType, db, cache, ldap, content, at, history, faults>>

\* No connection, or BEGIN fails: beginBatch throws and the upload is FAILED.
BeginThrows(j) ==
    /\ pc[j] = "begin"
    /\ batchMode = "off"
    /\ faults < MaxFaults
    /\ faults' = faults + 1
    /\ Proceed(j, "failed")
    /\ UNCHANGED <<dbType, db, tx, cache, ldap, content, at, history>>

\* POST /api/upload/{id}/retry: the same file from its first entry.
RetryEntries(j) ==
    /\ pc[j] = "failed"
    /\ Proceed(j, "preload")
    /\ at' = [at EXCEPT ![j] = 1]
    /\ UNCHANGED <<dbType, db, tx, cache, ldap, content, history, faults>>

\* A certificate whose fingerprint is cached is skipped, with all that would be
\* written of it.
StartEntry(j) ==
    /\ pc[j] = "entry"
    /\ Savepoint
    /\ \/ Here(j) \in Crl /\ Then(j, "crl")
       \/ Here(j) \in Cert \ cache /\ Then(j, "insert")
       \/ Here(j) \in cache /\ Leave(j)
    /\ UNCHANGED <<dbType, db, batchMode, pend, cache, ldap, content, history, faults>>

\* Mutant of InsertCertificate: the INSERT is one more statement of the batch.
InsertBatched(j) ==
    LET x == Here(j) IN
    /\ pc[j] = "insert" /\ dbType = "postgres"
    /\ Command(<<"certificate", x>>, x, {<<"upload", j>>})
    /\ cache' = cache \cup {x}
    /\ Then(j, "validation")
    /\ UNCHANGED <<dbType, ldap, content>>

\* Oracle: the row is part of the batch, the unique index sees it at once, and the
\* query for its id does not; without an id the entry counts as a duplicate.
InsertInBatch(j) ==
    LET x == Here(j)
        row == <<"certificate", x>>
    IN
    /\ pc[j] = "insert" /\ dbType = "oracle"
    /\ \/ /\ x \notin cache /\ ~Visible(row)
          /\ \/ Applied(row) /\ cache' = cache \cup {x} /\ Then(j, "validation")
             \/ Fails(x, {}) /\ cache' = cache /\ Leave(j)
       \/ /\ x \in cache \/ Visible(row)
          /\ IF x \in cache \/ row \in db THEN Then(j, "validation") ELSE Leave(j)
          /\ UNCHANGED <<db, tx, cache, history, faults>>
    /\ UNCHANGED <<dbType, ldap, content>>

\* PostgreSQL. Cached by now: the other upload's row is used. Otherwise INSERT ... RETURNING
\* id, on a connection of its own; it fails on a duplicate, and when the upload's
\* row is not there for it to see.
InsertCertificate(j) ==
    LET x == Here(j) IN
    /\ pc[j] = "insert" /\ dbType = "postgres"
    /\ \/ /\ x \in cache
          /\ Then(j, "validation")
          /\ UNCHANGED <<db, cache, history>>
       \/ /\ x \notin cache /\ Committed("upload", j) /\ ~Committed("certificate", x)
          /\ db' = db \cup {<<"certificate", x>>}
          /\ cache' = cache \cup {x}
          /\ Then(j, "validation")
          /\ UNCHANGED history
       \/ /\ x \notin cache /\ ~(Committed("upload", j) /\ ~Committed("certificate", x))
          /\ lost' = lost \cup {x} /\ hit' = hit \cup {x}
          /\ Leave(j)
          /\ UNCHANGED <<db, cache>>
    /\ UNCHANGED <<dbType, tx, ldap, content, faults>>

SaveValidation(j) ==
    LET x == Here(j) IN
    /\ pc[j] = "validation"
    /\ Command(<<"validation", x>>, x, {<<"certificate", x>>, <<"upload", j>>})
    /\ Then(j, "ldap")
    /\ UNCHANGED <<dbType, cache, ldap, content>>

AfterCrl == IF dbType = "oracle" THEN "ldap" ELSE "revoked"

\* CrlRepository::save looks for the CRL where the transaction cannot be seen and
\* inserts ON CONFLICT DO NOTHING; it returns a new id even when that inserted
\* nothing. The revoked certificates then refer to a row that is not there. A CRL
\* that is found is given to this upload by an UPDATE. On Oracle the conflict is an
\* error, and revoked certificates are not written.
SaveCrl(j) ==
    LET x == Here(j)
        row == <<"crl", x>>
    IN
    /\ pc[j] = "crl"
    /\ \/ row \in db /\ Then(j, AfterCrl) /\ UNCHANGED <<db, tx, history, faults>>
       \/ row \notin db /\ Visible(row) /\ UNCHANGED <<db, tx, history, faults>>
          /\ IF dbType = "oracle" THEN Leave(j) ELSE Then(j, "stray")
       \/ ~Visible(row) /\ Applied(row) /\ ~Orphan({<<"upload", j>>}) /\ Then(j, AfterCrl)
       \/ Fails(x, {<<"upload", j>>}) /\ Leave(j)
    /\ UNCHANGED <<dbType, cache, ldap, content>>

SaveRevoked(j) ==
    LET x == Here(j) IN
    /\ pc[j] = "revoked"
    /\ Command(<<"revoked", x>>, x, {<<"crl", x>>})
    /\ Then(j, "ldap")
    /\ UNCHANGED <<dbType, cache, ldap, content>>

\* The id belongs to no row.
SaveStray(j) ==
    LET x == Here(j) IN
    /\ pc[j] = "stray"
    /\ Ignored(x) \/ (Refused(x) /\ faults' = faults)
    /\ Then(j, "stray ldap")
    /\ UNCHANGED <<dbType, cache, ldap, content>>

\* Mutant of SaveToLdap: the flag is set whether or not the entry was added.
SaveToLdapUnchecked(j) ==
    /\ pc[j] \in {"ldap", "stray ldap"}
    /\ ldap' \in {ldap, ldap \cup {Here(j)}}
    /\ IF pc[j] = "ldap" THEN Then(j, "flag") ELSE Leave(j)
    /\ UNCHANGED <<dbType, db, tx, cache, content, history, faults>>

\* saveCertificateToLdap, saveCrlToLdap; there may be no connection.
SaveToLdap(j) ==
    /\ pc[j] \in {"ldap", "stray ldap"}
    /\ \/ ldap' = ldap \cup {Here(j)} /\ IF pc[j] = "ldap" THEN Then(j, "flag") ELSE Leave(j)
       \/ ldap' = ldap /\ Leave(j)
    /\ UNCHANGED <<dbType, db, tx, cache, content, history, faults>>

\* An UPDATE: no row, no flag.
UpdateLdapStatus(j) ==
    LET x == Here(j)
        row == <<IF x \in Cert THEN "certificate" ELSE "crl", x>>
    IN
    /\ pc[j] = "flag"
    /\ \/ Fails(x, {})
       \/ Visible(row) /\ Applied(<<"flag", x>>)
       \/ ~Visible(row) /\ batchMode # "aborted" /\ UNCHANGED <<db, tx, history, faults>>
    /\ Leave(j)
    /\ UNCHANGED <<dbType, cache, ldap, content>>

\* Something other than a repository throws in the middle of an entry.
EntryThrows(j) ==
    /\ pc[j] \in {"insert", "crl", "ldap"}
    /\ faults < MaxFaults
    /\ faults' = faults + 1
    /\ RollbackToSavepoint
    /\ hit' = hit \cup {Here(j)}
    /\ Leave(j)
    /\ UNCHANGED <<dbType, db, mark, cache, ldap, content>>

\* After BatchSize entries and after the last the batch is ended and another
\* begun; after the loop that one is ended too.
Commit(j) ==
    /\ pc[j] \in {"commit", "end"}
    /\ (EndBatch /\ UNCHANGED <<hit, faults>>) \/ CommitLost
    /\ Proceed(j, IF pc[j] = "commit" THEN "begin" ELSE "done")
    /\ UNCHANGED <<dbType, cache, ldap, content, at>>

-----------------------------------------------------------------------------

Step(j) ==
    \/ PreloadExistingFingerprints(j) \/ BeginEntries(j) \/ BeginThrows(j) \/ StartEntry(j) \/ InsertCertificate(j)
    \/ InsertInBatch(j) \/ SaveValidation(j) \/ SaveCrl(j) \/ SaveRevoked(j) \/ SaveStray(j) \/ SaveToLdap(j)
    \/ UpdateLdapStatus(j) \/ EntryThrows(j) \/ Commit(j)

LdifNext == \E j \in Job : Arrive(j) \/ RetryEntries(j) \/ Step(j)

LdifSpec == LdifInit /\ [][LdifNext]_ldifVars /\ \A j \in Job : WF_ldifVars(Step(j))

-----------------------------------------------------------------------------

LdifTypeOK ==
    /\ dbType \in DbTypes
    /\ db \subseteq Row /\ pend \subseteq Row
    /\ mark = {} \/ \E m \in SUBSET pend : mark = {m}
    /\ batchMode \in {"off", "on", "aborted"}
    /\ batchMode = "off" => pend = {} /\ mark = {}
    /\ cache \subseteq Cert /\ ldap \subseteq Entry /\ lost \subseteq Entry \cup Job /\ hit \subseteq Entry \cup Job
    /\ content \in [Job -> Files]
    /\ pc \in [Job -> {"idle", "refused", "preload", "begin", "entry", "insert", "validation", "crl",
                       "revoked", "stray", "stray ldap", "ldap", "flag", "commit", "end", "failed",
                       "done"}]
    /\ \A j \in Job : at[j] \in 1..(Len(content[j]) + 1)
    /\ faults \in 0..MaxFaults

\* The duplicate check may be made in memory: what it skips is in the database, or
\* on Oracle in the batch that every upload writes to, unless it failed by itself.
CacheIsStored ==
    \A x \in cache : Committed("certificate", x)
                      \/ (dbType = "oracle" /\ (Visible(<<"certificate", x>>) \/ x \in hit))

\* stored_in_ldap never speaks of an entry that is not in LDAP, whatever is
\* committed late, rolled back or lost.
FlagImpliesLdap == \A r \in db \cup pend : r[1] = "flag" => r[2] \in ldap

\* What the program has noted of an entry, in the cache or in the flag, is true.
NotesAreTrue == CacheIsStored /\ FlagImpliesLdap

Complete(x) == IF x \in Cert THEN {<<"certificate", x>>, <<"validation", x>>}
               ELSE IF dbType = "oracle" THEN {<<"crl", x>>} ELSE {<<"crl", x>>, <<"revoked", x>>}

\* An upload that ran to its end has every row of every entry of its file, save
\* those of the entries the history says were lost; a row of a certificate that
\* another upload brought may still be in that one's batch.
DoneIsComplete ==
    \A j \in Job : pc[j] = "done" =>
        \A k \in 1..Len(content[j]) : LET x == content[j][k] IN
            \/ Complete(x) \subseteq db
            \/ x \in lost \cup hit
            \/ \E i \in Job \ {j} : pc[i] \notin {"idle", "refused", "failed", "done"}

\* A failed statement costs no more than the entries of its own batch: as long
\* as the upload is the only one, what it loses is between the same two commits as an
\* entry that failed. On Oracle it costs its own entry, whoever else is uploading
\* ("Oracle transactions don't abort on individual statement failure").
LossIsOneBatch ==
  /\ dbType = "oracle" => lost \subseteq hit
  /\ \A j \in Job : (\A i \in Job \ {j} : pc[i] = "idle") =>
        \A k \in 1..Len(content[j]) : content[j][k] \in lost =>
            \E l \in 1..Len(content[j]) :
                content[j][l] \in hit /\ (l - 1) \div BatchSize = (k - 1) \div BatchSize

\* A failed statement costs the entry it belongs to and no other.
SavepointIsolates == lost \subseteq hit

\* No statement fails unless the database makes it.
NothingLostWithoutFault == faults = 0 => lost = {}

\* Every upload that starts comes to its end.
EventuallyDone == \A j \in Job : pc[j] = "preload" ~> pc[j] \in {"done", "failed"}
=============================================================================
