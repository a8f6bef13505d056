------------------------------ MODULE PkdStore ------------------------------
(***************************************************************************)
(* What the relational database and the LDAP directory promise together,   *)
(* whoever writes to them.  A certificate or CRL is a database row; the    *)
(* row's DN names at most one directory entry.  A row is inserted, its     *)
(* entry is published, the row is then flagged stored_in_ldap, and the row *)
(* may be deleted with the upload it came from.  Nothing in the code ever  *)
(* deletes a directory entry, so an entry may outlive its row.             *)
(*                                                                         *)
(* Reconciliation.tla implements this module.                              *)
(***************************************************************************)
CONSTANTS Row,      \* identities of the rows of tables certificate and crl
          Cert(_),  \* the key of the unique index: type and fingerprint
          Dn(_)     \* the directory name both services derive from a row

VARIABLES db,       \* the state of each row
          entries   \* the DNs of the leaf entries in the directory

RowState == {"fresh", "unstored", "stored", "deleted"}
Live(c) == db[c] \in {"unstored", "stored"}

vars == <<db, entries>>

Init ==
    /\ db = [c \in Row |-> "fresh"]
    /\ entries = {}

\* The unique index admits one live row per certificate.
Insert(c) ==
    /\ db[c] = "fresh"
    /\ \A d \in Row : Live(d) => Cert(d) # Cert(c)
    /\ db' = [db EXCEPT ![c] = "unstored"]
    /\ UNCHANGED entries

\* A writer that read the row may publish it after the row was deleted.
Publish(c) ==
    /\ db[c] # "fresh"
    /\ entries' = entries \cup {Dn(c)}
    /\ UNCHANGED db

Flag(c) ==
    /\ db[c] = "unstored"
    /\ Dn(c) \in entries
    /\ db' = [db EXCEPT ![c] = "stored"]
    /\ UNCHANGED entries

Delete(c) ==
    /\ Live(c)
    /\ db' = [db EXCEPT ![c] = "deleted"]
    /\ UNCHANGED entries

Next == \E c \in Row : Insert(c) \/ Publish(c) \/ Flag(c) \/ Delete(c)

Spec == Init /\ [][Next]_vars
=============================================================================
