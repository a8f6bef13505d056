------------------------- MODULE MCDbConnectionPool -------------------------
(* Instances of DbConnectionPool for TLC. *)
EXTENDS DbConnectionPool
=============================================================================
