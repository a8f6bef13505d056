---- MODULE MCOracleConnectionPool ----
(* Instances of OracleConnectionPool for TLC. *)
EXTENDS OracleConnectionPool, TLC

Symmetry == Permutations(Thread)
====
