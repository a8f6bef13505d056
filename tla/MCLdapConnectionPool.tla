---- MODULE MCLdapConnectionPool ----
(* Instances of LdapConnectionPool for TLC. *)
EXTENDS LdapConnectionPool, TLC

Symmetry == Permutations(Thread)
====
