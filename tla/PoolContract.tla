---------------------------- MODULE PoolContract ----------------------------
(***************************************************************************)
(* What a connection pool promises: connections lie idle in the pool or    *)
(* are held by a caller, one caller each, and there are never more than    *)
(* Limit of them.  A closed pool keeps no idle connection.                 *)
(*                                                                         *)
(* The three pools of shared/lib implement this contract with different    *)
(* limits (DbConnectionPool.tla, LdapConnectionPool.tla,                   *)
(* OracleConnectionPool.tla).                                              *)
(***************************************************************************)
EXTENDS Naturals, FiniteSets

CONSTANTS Handle,  \* what callers hold: at most one connection each
          Limit    \* the most connections that are open at a time

VARIABLES idle,    \* the number of connections waiting in the pool
          held,    \* the handles that hold a connection
          closed   \* the pool has been shut down

vars == <<idle, held, closed>>

Init == idle \in 0..Limit /\ held = {} /\ closed = FALSE

\* A dead connection found on the way is closed.
Lend(h) ==
    /\ ~closed /\ h \notin held
    /\ \E dead \in 0..idle : dead < idle /\ idle' = idle - dead - 1
    /\ held' = held \cup {h}
    /\ UNCHANGED closed

Open(h) ==
    /\ h \notin held
    /\ idle + Cardinality(held) < Limit
    /\ held' = held \cup {h}
    /\ UNCHANGED <<idle, closed>>

Discard ==
    /\ \E dead \in 0..idle : idle' = idle - dead
    /\ UNCHANGED <<held, closed>>

Return(h) ==
    /\ ~closed /\ h \in held
    /\ held' = held \ {h}
    /\ idle' = idle + 1
    /\ UNCHANGED closed

Drop(h) ==
    /\ h \in held
    /\ held' = held \ {h}
    /\ UNCHANGED <<idle, closed>>

Close ==
    /\ closed' = TRUE
    /\ idle' = 0
    /\ UNCHANGED held

Next ==
    \/ \E h \in Handle : Lend(h) \/ Open(h) \/ Return(h) \/ Drop(h)
    \/ Discard \/ Close

Spec == Init /\ [][Next]_vars
=============================================================================
