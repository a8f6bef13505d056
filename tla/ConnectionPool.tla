--------------------------- MODULE ConnectionPool ---------------------------
(***************************************************************************)
(* The state the three connection pools of shared/lib share, and the parts *)
(* of their operations that are the same: PostgreSQL                       *)
(* (DbConnectionPool.tla), LDAP (LdapConnectionPool.tla) and Oracle        *)
(* (OracleConnectionPool.tla).                                             *)
(*                                                                         *)
(* Callers are threads; a thread may hold several connections (a batch and *)
(* a query beside it, a reconciliation and its search), each under a slot  *)
(* of its own.  Whatever a pool does while it holds its mutex is one step; *)
(* an action ends where the mutex is given up.                             *)
(***************************************************************************)
EXTENDS Integers, FiniteSets

CONSTANTS Thread,
          Depth,     \* connections a thread holds at most
          MinSize,   \* connections created by initialize()
          MaxSize,   \* maxSize_
          WordSize   \* 2^64: the counter is a size_t

ASSUME ThreadAssumption == IsFiniteSet(Thread) /\ Thread # {}
ASSUME SizeAssumption ==
    /\ Depth \in Nat /\ MinSize \in Nat /\ MaxSize \in Nat /\ WordSize \in Nat
    /\ MinSize <= MaxSize
    /\ MaxSize + Cardinality(Thread) < WordSize

VARIABLES idle,      \* availableConnections_.size()
          held,      \* the slots that hold a connection
          total,     \* totalConnections_
          closed,    \* shutdown_
          pc         \* where each thread is

vars == <<idle, held, total, closed, pc>>

Slot == Thread \X (1..Depth)

\* "want": at the head of acquire's loop; "create": connecting, the mutex
\* given up; "wait": asleep on cv_; "woken": notified, the mutex not yet had.
Pc == {"run", "want", "create", "wait", "woken"}

At(l) == {t \in Thread : pc[t] = l}
Goto(t, l) == pc' = [pc EXCEPT ![t] = l]

\* size_t arithmetic.
Plus1(n) == IF n + 1 = WordSize THEN 0 ELSE n + 1
Minus(n, k) == IF n >= k THEN n - k ELSE n + WordSize - k

Init ==
    /\ idle = MinSize
    /\ held = {}
    /\ total = MinSize
    /\ closed = FALSE
    /\ pc = [t \in Thread |-> "run"]

Request(t) ==
    /\ pc[t] = "run"
    /\ \E i \in 1..Depth : <<t, i>> \notin held
    /\ Goto(t, "want")
    /\ UNCHANGED <<idle, held, total, closed>>

\* The thread leaves acquire with a connection, or without one (a thrown
\* exception, an invalid handle).
Take(t) ==
    /\ \E i \in 1..Depth : <<t, i>> \notin held /\ held' = held \cup {<<t, i>>}
    /\ Goto(t, "run")

GiveUp(t) ==
    /\ Goto(t, "run")
    /\ UNCHANGED <<idle, held, total, closed>>

\* cv_.notify_one wakes a sleeping thread, if there is one.
NotifyOne ==
    \/ At("wait") = {} /\ UNCHANGED pc
    \/ \E t \in At("wait") : Goto(t, "woken")

\* A condition variable may wake a thread for no reason.
WakeUp(t) ==
    /\ pc[t] = "wait"
    /\ Goto(t, "woken")
    /\ UNCHANGED <<idle, held, total, closed>>

NotifyAll == pc' = [t \in Thread |-> IF pc[t] = "wait" THEN "woken" ELSE pc[t]]

-----------------------------------------------------------------------------
(* Properties.                                                             *)

TypeOK ==
    /\ idle \in Nat
    /\ held \in SUBSET Slot
    /\ total \in 0..(WordSize - 1)
    /\ closed \in BOOLEAN
    /\ pc \in [Thread -> Pc]

\* The counter that acquire compares with maxSize_ is the number of
\* connections, however creations, failed health checks, releases and timeouts
\* interleave.
TotalIsExact == ~closed => total = idle + Cardinality(held)

\* shutdown() leaves nobody asleep on cv_: a thread that waits for a
\* connection of a closed pool would sleep until its own timeout.
ClosedWakesAll == closed => At("wait") = {}

\* "maxSize Maximum number of connections allowed" (db_connection_pool.h,
\* ldap_connection_pool.h, oracle_connection_pool.h).
NeverAboveMax == idle + Cardinality(held) <= MaxSize

\* "Wait for connection to become available" (acquire of all three pools): a
\* thread does not sleep while a connection lies idle, unless some thread is
\* on its way to take one.
AvailableMeansAwake ==
    idle > 0 /\ At("wait") # {} => At("want") \cup At("woken") \cup At("create") # {}
=============================================================================
