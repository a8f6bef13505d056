------------------------- MODULE LdapConnectionPool -------------------------
(***************************************************************************)
(* The LDAP connection pool (shared/lib/ldap).  One connection is checked  *)
(* each time round the loop, a failed creation falls through to the wait,  *)
(* and shutdown only subtracts what it closes.                             *)
(***************************************************************************)
EXTENDS ConnectionPool

Awake(t) == pc[t] \in {"want", "woken"}

Refuse(t) ==
    /\ Awake(t)
    /\ closed
    /\ GiveUp(t)

Lend(t) ==
    /\ Awake(t)
    /\ ~closed
    /\ idle > 0
    /\ idle' = idle - 1
    /\ Take(t)
    /\ UNCHANGED <<total, closed>>

\* What one failed health check closes; with nothing idle nothing is checked.
Dead == IF idle > 0 THEN 1 ELSE 0

\* Mutant of StartCreate: the limit is tested with <=.
StartCreateOneMore(t) ==
    /\ Awake(t)
    /\ ~closed
    /\ Minus(total, Dead) <= MaxSize
    /\ idle' = idle - Dead
    /\ total' = Minus(total, Dead)
    /\ Goto(t, "create")
    /\ UNCHANGED <<held, closed>>

StartCreate(t) ==
    /\ Awake(t)
    /\ ~closed
    /\ Minus(total, Dead) < MaxSize
    /\ idle' = idle - Dead
    /\ total' = Minus(total, Dead)
    /\ Goto(t, "create")
    /\ UNCHANGED <<held, closed>>

Sleep(t) ==
    /\ Awake(t)
    /\ ~closed
    /\ Minus(total, Dead) >= MaxSize
    /\ idle' = idle - Dead
    /\ total' = Minus(total, Dead)
    /\ Goto(t, "wait")
    /\ UNCHANGED <<held, closed>>

Created(t) ==
    /\ pc[t] = "create"
    /\ total' = Plus1(total)
    /\ Take(t)
    /\ UNCHANGED <<idle, closed>>

\* The loop is not begun again: neither idle connections nor shutdown_ are
\* looked at before the wait.
CreateFails(t) ==
    /\ pc[t] = "create"
    /\ Goto(t, "wait")
    /\ UNCHANGED <<idle, held, total, closed>>

\* acquire returns an invalid handle.
TimedOut(t) ==
    /\ pc[t] \in {"wait", "woken"}
    /\ GiveUp(t)

\* No health check on release.
Release(t) ==
    /\ pc[t] = "run"
    /\ \E i \in 1..Depth : <<t, i>> \in held /\ held' = held \ {<<t, i>>}
    /\ IF closed THEN idle' = idle /\ total' = Minus(total, 1) /\ UNCHANGED pc
       ELSE idle' = idle + 1 /\ total' = total /\ NotifyOne
    /\ UNCHANGED closed

\* A second shutdown (the destructor's) finds nothing to close and notifies again.
Shutdown ==
    /\ closed' = TRUE
    /\ total' = Minus(total, idle)
    /\ idle' = 0
    /\ NotifyAll
    /\ UNCHANGED held

Next ==
    \/ \E t \in Thread :
         \/ Request(t) \/ Refuse(t) \/ Lend(t) \/ StartCreate(t) \/ Sleep(t)
         \/ Created(t) \/ CreateFails(t) \/ WakeUp(t) \/ TimedOut(t) \/ Release(t)
    \/ Shutdown

Spec == Init /\ [][Next]_vars

-----------------------------------------------------------------------------
(* Properties.                                                             *)

\* The counter stays exact also after the shutdown, so the last release takes
\* it to 0 and never below.
TotalIsAlwaysExact == total = idle + Cardinality(held)

Contract == INSTANCE PoolContract
              WITH Handle <- Slot, Limit <- MaxSize + Cardinality(Thread) - 1

\* The pool keeps the contract, with the limit of DbConnectionPool.
ImplementsContract == Contract!Spec
=============================================================================
