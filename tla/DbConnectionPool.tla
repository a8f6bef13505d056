-------------------------- MODULE DbConnectionPool --------------------------
(***************************************************************************)
(* The PostgreSQL connection pool (shared/lib/database).  A new connection *)
(* is created with the mutex given up, and counted only once it is there.  *)
(***************************************************************************)
EXTENDS ConnectionPool

Awake(t) == pc[t] \in {"want", "woken"}

Refuse(t) ==
    /\ Awake(t)
    /\ closed
    /\ GiveUp(t)

\* Dead connections in front of a healthy one are closed.
Lend(t) ==
    /\ Awake(t)
    /\ ~closed
    /\ \E dead \in 0..idle :
         /\ dead < idle
         /\ idle' = idle - dead - 1
         /\ total' = Minus(total, dead)
    /\ Take(t)
    /\ UNCHANGED closed

\* Mutant of StartCreate: the limit is tested before the dead connections are
\* taken off the count, with <=.
StartCreateOneMore(t) ==
    /\ Awake(t)
    /\ ~closed
    /\ total <= MaxSize
    /\ idle' = 0
    /\ total' = Minus(total, idle)
    /\ Goto(t, "create")
    /\ UNCHANGED <<held, closed>>

\* None is healthy, and there is room for a new one.
StartCreate(t) ==
    /\ Awake(t)
    /\ ~closed
    /\ Minus(total, idle) < MaxSize
    /\ idle' = 0
    /\ total' = Minus(total, idle)
    /\ Goto(t, "create")
    /\ UNCHANGED <<held, closed>>

Sleep(t) ==
    /\ Awake(t)
    /\ ~closed
    /\ Minus(total, idle) >= MaxSize
    /\ idle' = 0
    /\ total' = Minus(total, idle)
    /\ Goto(t, "wait")
    /\ UNCHANGED <<held, closed>>

\* Neither the count nor shutdown_ is looked at again.
Created(t) ==
    /\ pc[t] = "create"
    /\ total' = Plus1(total)
    /\ Take(t)
    /\ UNCHANGED <<idle, closed>>

CreateFails(t) ==
    /\ pc[t] = "create"
    /\ GiveUp(t)

\* Mutant of TimedOut: the wait has no deadline once it was notified.
TimedOutAsleep(t) ==
    /\ pc[t] = "woken"
    /\ GiveUp(t)

\* wait_until reports a timeout when the deadline has passed, also to a
\* thread that was notified.
TimedOut(t) ==
    /\ pc[t] \in {"wait", "woken"}
    /\ GiveUp(t)

Release(t, healthy) ==
    /\ pc[t] = "run"
    /\ \E i \in 1..Depth : <<t, i>> \in held /\ held' = held \ {<<t, i>>}
    /\ IF closed THEN idle' = idle /\ total' = Minus(total, 1) /\ UNCHANGED pc
       ELSE /\ idle' = IF healthy THEN idle + 1 ELSE idle
            /\ total' = IF healthy THEN total ELSE Minus(total, 1)
            /\ NotifyOne
    /\ UNCHANGED closed

\* The count is set to 0 whatever is held: a later release wraps it round.
Shutdown ==
    /\ ~closed
    /\ closed' = TRUE
    /\ idle' = 0
    /\ total' = 0
    /\ NotifyAll
    /\ UNCHANGED held

AcquireStep(t) ==
    \/ Refuse(t) \/ Lend(t) \/ StartCreate(t) \/ Sleep(t)
    \/ Created(t) \/ CreateFails(t)

Next ==
    \/ \E t \in Thread :
         \/ Request(t) \/ AcquireStep(t) \/ WakeUp(t) \/ TimedOut(t)
         \/ \E healthy \in BOOLEAN : Release(t, healthy)
    \/ Shutdown

Spec == Init /\ [][Next]_vars

\* A thread inside acquire gets the mutex in the end, and time passes.  No
\* thread is assumed ever to release what it holds.
FairSpec == Spec /\ \A t \in Thread : WF_vars(AcquireStep(t)) /\ WF_vars(TimedOut(t))

-----------------------------------------------------------------------------
(* Properties.                                                             *)

\* The pool keeps the contract, with a limit above maxSize_: as many threads
\* may be connecting at once as there are threads, all but the first unseen.
Contract == INSTANCE PoolContract
              WITH Handle <- Slot, Limit <- MaxSize + Cardinality(Thread) - 1
ImplementsContract == Contract!Spec

\* Every call of acquire ends, also when every connection is held by threads
\* that wait for a second one: the timeout breaks the circle.
AcquireReturns == \A t \in Thread : pc[t] # "run" ~> pc[t] = "run"
=============================================================================
