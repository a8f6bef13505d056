------------------------ MODULE OracleConnectionPool ------------------------
(***************************************************************************)
(* The Oracle connection pool (shared/lib/database).  Connections are      *)
(* created with the mutex held; shutdown_ is tested on entry and after     *)
(* each wait; a thread whose deadline has passed looks once more.          *)
(*                                                                         *)
(* A dead connection is closed with logoff(), which throws when the        *)
(* session cannot be ended.  Only shutdown catches that: acquire passes it *)
(* on before the count goes down, and in the destructor of a held          *)
(* connection it terminates the process.                                   *)
(***************************************************************************)
EXTENDS ConnectionPool

VARIABLE aborted   \* std::terminate was called
oracleVars == <<vars, aborted>>

Awake(t) == pc[t] \in {"want", "woken"}

Refuse(t) ==
    /\ Awake(t)
    /\ closed
    /\ GiveUp(t)

Lend(t) ==
    /\ Awake(t)
    /\ ~closed
    /\ \E dead \in 0..idle :
         /\ dead < idle
         /\ idle' = idle - dead - 1
         /\ total' = Minus(total, dead)
    /\ Take(t)
    /\ UNCHANGED closed

\* The dead connection is out of the pool, but still counted.
LogoffThrows(t) ==
    /\ Awake(t)
    /\ ~closed
    /\ \E dead \in 0..idle :
         /\ dead < idle
         /\ idle' = idle - dead - 1
         /\ total' = Minus(total, dead)
    /\ Goto(t, "run")
    /\ UNCHANGED <<held, closed>>

\* Mutant of Create: the limit is tested with <=.
CreateOneMore(t) ==
    /\ Awake(t)
    /\ ~closed
    /\ Minus(total, idle) <= MaxSize
    /\ idle' = 0
    /\ total' = Plus1(Minus(total, idle))
    /\ Take(t)
    /\ UNCHANGED closed

Create(t) ==
    /\ Awake(t)
    /\ ~closed
    /\ Minus(total, idle) < MaxSize
    /\ idle' = 0
    /\ total' = Plus1(Minus(total, idle))
    /\ Take(t)
    /\ UNCHANGED closed

\* There is no room, or the creation failed.
NoneLeft(t, then) ==
    /\ Awake(t)
    /\ ~closed
    /\ idle' = 0
    /\ total' = Minus(total, idle)
    /\ Goto(t, then)
    /\ UNCHANGED <<held, closed>>

\* The deadline is tested before the wait; a thread whose wait ran out of time
\* (WakeUp) goes round the loop once more before it gives up.
Sleep(t) == NoneLeft(t, "wait")
Expire(t) == NoneLeft(t, "run")

\* Mutant of Release: nobody is notified.
ReleaseSilently(t, healthy) ==
    /\ pc[t] = "run"
    /\ \E i \in 1..Depth : <<t, i>> \in held /\ held' = held \ {<<t, i>>}
    /\ IF ~closed /\ healthy
       THEN idle' = idle + 1 /\ total' = total
       ELSE idle' = idle /\ total' = Minus(total, 1)
    /\ UNCHANGED <<closed, pc>>

\* A dead connection is closed without notifying anyone.
Release(t, healthy) ==
    /\ pc[t] = "run"
    /\ \E i \in 1..Depth : <<t, i>> \in held /\ held' = held \ {<<t, i>>}
    /\ IF ~closed /\ healthy
       THEN idle' = idle + 1 /\ total' = total /\ NotifyOne
       ELSE idle' = idle /\ total' = Minus(total, 1) /\ UNCHANGED pc
    /\ UNCHANGED closed

\* The destructor of a connection that is to be closed: logoff() throws.
Abort(t) ==
    /\ pc[t] = "run"
    /\ \E i \in 1..Depth : <<t, i>> \in held
    /\ aborted' = TRUE
    /\ UNCHANGED vars

\* A connection that does not log off stays counted.
Shutdown ==
    /\ ~closed
    /\ closed' = TRUE
    /\ \E loggedOff \in 0..idle : total' = Minus(total, loggedOff)
    /\ idle' = 0
    /\ NotifyAll
    /\ UNCHANGED held

OracleInit == Init /\ aborted = FALSE

Step ==
    \/ \E t \in Thread :
         \/ Request(t) \/ Refuse(t) \/ Lend(t) \/ LogoffThrows(t) \/ Create(t)
         \/ Sleep(t) \/ Expire(t) \/ WakeUp(t)
         \/ \E healthy \in BOOLEAN : Release(t, healthy)
    \/ Shutdown

Next ==
    /\ ~aborted
    /\ \/ Step /\ UNCHANGED aborted
       \/ \E t \in Thread : Abort(t)

Spec == OracleInit /\ [][Next]_oracleVars

-----------------------------------------------------------------------------
(* Properties.                                                             *)

\* However creations, dead connections, failed logoffs and the shutdown
\* interleave, the counter that acquire compares with maxSize_ is never below
\* the number of open connections, and no release takes it below 0.
TotalCoversOpen == idle + Cardinality(held) <= total

Contract == INSTANCE PoolContract WITH Handle <- Slot, Limit <- MaxSize

\* The pool keeps the contract with the limit it was given: here
\* maxSize is a maximum.
ImplementsContract == Contract!Spec

\* "Connection is unhealthy, close it and try again" (acquire): a dead
\* connection makes room for another, so the counter is exact while the pool is
\* open.
DeadMakesRoom == TotalIsExact

\* "Automatically returns connection to pool when destroyed"
\* (oracle_connection_pool.h), and a connection found dead then is closed:
\* releasing never ends the program.
ReleaseIsSafe == ~aborted
=============================================================================
