----------------------- MODULE DbConnectionPoolProofs -----------------------
(***************************************************************************)
(* The PostgreSQL pool for any number of threads and any maxSize_: its     *)
(* counter is exact until the shutdown, the shutdown leaves nobody asleep, *)
(* and at most maxSize_ + |Thread| - 1 connections are open.               *)
(***************************************************************************)
EXTENDS DbConnectionPool, ConnectionPoolProofs

\* The counter is exact because the loop closes a dead connection and takes it
\* off the count in one step.  The limit is kept because a thread begins to
\* create only while the counted connections are fewer than maxSize_, and at
\* most N threads are creating: the connections they bring are not yet counted.
Inv ==
    /\ TypeOK
    /\ HeldOK
    /\ TotalIsExact
    /\ Open <= MaxSize + N - 1
    /\ closed => idle = 0 /\ At("wait") = {}

LEMMA InitInv == Init => Inv
<1> SUFFICES ASSUME Init PROVE Inv
    OBVIOUS
<1> USE DEF Init
<1>1. HeldOK /\ Cardinality(held) = 0
    BY FS_EmptySet DEF HeldOK
<1>2. At("create") = {} /\ Cardinality(At("create")) = 0
    BY FS_EmptySet DEF At
<1>3. N \in Nat \ {0}
    BY ThreadsCounted DEF N
<1>4. TypeOK
    <2>1. MinSize \in 0..(WordSize - 1)
        BY <1>3, SizeAssumption DEF N
    <2>2. pc \in [Thread -> Pc] /\ held \in SUBSET Slot
        BY <1>1 DEF Pc, HeldOK
    <2> QED
        BY <2>1, <2>2, SizeAssumption DEF TypeOK
<1>5. TotalIsExact
    BY <1>1, SizeAssumption DEF TotalIsExact
<1>6. Open <= MaxSize + N - 1
    BY <1>1, <1>2, <1>3, SizeAssumption DEF Open
<1> QED
    BY <1>1, <1>4, <1>5, <1>6 DEF Inv

\* What every step may use of the state it starts from.
LEMMA Facts ==
    ASSUME Inv
    PROVE  /\ N \in Nat \ {0} /\ idle \in Nat /\ Cardinality(held) \in Nat
           /\ Cardinality(At("create")) \in Nat
           /\ ~closed => total = idle + Cardinality(held)
           /\ ~closed => Minus(total, idle) = Cardinality(held)
           /\ total \in Nat /\ MaxSize \in Nat /\ WordSize \in Nat
           /\ MaxSize + N < WordSize
           /\ pc \in [Thread -> Pc]
<1>1. /\ N \in Nat \ {0} /\ idle \in Nat /\ Cardinality(held) \in Nat
      /\ Cardinality(At("create")) \in Nat
    BY ThreadsCounted, FS_CardinalityType DEF N, Inv, HeldOK, TypeOK
<1>2. ~closed => total = idle + Cardinality(held)
    BY DEF Inv, TotalIsExact
<1>3. ~closed => Minus(total, idle) = Cardinality(held)
    BY <1>1, <1>2, WordArithmetic
<1>4. /\ total \in Nat /\ MaxSize \in Nat /\ WordSize \in Nat
      /\ MaxSize + N < WordSize /\ pc \in [Thread -> Pc]
    BY SizeAssumption DEF Inv, TypeOK, N
<1> QED
    BY <1>1, <1>2, <1>3, <1>4

LEMMA NextInv == Inv /\ [Next]_vars => Inv'
<1> SUFFICES ASSUME Inv, [Next]_vars PROVE Inv'
    OBVIOUS
<1>0. /\ N \in Nat \ {0} /\ idle \in Nat /\ Cardinality(held) \in Nat
      /\ Cardinality(At("create")) \in Nat
      /\ ~closed => total = idle + Cardinality(held)
      /\ ~closed => Minus(total, idle) = Cardinality(held)
      /\ total \in Nat /\ MaxSize \in Nat /\ WordSize \in Nat
      /\ MaxSize + N < WordSize
      /\ pc \in [Thread -> Pc]
    BY Facts
<1>p. {"run", "want", "create", "wait", "woken"} = Pc
    BY DEF Pc
<1>i. /\ TypeOK /\ HeldOK /\ TotalIsExact
      /\ idle + Cardinality(held) + Cardinality(At("create")) <= MaxSize + N - 1
      /\ closed => idle = 0 /\ At("wait") = {}
      /\ held \in SUBSET Slot /\ closed \in BOOLEAN /\ total \in 0..(WordSize - 1)
    BY DEF Inv, Open, TypeOK
<1>n. N' = N
    BY DEF N
\* A thread that only changes its place.
<1>1. ASSUME NEW t \in Thread, NEW l \in Pc \ {"create", "wait"}, Goto(t, l),
             UNCHANGED <<idle, held, total, closed>>
      PROVE  Inv'
    <2>1. At("wait")' = {} \/ ~closed
        BY <1>0, <1>1, <1>i, Creators
    <2>2. Cardinality(At("create")') <= Cardinality(At("create"))
          /\ Cardinality(At("create")') \in Nat
        <3>1. CASE pc[t] = "create"
            BY <1>1, <3>1, <1>0, Creators, CreatorsCounted
        <3>2. CASE pc[t] # "create"
            BY <1>1, <3>2, <1>0, Creators
        <3> QED
            BY <3>1, <3>2
    <2>3. pc' \in [Thread -> Pc]
        BY <1>1, <1>0, Moves
    <2>4. Open' <= MaxSize + N - 1
        BY <1>0, <1>1, <1>i, <2>2 DEF Open
    <2>5. TypeOK' /\ HeldOK' /\ TotalIsExact'
        BY <1>1, <1>i, <2>3 DEF TypeOK, HeldOK, TotalIsExact
    <2> QED
        BY <1>1, <1>i, <1>n, <2>1, <2>4, <2>5 DEF Inv
<1>2. ASSUME NEW t \in Thread, Request(t) PROVE Inv'
    BY <1>1, <1>2, <1>p DEF Request
<1>3. ASSUME NEW t \in Thread, Refuse(t) \/ CreateFails(t) \/ TimedOut(t) PROVE Inv'
    BY <1>1, <1>3, <1>p DEF Refuse, CreateFails, TimedOut, GiveUp
<1>4. ASSUME NEW t \in Thread, WakeUp(t) PROVE Inv'
    BY <1>1, <1>4, <1>p DEF WakeUp
<1>5. ASSUME NEW t \in Thread, Lend(t) PROVE Inv'
    <2>1. PICK dead \in 0..idle : dead < idle /\ idle' = idle - dead - 1
                                  /\ total' = Minus(total, dead)
        BY <1>5 DEF Lend
    <2>2. ~closed /\ closed' = closed /\ Take(t) /\ pc[t] # "create"
        BY <1>5 DEF Lend, Awake
    <2>3. /\ HeldOK' /\ Cardinality(held') = Cardinality(held) + 1
          /\ pc' \in [Thread -> Pc]
        BY <1>0, <1>i, <2>2, TakeAddsOne
    <2>4. idle' \in Nat /\ dead \in Nat
        BY <1>0, <2>1
    <2>5. total' = total - dead
        BY <1>0, <2>1, <2>2, <2>4, WordArithmetic
    <2>6. At("create")' = At("create")
        BY <1>0, <1>p, <2>2, Creators DEF Take
    <2>7. total' = idle' + Cardinality(held')
        BY <1>0, <2>1, <2>2, <2>3, <2>4, <2>5
    <2>8. Open' <= MaxSize + N - 1
        BY <1>0, <1>i, <2>1, <2>3, <2>4, <2>6 DEF Open
    <2>9. TypeOK'
        <3>1. total' \in 0..(WordSize - 1)
            BY <1>0, <1>i, <2>1, <2>2, <2>3, <2>4, <2>5
        <3> QED
            BY <1>i, <2>2, <2>3, <2>4, <3>1 DEF TypeOK, HeldOK
    <2> QED
        BY <1>n, <2>2, <2>3, <2>7, <2>8, <2>9 DEF Inv, TotalIsExact
<1>6. ASSUME NEW t \in Thread, StartCreate(t) PROVE Inv'
    <2>1. /\ ~closed /\ closed' = closed /\ idle' = 0 /\ held' = held
          /\ total' = Cardinality(held) /\ Cardinality(held) < MaxSize
          /\ Goto(t, "create") /\ pc[t] # "create"
        BY <1>0, <1>6 DEF StartCreate, Awake
    <2>2. pc' \in [Thread -> Pc]
        BY <1>0, <1>p, <2>1, Moves
    <2>3. Cardinality(At("create")') <= N /\ Cardinality(At("create")') \in Nat
        BY <1>0, <1>p, <2>1, Creators
    <2>4. Open' <= MaxSize + N - 1
        BY <1>0, <2>1, <2>3 DEF Open
    <2>5. TypeOK' /\ HeldOK' /\ TotalIsExact'
        BY <1>0, <1>i, <2>1, <2>2 DEF TypeOK, HeldOK, TotalIsExact
    <2> QED
        BY <1>n, <2>1, <2>4, <2>5 DEF Inv
<1>7. ASSUME NEW t \in Thread, Sleep(t) PROVE Inv'
    <2>1. /\ ~closed /\ closed' = closed /\ idle' = 0 /\ held' = held
          /\ total' = Cardinality(held)
          /\ Goto(t, "wait") /\ pc[t] # "create"
        BY <1>0, <1>7 DEF Sleep, Awake
    <2>2. pc' \in [Thread -> Pc]
        BY <1>0, <1>p, <2>1, Moves
    <2>3. At("create")' = At("create")
        BY <1>0, <1>p, <2>1, Creators
    <2>4. Open' <= MaxSize + N - 1
        BY <1>0, <1>i, <2>1, <2>3 DEF Open
    <2>5. TypeOK' /\ HeldOK' /\ TotalIsExact'
        BY <1>0, <1>i, <2>1, <2>2 DEF TypeOK, HeldOK, TotalIsExact
    <2> QED
        BY <1>n, <2>1, <2>4, <2>5 DEF Inv
<1>8. ASSUME NEW t \in Thread, Created(t) PROVE Inv'
    <2>1. /\ pc[t] = "create" /\ Take(t) /\ total' = Plus1(total)
          /\ idle' = idle /\ closed' = closed
        BY <1>8 DEF Created
    <2>2. /\ HeldOK' /\ Cardinality(held') = Cardinality(held) + 1
          /\ pc' \in [Thread -> Pc]
        BY <1>0, <1>i, <2>1, TakeAddsOne
    <2>3. Cardinality(At("create")') = Cardinality(At("create")) - 1
        BY <1>0, <1>i, <1>p, <2>1, Creators DEF Take
    <2>4. Cardinality(At("create")') \in Nat
        BY CreatorsCounted
    <2>5. Open' <= MaxSize + N - 1
        BY <1>0, <1>i, <2>1, <2>2, <2>3, <2>4 DEF Open
    <2>6. ~closed => total' = idle' + Cardinality(held')
        BY <1>0, <1>i, <2>1, <2>2, <2>3, <2>4, WordArithmetic
    <2>7. total' \in 0..(WordSize - 1)
        BY <1>i, <2>1, WordClosed
    <2>8. closed => At("wait")' = {}
        BY <1>0, <1>i, <1>p, <2>1, Creators DEF Take
    <2>9. TypeOK'
        BY <1>i, <1>0, <2>1, <2>2, <2>7 DEF TypeOK, HeldOK
    <2> QED
        BY <1>i, <1>n, <2>1, <2>2, <2>5, <2>6, <2>8, <2>9 DEF Inv, TotalIsExact
<1>9. ASSUME NEW t \in Thread, NEW healthy \in BOOLEAN, Release(t, healthy) PROVE Inv'
    <2>1. /\ HeldOK' /\ Cardinality(held) \in Nat \ {0}
          /\ Cardinality(held') = Cardinality(held) - 1
        BY <1>9, <1>i, ReleaseRemovesOne DEF Release
    <2>2. /\ pc' \in [Thread -> Pc] /\ At("create")' = At("create")
          /\ At("wait")' \subseteq At("wait")
        BY <1>0, <1>9, NotifyWakesSleepers DEF Release
    <2>3. closed' = closed
        BY <1>9 DEF Release
    <2>4. CASE closed
        <3>1. idle' = idle /\ total' = Minus(total, 1)
            BY <1>9, <2>4 DEF Release
        <3>2. total' \in 0..(WordSize - 1)
            BY <1>i, <3>1, WordClosed
        <3>3. Open' <= MaxSize + N - 1
            BY <1>0, <1>i, <2>1, <2>2, <3>1 DEF Open
        <3>4. TypeOK' /\ TotalIsExact'
            BY <1>i, <2>1, <2>2, <2>3, <2>4, <3>1, <3>2, <1>0 DEF TypeOK, TotalIsExact, HeldOK
        <3> QED
            BY <1>i, <1>n, <2>1, <2>2, <2>3, <3>1, <3>3, <3>4 DEF Inv
    <2>5. CASE ~closed
        <3>1. /\ idle' = IF healthy THEN idle + 1 ELSE idle
              /\ total' = IF healthy THEN total ELSE Minus(total, 1)
            BY <1>9, <2>5 DEF Release
        <3>2. Minus(total, 1) = total - 1
            BY <1>0, <2>1, <2>5, WordArithmetic
        <3>3. idle' \in Nat /\ total' = idle' + Cardinality(held') /\ total' <= total
            BY <1>0, <2>1, <2>5, <3>1, <3>2
        <3>4. Open' <= MaxSize + N - 1
            BY <1>0, <1>i, <2>1, <2>2, <3>1 DEF Open
        <3>5. TypeOK' /\ TotalIsExact'
            BY <1>0, <1>i, <2>1, <2>2, <2>3, <3>1, <3>2, <3>3 DEF TypeOK, TotalIsExact, HeldOK
        <3> QED
            BY <1>n, <2>1, <2>3, <2>5, <3>4, <3>5 DEF Inv
    <2> QED
        BY <2>4, <2>5
<1>10. ASSUME Shutdown PROVE Inv'
    <2>1. closed' = TRUE /\ idle' = 0 /\ total' = 0 /\ held' = held /\ NotifyAll
        BY <1>10 DEF Shutdown
    <2>2. pc' \in [Thread -> Pc] /\ At("create")' = At("create")
        BY <1>0, <2>1, NotifyWakesSleepers
    <2>3. At("wait")' = {}
        BY <1>0, <2>1 DEF NotifyAll, At
    <2>4. Open' <= MaxSize + N - 1
        BY <1>0, <1>i, <2>1, <2>2 DEF Open
    <2>5. TypeOK' /\ HeldOK' /\ TotalIsExact'
        BY <1>0, <1>i, <2>1, <2>2, SizeAssumption DEF TypeOK, HeldOK, TotalIsExact
    <2> QED
        BY <1>n, <2>1, <2>3, <2>4, <2>5 DEF Inv
<1>11. ASSUME UNCHANGED vars PROVE Inv'
    BY <1>i, <1>n, <1>11
       DEF vars, Inv, TypeOK, HeldOK, TotalIsExact, Open, At
<1> QED
    BY <1>2, <1>3, <1>4, <1>5, <1>6, <1>7, <1>8, <1>9, <1>10, <1>11 DEF Next, AcquireStep

\* The invariant holds of every state.
THEOREM InvHolds == Spec => []Inv
    BY InitInv, NextInv, PTL DEF Spec

\* The counter that acquire compares with maxSize_ is the number of open
\* connections, until the shutdown.
THEOREM CountIsExact == Spec => []TotalIsExact
<1>1. Inv => TotalIsExact
    BY DEF Inv
<1> QED
    BY <1>1, InvHolds, PTL

\* shutdown() leaves no thread asleep.
THEOREM ShutdownWakesAll == Spec => []ClosedWakesAll
<1>1. Inv => ClosedWakesAll
    BY DEF Inv, ClosedWakesAll
<1> QED
    BY <1>1, InvHolds, PTL

-----------------------------------------------------------------------------
LEMMA SameCardinality == \A S : Contract!Cardinality(S) = Cardinality(S)
    BY DEF Cardinality, Contract!Cardinality

\* The pool keeps the contract of PoolContract with the limit
\* maxSize_ + |Thread| - 1: each step of the pool is a step of the contract or
\* changes nothing of it.
THEOREM PoolKeepsContract == Spec => ImplementsContract
<1> USE DEF Contract!vars
<1>1. Init => Contract!Init
    <2>1. N \in Nat \ {0}
        BY ThreadsCounted DEF N
    <2> QED
        BY <2>1, SizeAssumption DEF Init, Contract!Init, N
<1>2. Inv /\ [Next]_vars => [Contract!Next]_Contract!vars
    <2> SUFFICES ASSUME Inv, [Next]_vars PROVE [Contract!Next]_Contract!vars
        OBVIOUS
    <2>0. /\ N \in Nat \ {0} /\ idle \in Nat /\ Cardinality(held) \in Nat
          /\ Cardinality(At("create")) \in Nat /\ MaxSize \in Nat
          /\ ~closed => Minus(total, idle) = Cardinality(held)
          /\ pc \in [Thread -> Pc] /\ HeldOK
          /\ idle + Cardinality(held) + Cardinality(At("create")) <= MaxSize + N - 1
        BY Facts DEF Inv, Open
    <2>1. ASSUME NEW t \in Thread,
                 Request(t) \/ Refuse(t) \/ CreateFails(t) \/ TimedOut(t) \/ WakeUp(t)
          PROVE  UNCHANGED <<idle, held, closed>>
        BY <2>1 DEF Request, Refuse, CreateFails, TimedOut, WakeUp, GiveUp
    <2>2. ASSUME NEW t \in Thread, Lend(t) PROVE Contract!Next
        <3>1. PICK s \in Slot : s \notin held /\ held' = held \cup {s}
            BY <2>0, <2>2, TakeAddsOne DEF Lend
        <3>2. Contract!Lend(s)
            BY <2>2, <3>1 DEF Lend, Contract!Lend
        <3> QED
            BY <3>2 DEF Contract!Next
    <2>3. ASSUME NEW t \in Thread, StartCreate(t) \/ Sleep(t) PROVE Contract!Next
        <3>1. idle' = idle - idle /\ idle \in 0..idle /\ UNCHANGED <<held, closed>>
            BY <2>0, <2>3 DEF StartCreate, Sleep
        <3>2. Contract!Discard
            BY <3>1 DEF Contract!Discard
        <3> QED
            BY <3>2 DEF Contract!Next
    <2>4. ASSUME NEW t \in Thread, Created(t) PROVE Contract!Next
        <3>1. PICK s \in Slot : s \notin held /\ held' = held \cup {s}
            BY <2>0, <2>4, TakeAddsOne DEF Created
        <3>2. Cardinality(At("create")) # 0
            <4>1. t \in At("create") /\ IsFiniteSet(At("create"))
                BY <2>4, ThreadsCounted DEF Created, At
            <4> QED
                BY <4>1, FS_EmptySet
        <3>3. idle + Cardinality(held) < MaxSize + N - 1
            BY <2>0, <3>2
        <3>4. Contract!Open(s)
            BY <2>4, <3>1, <3>3, SameCardinality DEF Created, Contract!Open, N
        <3> QED
            BY <3>4 DEF Contract!Next
    <2>5. ASSUME NEW t \in Thread, NEW healthy \in BOOLEAN, Release(t, healthy)
          PROVE  Contract!Next
        <3>1. PICK s \in Slot : s \in held /\ held' = held \ {s}
            BY <2>0, <2>5, ReleaseRemovesOne DEF Release
        <3>2. CASE ~closed /\ healthy
            <4>1. Contract!Return(s)
                BY <2>5, <3>1, <3>2 DEF Release, Contract!Return
            <4> QED
                BY <4>1 DEF Contract!Next
        <3>3. CASE closed \/ ~healthy
            <4>1. Contract!Drop(s)
                BY <2>5, <3>1, <3>3 DEF Release, Contract!Drop
            <4> QED
                BY <4>1 DEF Contract!Next
        <3> QED
            BY <3>2, <3>3
    <2>6. ASSUME Shutdown PROVE Contract!Next
        BY <2>6 DEF Shutdown, Contract!Close, Contract!Next
    <2>7. ASSUME UNCHANGED vars PROVE UNCHANGED <<idle, held, closed>>
        BY <2>7 DEF vars
    <2> QED
        BY <2>1, <2>2, <2>3, <2>4, <2>5, <2>6, <2>7 DEF Next, AcquireStep
<1> QED
    BY <1>1, <1>2, InvHolds, PTL DEF Spec, ImplementsContract, Contract!Spec
=============================================================================
