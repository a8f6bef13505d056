---------------------- MODULE LdapConnectionPoolProofs ----------------------
(***************************************************************************)
(* The LDAP pool for any number of threads and any maxSize_: its counter   *)
(* is exact before and after the shutdown, and at most                     *)
(* maxSize_ + |Thread| - 1 connections are open.  (That the shutdown wakes *)
(* everyone is not true of this pool; see the README.)                     *)
(***************************************************************************)
EXTENDS LdapConnectionPool, ConnectionPoolProofs

\* The limit is kept as in DbConnectionPoolProofs: a thread begins to create
\* only while fewer than maxSize_ connections are counted, and at most N
\* threads are creating.
Inv ==
    /\ TypeOK
    /\ HeldOK
    /\ TotalIsAlwaysExact
    /\ Open <= MaxSize + N - 1

LEMMA InitInv == Init => Inv
<1> SUFFICES ASSUME Init PROVE Inv
    OBVIOUS
<1> USE DEF Init
<1>1. HeldOK /\ Cardinality(held) = 0
    BY FS_EmptySet DEF HeldOK
<1>2. At("create") = {} /\ Cardinality(At("create")) = 0
    BY FS_EmptySet DEF At
<1>3. N \in Nat \ {0} /\ MaxSize + N < WordSize
    BY ThreadsCounted, SizeAssumption DEF N
<1>4. MinSize \in 0..(WordSize - 1)
    BY <1>3, SizeAssumption
<1>5. TypeOK
    BY <1>1, <1>4, SizeAssumption DEF TypeOK, HeldOK, Pc
<1>6. Open <= MaxSize + N - 1
    BY <1>1, <1>2, <1>3, SizeAssumption DEF Open
<1> QED
    BY <1>1, <1>5, <1>6, SizeAssumption DEF Inv, TotalIsAlwaysExact

\* What every step may use of the state it starts from.
LEMMA Facts ==
    ASSUME Inv
    PROVE  /\ N \in Nat \ {0} /\ idle \in Nat /\ Cardinality(held) \in Nat
           /\ Cardinality(At("create")) \in Nat
           /\ total = idle + Cardinality(held) /\ total \in Nat
           /\ \A k \in 0..total : Minus(total, k) = total - k
           /\ MaxSize \in Nat /\ WordSize \in Nat /\ MaxSize + N < WordSize
           /\ idle + Cardinality(held) + Cardinality(At("create")) <= MaxSize + N - 1
           /\ pc \in [Thread -> Pc] /\ HeldOK
           /\ closed \in BOOLEAN
<1>1. /\ N \in Nat \ {0} /\ idle \in Nat /\ Cardinality(held) \in Nat
      /\ Cardinality(At("create")) \in Nat
    BY ThreadsCounted, FS_CardinalityType DEF N, Inv, HeldOK, TypeOK
<1>2. total = idle + Cardinality(held) /\ total \in Nat
    BY <1>1 DEF Inv, TotalIsAlwaysExact
<1>3. \A k \in 0..total : Minus(total, k) = total - k
    BY <1>2, WordArithmetic
<1>4. MaxSize \in Nat /\ WordSize \in Nat /\ MaxSize + N < WordSize
    BY SizeAssumption DEF N
<1> QED
    BY <1>1, <1>2, <1>3, <1>4 DEF Inv, TypeOK, Open

\* The parts of the invariant from what a step leaves behind.
LEMMA Rebuild ==
    ASSUME idle' \in Nat, HeldOK', total' = idle' + Cardinality(held'),
           Cardinality(held') \in Nat,
           Cardinality(At("create")') \in Nat, N \in Nat,
           idle' + Cardinality(held') + Cardinality(At("create")') <= MaxSize + N - 1,
           MaxSize \in Nat, WordSize \in Nat, MaxSize + N < WordSize,
           closed' \in BOOLEAN, pc' \in [Thread -> Pc]
    PROVE  Inv'
<1>1. total' \in 0..(WordSize - 1)
    OBVIOUS
<1>2. Open' <= MaxSize + N' - 1
    BY DEF Open, N
<1> QED
    BY <1>1, <1>2 DEF Inv, TypeOK, HeldOK, TotalIsAlwaysExact

LEMMA NextInv == Inv /\ [Next]_vars => Inv'
<1> SUFFICES ASSUME Inv, [Next]_vars PROVE Inv'
    OBVIOUS
<1>0. /\ N \in Nat \ {0} /\ idle \in Nat /\ Cardinality(held) \in Nat
      /\ Cardinality(At("create")) \in Nat
      /\ total = idle + Cardinality(held) /\ total \in Nat
      /\ \A k \in 0..total : Minus(total, k) = total - k
      /\ MaxSize \in Nat /\ WordSize \in Nat /\ MaxSize + N < WordSize
      /\ idle + Cardinality(held) + Cardinality(At("create")) <= MaxSize + N - 1
      /\ pc \in [Thread -> Pc] /\ HeldOK
      /\ closed \in BOOLEAN
    BY Facts
<1>p. {"run", "want", "create", "wait", "woken"} = Pc
    BY DEF Pc
\* A thread that only changes its place.
<1>1. ASSUME NEW t \in Thread, NEW l \in Pc \ {"create"}, Goto(t, l),
             UNCHANGED <<idle, held, total, closed>>
      PROVE  Inv'
    <2>1. pc' \in [Thread -> Pc]
        BY <1>0, <1>1, Moves
    <2>2. Cardinality(At("create")') \in Nat
        BY CreatorsCounted
    <2>3. Cardinality(At("create")') <= Cardinality(At("create"))
        <3>1. CASE pc[t] = "create"
            BY <1>0, <1>1, <2>2, <3>1, Creators
        <3>2. CASE pc[t] # "create"
            BY <1>0, <1>1, <3>2, Creators
        <3> QED
            BY <3>1, <3>2
    <2>4. HeldOK'
        BY <1>0, <1>1 DEF HeldOK
    <2> QED
        BY <1>0, <1>1, <2>1, <2>2, <2>3, <2>4, Rebuild
<1>2. ASSUME NEW t \in Thread, Request(t) \/ WakeUp(t) \/ CreateFails(t) PROVE Inv'
    BY <1>1, <1>2, <1>p DEF Request, WakeUp, CreateFails
<1>3. ASSUME NEW t \in Thread, Refuse(t) \/ TimedOut(t) PROVE Inv'
    BY <1>1, <1>3, <1>p DEF Refuse, TimedOut, GiveUp
<1>4. ASSUME NEW t \in Thread, Lend(t) PROVE Inv'
    <2>1. /\ closed' = closed /\ Take(t) /\ pc[t] # "create"
          /\ idle > 0 /\ idle' = idle - 1 /\ total' = total
        BY <1>4 DEF Lend, Awake
    <2>2. /\ HeldOK' /\ Cardinality(held') = Cardinality(held) + 1
          /\ pc' \in [Thread -> Pc]
        BY <1>0, <2>1, TakeAddsOne
    <2>3. At("create")' = At("create")
        BY <1>0, <1>p, <2>1, Creators DEF Take
    <2> QED
        BY <1>0, <2>1, <2>2, <2>3, Rebuild
<1>5. ASSUME NEW t \in Thread, StartCreate(t) PROVE Inv'
    <2>1. Dead \in 0..idle /\ Dead \in 0..total /\ Dead \in Nat
        BY <1>0 DEF Dead
    <2>2. /\ closed' = closed /\ idle' = idle - Dead /\ held' = held
          /\ total' = total - Dead /\ total - Dead < MaxSize
          /\ Goto(t, "create") /\ pc[t] # "create"
        BY <1>0, <1>5, <2>1 DEF StartCreate, Awake
    <2>3. pc' \in [Thread -> Pc]
        BY <1>0, <1>p, <2>2, Moves
    <2>4. Cardinality(At("create")') <= N /\ Cardinality(At("create")') \in Nat
        BY <1>0, <1>p, <2>2, Creators
    <2>5. HeldOK'
        BY <1>0, <2>2 DEF HeldOK
    <2> QED
        BY <1>0, <2>1, <2>2, <2>3, <2>4, <2>5, Rebuild
<1>6. ASSUME NEW t \in Thread, Sleep(t) PROVE Inv'
    <2>1. Dead \in 0..idle /\ Dead \in 0..total /\ Dead \in Nat
        BY <1>0 DEF Dead
    <2>2. /\ closed' = closed /\ idle' = idle - Dead /\ held' = held
          /\ total' = total - Dead /\ Goto(t, "wait") /\ pc[t] # "create"
        BY <1>0, <1>6, <2>1 DEF Sleep, Awake
    <2>3. pc' \in [Thread -> Pc]
        BY <1>0, <1>p, <2>2, Moves
    <2>4. At("create")' = At("create")
        BY <1>0, <1>p, <2>2, Creators
    <2>5. HeldOK'
        BY <1>0, <2>2 DEF HeldOK
    <2> QED
        BY <1>0, <2>1, <2>2, <2>3, <2>4, <2>5, Rebuild
<1>7. ASSUME NEW t \in Thread, Created(t) PROVE Inv'
    <2>1. /\ pc[t] = "create" /\ Take(t) /\ total' = Plus1(total)
          /\ idle' = idle /\ closed' = closed
        BY <1>7 DEF Created
    <2>2. /\ HeldOK' /\ Cardinality(held') = Cardinality(held) + 1
          /\ pc' \in [Thread -> Pc]
        BY <1>0, <2>1, TakeAddsOne
    <2>3. Cardinality(At("create")') = Cardinality(At("create")) - 1
        BY <1>0, <1>p, <2>1, Creators DEF Take
    <2>4. Cardinality(At("create")') \in Nat
        BY CreatorsCounted
    <2>5. total' = total + 1
        BY <1>0, <2>1, <2>3, <2>4, WordArithmetic
    <2> QED
        BY <1>0, <2>1, <2>2, <2>3, <2>4, <2>5, Rebuild
<1>8. ASSUME NEW t \in Thread, Release(t) PROVE Inv'
    <2>1. /\ HeldOK' /\ Cardinality(held) \in Nat \ {0}
          /\ Cardinality(held') = Cardinality(held) - 1
        BY <1>0, <1>8, ReleaseRemovesOne DEF Release
    <2>2. /\ pc' \in [Thread -> Pc] /\ At("create")' = At("create")
          /\ closed' = closed
        BY <1>0, <1>8, NotifyWakesSleepers DEF Release
    <2>3. Minus(total, 1) = total - 1
        BY <1>0, <2>1
    <2>4. \/ idle' = idle /\ total' = total - 1
          \/ idle' = idle + 1 /\ total' = total
        BY <1>8, <2>3 DEF Release
    <2> QED
        BY <1>0, <2>1, <2>2, <2>4, Rebuild
<1>9. ASSUME Shutdown PROVE Inv'
    <2>1. /\ closed' = TRUE /\ idle' = 0 /\ total' = Minus(total, idle)
          /\ held' = held /\ NotifyAll
        BY <1>9 DEF Shutdown
    <2>2. pc' \in [Thread -> Pc] /\ At("create")' = At("create")
        BY <1>0, <2>1, NotifyWakesSleepers
    <2>3. HeldOK' /\ total' = Cardinality(held)
        BY <1>0, <2>1 DEF HeldOK
    <2> QED
        BY <1>0, <2>1, <2>2, <2>3, Rebuild
<1>10. ASSUME UNCHANGED vars PROVE Inv'
    BY <1>10 DEF vars, Inv, TypeOK, HeldOK, TotalIsAlwaysExact, Open, At, N
<1> QED
    BY <1>2, <1>3, <1>4, <1>5, <1>6, <1>7, <1>8, <1>9, <1>10 DEF Next

\* The invariant holds of every state.
THEOREM InvHolds == Spec => []Inv
    BY InitInv, NextInv, PTL DEF Spec

\* The counter is the number of open connections, also after the shutdown: the
\* last release takes it to 0 and never below.
THEOREM CountIsAlwaysExact == Spec => []TotalIsAlwaysExact
<1>1. Inv => TotalIsAlwaysExact
    BY DEF Inv
<1> QED
    BY <1>1, InvHolds, PTL

-----------------------------------------------------------------------------
LEMMA SameCardinality == \A S : Contract!Cardinality(S) = Cardinality(S)
    BY DEF Cardinality, Contract!Cardinality

\* The pool keeps the contract of PoolContract with the limit
\* maxSize_ + |Thread| - 1.
THEOREM PoolKeepsContract == Spec => ImplementsContract
<1> USE DEF Contract!vars
<1>1. Init => Contract!Init
    BY SizeAssumption, ThreadsCounted DEF Init, Contract!Init
<1>2. Inv /\ [Next]_vars => [Contract!Next]_Contract!vars
    <2> SUFFICES ASSUME Inv, [Next]_vars PROVE [Contract!Next]_Contract!vars
        OBVIOUS
    <2>0. /\ idle \in Nat /\ Cardinality(held) \in Nat /\ MaxSize \in Nat
          /\ Cardinality(At("create")) \in Nat /\ N \in Nat
          /\ idle + Cardinality(held) + Cardinality(At("create")) <= MaxSize + N - 1
          /\ pc \in [Thread -> Pc] /\ HeldOK
        BY Facts
    <2>1. ASSUME NEW t \in Thread,
                 Request(t) \/ Refuse(t) \/ CreateFails(t) \/ TimedOut(t) \/ WakeUp(t)
          PROVE  UNCHANGED <<idle, held, closed>>
        BY <2>1 DEF Request, Refuse, CreateFails, TimedOut, WakeUp, GiveUp
    <2>2. ASSUME NEW t \in Thread, Lend(t) PROVE Contract!Next
        <3>1. PICK s \in Slot : s \notin held /\ held' = held \cup {s}
            BY <2>0, <2>2, TakeAddsOne DEF Lend
        <3>2. 0 \in 0..idle /\ 0 < idle /\ idle' = idle - 0 - 1
            BY <2>0, <2>2 DEF Lend
        <3>3. Contract!Lend(s)
            BY <2>2, <3>1, <3>2 DEF Lend, Contract!Lend
        <3> QED
            BY <3>3 DEF Contract!Next
    <2>3. ASSUME NEW t \in Thread, StartCreate(t) \/ Sleep(t) PROVE Contract!Next
        <3>1. Dead \in 0..idle /\ idle' = idle - Dead /\ UNCHANGED <<held, closed>>
            BY <2>0, <2>3 DEF StartCreate, Sleep, Dead
        <3>2. Contract!Discard
            BY <3>1 DEF Contract!Discard
        <3> QED
            BY <3>2 DEF Contract!Next
    <2>4. ASSUME NEW t \in Thread, Created(t) PROVE Contract!Next
        <3>1. PICK s \in Slot : s \notin held /\ held' = held \cup {s}
            BY <2>0, <2>4, TakeAddsOne DEF Created
        <3>2. Cardinality(At("create")) # 0
            <4>1. t \in At("create") /\ IsFiniteSet(At("create"))
                BY <2>4, ThreadsCounted DEF Created, At
            <4> QED
                BY <4>1, FS_EmptySet
        <3>3. idle + Cardinality(held) < MaxSize + N - 1
            BY <2>0, <3>2
        <3>4. Contract!Open(s)
            BY <2>4, <3>1, <3>3, SameCardinality DEF Created, Contract!Open, N
        <3> QED
            BY <3>4 DEF Contract!Next
    <2>5. ASSUME NEW t \in Thread, Release(t) PROVE Contract!Next
        <3>1. PICK s \in Slot : s \in held /\ held' = held \ {s}
            BY <2>0, <2>5, ReleaseRemovesOne DEF Release
        <3>2. CASE closed
            <4>1. Contract!Drop(s)
                BY <2>5, <3>1, <3>2 DEF Release, Contract!Drop
            <4> QED
                BY <4>1 DEF Contract!Next
        <3>3. CASE ~closed
            <4>1. Contract!Return(s)
                BY <2>5, <3>1, <3>3 DEF Release, Contract!Return
            <4> QED
                BY <4>1 DEF Contract!Next
        <3> QED
            BY <3>2, <3>3
    <2>6. ASSUME Shutdown PROVE Contract!Next
        BY <2>6 DEF Shutdown, Contract!Close, Contract!Next
    <2>7. ASSUME UNCHANGED vars PROVE UNCHANGED <<idle, held, closed>>
        BY <2>7 DEF vars
    <2> QED
        BY <2>1, <2>2, <2>3, <2>4, <2>5, <2>6, <2>7 DEF Next
<1> QED
    BY <1>1, <1>2, InvHolds, PTL DEF Spec, ImplementsContract, Contract!Spec
=============================================================================
