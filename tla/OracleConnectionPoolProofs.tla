--------------------- MODULE OracleConnectionPoolProofs ---------------------
(***************************************************************************)
(* The Oracle pool for any number of threads and any maxSize_: its counter *)
(* never falls below the number of open connections, the shutdown leaves   *)
(* nobody asleep, and maxSize_ is the most that are ever open.             *)
(***************************************************************************)
EXTENDS OracleConnectionPool, ConnectionPoolProofs

\* Connections are created with the mutex held, so the count that was tested is
\* the count that grows.
Inv ==
    /\ TypeOK
    /\ HeldOK
    /\ TotalCoversOpen
    /\ total <= MaxSize
    /\ closed => idle = 0 /\ At("wait") = {}

LEMMA InitInv == OracleInit => Inv
<1> SUFFICES ASSUME Init PROVE Inv
    BY DEF OracleInit
<1> USE DEF Init
<1>1. HeldOK /\ Cardinality(held) = 0
    BY FS_EmptySet DEF HeldOK
<1>2. Cardinality(Thread) \in Nat \ {0}
    BY ThreadsCounted
<1>3. MinSize \in 0..(WordSize - 1)
    BY <1>2, SizeAssumption
<1>4. TypeOK
    BY <1>1, <1>3, SizeAssumption DEF TypeOK, HeldOK, Pc
<1> QED
    BY <1>1, <1>4, SizeAssumption DEF Inv, TotalCoversOpen

\* What every step may use of the state it starts from.
LEMMA Facts ==
    ASSUME Inv
    PROVE  /\ idle \in Nat /\ Cardinality(held) \in Nat
           /\ idle + Cardinality(held) <= total /\ total <= MaxSize
           /\ \A k \in 0..total : Minus(total, k) = total - k
           /\ total \in Nat /\ MaxSize \in Nat /\ MaxSize + 1 <= WordSize - 1
           /\ WordSize \in Nat
           /\ pc \in [Thread -> Pc] /\ HeldOK
           /\ closed \in BOOLEAN
           /\ closed => idle = 0 /\ At("wait") = {}
<1>1. idle \in Nat /\ Cardinality(held) \in Nat /\ HeldOK /\ closed \in BOOLEAN
    BY FS_CardinalityType DEF Inv, HeldOK, TypeOK
<1>2. idle + Cardinality(held) <= total /\ total <= MaxSize /\ total \in Nat
    BY DEF Inv, TotalCoversOpen, TypeOK
<1>3. \A k \in 0..total : Minus(total, k) = total - k
    BY <1>1, <1>2, WordArithmetic
<1>4. /\ total \in Nat /\ MaxSize \in Nat /\ WordSize \in Nat
      /\ MaxSize + 1 <= WordSize - 1 /\ pc \in [Thread -> Pc]
    BY <1>1, <1>2, SizeAssumption, ThreadsCounted DEF Inv, TypeOK
<1> QED
    BY <1>1, <1>2, <1>3, <1>4 DEF Inv

\* The parts of the invariant from what a step leaves behind.
LEMMA Rebuild ==
    ASSUME idle' \in Nat, HeldOK', idle' + Cardinality(held') <= total',
           total' \in Nat, total' <= MaxSize, MaxSize \in Nat, WordSize \in Nat,
           MaxSize + 1 <= WordSize - 1, closed' \in BOOLEAN,
           pc' \in [Thread -> Pc], closed' => idle' = 0 /\ At("wait")' = {}
    PROVE  Inv'
<1>1. total' \in 0..(WordSize - 1)
    OBVIOUS
<1> QED
    BY <1>1 DEF Inv, TypeOK, HeldOK, TotalCoversOpen

\* A step of the pool, or one that only ends the process.
LEMMA NextSteps == [Next]_oracleVars => Step \/ UNCHANGED vars
    BY DEF Next, oracleVars, Abort

LEMMA NextInv == Inv /\ [Next]_oracleVars => Inv'
<1> SUFFICES ASSUME Inv, Step \/ UNCHANGED vars PROVE Inv'
    BY NextSteps
<1>0. /\ idle \in Nat /\ Cardinality(held) \in Nat
      /\ idle + Cardinality(held) <= total /\ total <= MaxSize
      /\ \A k \in 0..total : Minus(total, k) = total - k
      /\ total \in Nat /\ MaxSize \in Nat /\ MaxSize + 1 <= WordSize - 1
      /\ WordSize \in Nat
      /\ pc \in [Thread -> Pc] /\ HeldOK
      /\ closed \in BOOLEAN
      /\ closed => idle = 0 /\ At("wait") = {}
    BY Facts
<1>p. {"run", "want", "create", "wait", "woken"} = Pc
    BY DEF Pc
\* A thread that only changes its place.
<1>1. ASSUME NEW t \in Thread, NEW l \in Pc \ {"wait"}, Goto(t, l),
             UNCHANGED <<idle, held, total, closed>>
      PROVE  Inv'
    <2>1. pc' \in [Thread -> Pc] /\ (At("wait") = {} => At("wait")' = {})
        BY <1>0, <1>1, Moves, Creators
    <2>2. HeldOK'
        BY <1>0, <1>1 DEF HeldOK
    <2> QED
        BY <1>0, <1>1, <2>1, <2>2, Rebuild
<1>2. ASSUME NEW t \in Thread, Request(t) \/ WakeUp(t) PROVE Inv'
    BY <1>1, <1>2, <1>p DEF Request, WakeUp
<1>3. ASSUME NEW t \in Thread, Refuse(t) PROVE Inv'
    BY <1>1, <1>3, <1>p DEF Refuse, GiveUp
<1>4. ASSUME NEW t \in Thread, Lend(t) PROVE Inv'
    <2>1. PICK dead \in 0..idle : dead < idle /\ idle' = idle - dead - 1
                                  /\ total' = Minus(total, dead)
        BY <1>4 DEF Lend
    <2>2. ~closed /\ closed' = closed /\ Take(t)
        BY <1>4 DEF Lend
    <2>3. /\ HeldOK' /\ Cardinality(held') = Cardinality(held) + 1
          /\ pc' \in [Thread -> Pc]
        BY <1>0, <2>2, TakeAddsOne
    <2>4. idle' \in Nat /\ dead \in 0..total
        BY <1>0, <2>1
    <2>5. total' = total - dead
        BY <1>0, <2>1, <2>4
    <2> QED
        BY <1>0, <2>1, <2>2, <2>3, <2>4, <2>5, Rebuild
<1>a. ASSUME NEW t \in Thread, LogoffThrows(t) PROVE Inv'
    <2>1. PICK dead \in 0..idle : dead < idle /\ idle' = idle - dead - 1
                                  /\ total' = Minus(total, dead)
        BY <1>a DEF LogoffThrows
    <2>2. ~closed /\ closed' = closed /\ held' = held /\ Goto(t, "run")
        BY <1>a DEF LogoffThrows
    <2>3. HeldOK' /\ pc' \in [Thread -> Pc]
        BY <1>0, <1>p, <2>2, Moves DEF HeldOK
    <2>4. idle' \in Nat /\ dead \in 0..total
        BY <1>0, <2>1
    <2>5. total' = total - dead
        BY <1>0, <2>1, <2>4
    <2> QED
        BY <1>0, <2>1, <2>2, <2>3, <2>4, <2>5, Rebuild
<1>5. ASSUME NEW t \in Thread, Create(t) PROVE Inv'
    <2>1. ~closed /\ closed' = closed /\ idle' = 0 /\ Take(t)
        BY <1>5 DEF Create
    <2>2. Minus(total, idle) = total - idle /\ total - idle < MaxSize
        BY <1>0, <1>5 DEF Create
    <2>3. total' = total - idle + 1
        BY <1>0, <1>5, <2>2, WordArithmetic DEF Create
    <2>4. /\ HeldOK' /\ Cardinality(held') = Cardinality(held) + 1
          /\ pc' \in [Thread -> Pc]
        BY <1>0, <2>1, TakeAddsOne
    <2> QED
        BY <1>0, <2>1, <2>2, <2>3, <2>4, Rebuild
<1>6. ASSUME NEW t \in Thread, Sleep(t) \/ Expire(t) PROVE Inv'
    <2>1. /\ ~closed /\ closed' = closed /\ idle' = 0 /\ held' = held
          /\ total' = Minus(total, idle) /\ (Goto(t, "wait") \/ Goto(t, "run"))
        BY <1>6 DEF Sleep, Expire, NoneLeft
    <2>2. pc' \in [Thread -> Pc]
        BY <1>0, <1>p, <2>1, Moves
    <2>3. HeldOK' /\ total' = total - idle
        BY <1>0, <2>1 DEF HeldOK
    <2> QED
        BY <1>0, <2>1, <2>2, <2>3, Rebuild
<1>7. ASSUME NEW t \in Thread, NEW healthy \in BOOLEAN, Release(t, healthy) PROVE Inv'
    <2>1. /\ HeldOK' /\ Cardinality(held) \in Nat \ {0}
          /\ Cardinality(held') = Cardinality(held) - 1
        BY <1>0, <1>7, ReleaseRemovesOne DEF Release
    <2>2. pc' \in [Thread -> Pc] /\ At("wait")' \subseteq At("wait") /\ closed' = closed
        BY <1>0, <1>7, NotifyWakesSleepers DEF Release
    <2>3. Minus(total, 1) = total - 1
        BY <1>0, <2>1
    <2>4. CASE ~closed /\ healthy
        <3>1. idle' = idle + 1 /\ total' = total
            BY <1>7, <2>4 DEF Release
        <3> QED
            BY <1>0, <2>1, <2>2, <2>4, <3>1, Rebuild
    <2>5. CASE closed \/ ~healthy
        <3>1. idle' = idle /\ total' = total - 1
            BY <1>7, <2>3, <2>5 DEF Release
        <3> QED
            BY <1>0, <2>1, <2>2, <2>5, <3>1, Rebuild
    <2> QED
        BY <2>4, <2>5
<1>8. ASSUME Shutdown PROVE Inv'
    <2>1. /\ closed' = TRUE /\ idle' = 0 /\ held' = held /\ NotifyAll
          /\ \E k \in 0..idle : total' = Minus(total, k)
        BY <1>8 DEF Shutdown
    <2>2. pc' \in [Thread -> Pc] /\ At("wait")' = {}
        BY <1>0, <2>1, NotifyWakesSleepers DEF NotifyAll, At
    <2>3. PICK k \in 0..idle : total' = Minus(total, k)
        BY <2>1
    <2>4. HeldOK' /\ total' = total - k
        BY <1>0, <2>1, <2>3 DEF HeldOK
    <2> QED
        BY <1>0, <2>1, <2>2, <2>3, <2>4, Rebuild
<1>9. ASSUME UNCHANGED vars PROVE Inv'
    BY <1>9 DEF vars, Inv, TypeOK, HeldOK, TotalCoversOpen, At
<1> QED
    BY <1>2, <1>3, <1>4, <1>5, <1>6, <1>7, <1>8, <1>9, <1>a DEF Step

\* The invariant holds of every state.
THEOREM InvHolds == Spec => []Inv
    BY InitInv, NextInv, PTL DEF Spec

\* The counter never falls below the number of open connections, so no release
\* takes it below 0.
THEOREM CountCoversOpen == Spec => []TotalCoversOpen
<1>1. Inv => TotalCoversOpen
    BY DEF Inv
<1> QED
    BY <1>1, InvHolds, PTL

\* shutdown() leaves no thread asleep.
THEOREM ShutdownWakesAll == Spec => []ClosedWakesAll
<1>1. Inv => ClosedWakesAll
    BY DEF Inv, ClosedWakesAll
<1> QED
    BY <1>1, InvHolds, PTL

-----------------------------------------------------------------------------
AwakeSet == {t \in Thread : Awake(t)}

\* While threads sleep, at least as many are on their way as connections lie idle: each
\* release that adds one wakes one, and who takes one leaves with it.
EnoughAwake == At("wait") # {} => idle <= Cardinality(AwakeSet)

LEMMA AwakeCounted == IsFiniteSet(AwakeSet) /\ Cardinality(AwakeSet) \in Nat
<1>1. AwakeSet \subseteq Thread
    BY DEF AwakeSet
<1> QED
    BY <1>1, ThreadAssumption, FS_Subset, FS_CardinalityType

\* A thread that is woken or comes in is one more of those awake, one that leaves is one
\* fewer.
LEMMA Awakening ==
    ASSUME NEW t \in Thread, NEW l \in Pc, pc \in [Thread -> Pc], Goto(t, l)
    PROVE  /\ l \in {"want", "woken"} /\ ~Awake(t) =>
                Cardinality(AwakeSet') = Cardinality(AwakeSet) + 1
           /\ l \notin {"want", "woken"} /\ Awake(t) =>
                Cardinality(AwakeSet') = Cardinality(AwakeSet) - 1
<1>1. AwakeSet' = IF l \in {"want", "woken"} THEN AwakeSet \cup {t} ELSE AwakeSet \ {t}
    BY DEF Goto, AwakeSet, Awake
<1>2. t \in AwakeSet <=> Awake(t)
    BY DEF AwakeSet
<1> QED
    BY <1>1, <1>2, AwakeCounted, FS_AddElement, FS_RemoveElement

LEMMA EnoughSteps ==
    ASSUME Inv, EnoughAwake, Step \/ UNCHANGED vars
    PROVE  EnoughAwake'
<1>0. /\ idle \in Nat /\ pc \in [Thread -> Pc]
      /\ closed => idle = 0 /\ At("wait") = {}
    BY Facts
<1>p. {"run", "want", "create", "wait", "woken"} = Pc
    BY DEF Pc
<1>c. Cardinality(AwakeSet) \in Nat
    BY AwakeCounted
<1>d. Cardinality(AwakeSet') \in Nat
    <2>1. AwakeSet' \subseteq Thread
        BY DEF AwakeSet
    <2> QED
        BY <2>1, ThreadAssumption, FS_Subset, FS_CardinalityType
\* Nothing lies idle, or nobody sleeps.
<1>e. ASSUME idle' = 0 \/ At("wait")' = {} PROVE EnoughAwake'
    BY <1>d, <1>e DEF EnoughAwake
<1>1. ASSUME NEW t \in Thread, Request(t) \/ WakeUp(t) PROVE EnoughAwake'
    <2>1. PICK l \in {"want", "woken"} : Goto(t, l) /\ ~Awake(t) /\ idle' = idle
        BY <1>1 DEF Request, WakeUp, Awake
    <2>2. Cardinality(AwakeSet') = Cardinality(AwakeSet) + 1
        BY <1>0, <1>p, <2>1, Awakening
    <2>3. At("wait")' \subseteq At("wait")
        BY <1>0, <2>1 DEF Goto, At
    <2> QED
        BY <1>0, <1>c, <2>1, <2>2, <2>3 DEF EnoughAwake
<1>2. ASSUME NEW t \in Thread, Refuse(t) PROVE EnoughAwake'
    <2>1. idle' = 0
        BY <1>0, <1>2 DEF Refuse, GiveUp
    <2> QED
        BY <1>e, <2>1
<1>3. ASSUME NEW t \in Thread, Lend(t) \/ LogoffThrows(t) PROVE EnoughAwake'
    <2>1. idle' \in Nat /\ idle' <= idle - 1
        BY <1>0, <1>3 DEF Lend, LogoffThrows
    <2>2. Awake(t) /\ Goto(t, "run")
        BY <1>3 DEF Lend, LogoffThrows, Take
    <2>3. Cardinality(AwakeSet') = Cardinality(AwakeSet) - 1
        BY <1>0, <1>p, <2>2, Awakening
    <2>4. At("wait")' \subseteq At("wait")
        BY <1>0, <2>2 DEF Goto, At
    <2> QED
        BY <1>0, <1>c, <2>1, <2>3, <2>4 DEF EnoughAwake
<1>4. ASSUME NEW t \in Thread, Create(t) \/ Sleep(t) \/ Expire(t) PROVE EnoughAwake'
    BY <1>e, <1>4 DEF Create, Sleep, Expire, NoneLeft
<1>5. ASSUME NEW t \in Thread, NEW healthy \in BOOLEAN, Release(t, healthy) PROVE EnoughAwake'
    <2>1. CASE idle' = idle /\ UNCHANGED pc
        BY <2>1 DEF EnoughAwake, At, AwakeSet, Awake
    <2>2. CASE idle' = idle + 1 /\ At("wait") = {} /\ UNCHANGED pc
        <3>1. At("wait")' = {}
            BY <2>2 DEF At
        <3> QED
            BY <1>e, <3>1
    <2>3. CASE idle' = idle + 1 /\ \E u \in At("wait") : Goto(u, "woken")
        <3>1. PICK u \in At("wait") : Goto(u, "woken")
            BY <2>3
        <3>2. u \in Thread /\ ~Awake(u)
            BY DEF At, Awake
        <3>3. Cardinality(AwakeSet') = Cardinality(AwakeSet) + 1
            BY <1>0, <1>p, <3>1, <3>2, Awakening
        <3> QED
            BY <1>0, <1>c, <2>3, <3>3 DEF EnoughAwake
    <2> QED
        BY <1>5, <2>1, <2>2, <2>3 DEF Release, NotifyOne
<1>6. ASSUME Shutdown PROVE EnoughAwake'
    BY <1>e, <1>6 DEF Shutdown
<1>7. ASSUME UNCHANGED vars PROVE EnoughAwake'
    BY <1>7 DEF vars, EnoughAwake, At, AwakeSet, Awake
<1> QED
    BY <1>1, <1>2, <1>3, <1>4, <1>5, <1>6, <1>7 DEF Step

\* No thread sleeps on cv_ beside an idle connection unless another is on its way to take
\* one, for any number of threads and any maxSize_: of the three pools this holds only of
\* this one, whose acquire keeps the mutex while it creates.
THEOREM IdleMeansAwake == Spec => []AvailableMeansAwake
<1>1. OracleInit => EnoughAwake
    BY DEF OracleInit, Init, EnoughAwake, At
<1>2. Inv /\ EnoughAwake /\ [Next]_oracleVars => EnoughAwake'
    BY EnoughSteps, NextSteps
<1>3. Inv /\ EnoughAwake => AvailableMeansAwake
    <2> SUFFICES ASSUME Inv, EnoughAwake, idle > 0, At("wait") # {}
                 PROVE  At("want") \cup At("woken") # {}
        BY DEF AvailableMeansAwake
    <2>1. idle \in Nat /\ Cardinality(AwakeSet) \in Nat
        BY Facts, AwakeCounted
    <2>2. AwakeSet # {}
        BY <2>1, FS_EmptySet DEF EnoughAwake
    <2> QED
        BY <2>2 DEF AwakeSet, Awake, At
<1> QED
    BY <1>1, <1>2, <1>3, InvHolds, PTL DEF Spec

-----------------------------------------------------------------------------
LEMMA SameCardinality == \A S : Contract!Cardinality(S) = Cardinality(S)
    BY DEF Cardinality, Contract!Cardinality

\* The pool keeps the contract of PoolContract with maxSize_ itself as limit.
THEOREM PoolKeepsContract == Spec => ImplementsContract
<1> USE DEF Contract!vars
<1>1. OracleInit => Contract!Init
    BY SizeAssumption DEF OracleInit, Init, Contract!Init
<1>2. Inv /\ [Next]_oracleVars => [Contract!Next]_Contract!vars
    <2> SUFFICES ASSUME Inv, Step \/ UNCHANGED vars PROVE [Contract!Next]_Contract!vars
        BY NextSteps
    <2>0. /\ idle \in Nat /\ Cardinality(held) \in Nat /\ MaxSize \in Nat
          /\ idle + Cardinality(held) <= total /\ total \in Nat
          /\ \A k \in 0..total : Minus(total, k) = total - k
          /\ total <= MaxSize
          /\ pc \in [Thread -> Pc] /\ HeldOK
        BY Facts
    <2>1. ASSUME NEW t \in Thread, Request(t) \/ Refuse(t) \/ WakeUp(t)
          PROVE  UNCHANGED <<idle, held, closed>>
        BY <2>1 DEF Request, Refuse, WakeUp, GiveUp
    <2>2. ASSUME NEW t \in Thread, Lend(t) PROVE Contract!Next
        <3>1. PICK s \in Slot : s \notin held /\ held' = held \cup {s}
            BY <2>0, <2>2, TakeAddsOne DEF Lend
        <3>2. Contract!Lend(s)
            BY <2>2, <3>1 DEF Lend, Contract!Lend
        <3> QED
            BY <3>2 DEF Contract!Next
    <2>3. ASSUME NEW t \in Thread, Sleep(t) \/ Expire(t) PROVE Contract!Next
        <3>1. idle' = idle - idle /\ idle \in 0..idle /\ UNCHANGED <<held, closed>>
            BY <2>0, <2>3 DEF Sleep, Expire, NoneLeft
        <3>2. Contract!Discard
            BY <3>1 DEF Contract!Discard
        <3> QED
            BY <3>2 DEF Contract!Next
    <2>8. ASSUME NEW t \in Thread, LogoffThrows(t) PROVE Contract!Next
        <3>1. PICK dead \in 0..idle : dead < idle /\ idle' = idle - dead - 1
            BY <2>8 DEF LogoffThrows
        <3>2. dead + 1 \in 0..idle /\ idle' = idle - (dead + 1)
            BY <2>0, <3>1
        <3>3. Contract!Discard
            BY <2>8, <3>2 DEF LogoffThrows, Contract!Discard
        <3> QED
            BY <3>3 DEF Contract!Next
    <2>4. ASSUME NEW t \in Thread, Create(t) PROVE Contract!Next
        <3>1. PICK s \in Slot : s \notin held /\ held' = held \cup {s}
            BY <2>0, <2>4, TakeAddsOne DEF Create
        <3>2. ~closed /\ closed' = closed /\ idle' = 0 /\ Cardinality(held) < MaxSize
            BY <2>0, <2>4 DEF Create
        \* A dead connection is replaced: seen from outside, the last one is lent.
        <3>3. CASE idle > 0
            <4>1. idle - 1 \in 0..idle /\ idle - 1 < idle /\ idle' = idle - (idle - 1) - 1
                BY <2>0, <3>2, <3>3
            <4>2. Contract!Lend(s)
                BY <3>1, <3>2, <4>1 DEF Contract!Lend
            <4> QED
                BY <4>2 DEF Contract!Next
        <3>4. CASE idle = 0
            <4>1. Contract!Open(s)
                BY <2>0, <3>1, <3>2, <3>4, SameCardinality DEF Contract!Open
            <4> QED
                BY <4>1 DEF Contract!Next
        <3> QED
            BY <2>0, <3>3, <3>4
    <2>5. ASSUME NEW t \in Thread, NEW healthy \in BOOLEAN, Release(t, healthy)
          PROVE  Contract!Next
        <3>1. PICK s \in Slot : s \in held /\ held' = held \ {s}
            BY <2>0, <2>5, ReleaseRemovesOne DEF Release
        <3>2. CASE ~closed /\ healthy
            <4>1. Contract!Return(s)
                BY <2>5, <3>1, <3>2 DEF Release, Contract!Return
            <4> QED
                BY <4>1 DEF Contract!Next
        <3>3. CASE closed \/ ~healthy
            <4>1. Contract!Drop(s)
                BY <2>5, <3>1, <3>3 DEF Release, Contract!Drop
            <4> QED
                BY <4>1 DEF Contract!Next
        <3> QED
            BY <3>2, <3>3
    <2>6. ASSUME Shutdown PROVE Contract!Next
        BY <2>6 DEF Shutdown, Contract!Close, Contract!Next
    <2>7. ASSUME UNCHANGED vars PROVE UNCHANGED <<idle, held, closed>>
        BY <2>7 DEF vars
    <2> QED
        BY <2>1, <2>2, <2>3, <2>4, <2>5, <2>6, <2>7, <2>8 DEF Step
<1> QED
    BY <1>1, <1>2, InvHolds, PTL DEF Spec, ImplementsContract, Contract!Spec
=============================================================================
