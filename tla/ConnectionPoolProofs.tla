------------------------ MODULE ConnectionPoolProofs ------------------------
(***************************************************************************)
(* Facts about the shared parts of the connection pools: the set of slots  *)
(* that hold a connection grows and shrinks by one, and a size_t counter   *)
(* that stays within its word counts like a natural number.                *)
(***************************************************************************)
EXTENDS ConnectionPool, FiniteSetTheorems, TLAPS

\* The number of held connections is a number: what Cardinality needs.
HeldOK == held \in SUBSET Slot /\ IsFiniteSet(held)

\* Take adds one connection to those that are held (the handles handed out by
\* acquire of the three pools), and the thread is back outside.
LEMMA TakeAddsOne ==
    ASSUME NEW t \in Thread, HeldOK, Take(t), pc \in [Thread -> Pc]
    PROVE  /\ HeldOK'
           /\ Cardinality(held) \in Nat
           /\ Cardinality(held') = Cardinality(held) + 1
           /\ \E s \in Slot : s \notin held /\ held' = held \cup {s}
           /\ pc' = [pc EXCEPT ![t] = "run"]
           /\ pc' \in [Thread -> Pc]
<1>1. PICK i \in 1..Depth : <<t, i>> \notin held /\ held' = held \cup {<<t, i>>}
    BY DEF Take
<1>2. <<t, i>> \in Slot
    BY DEF Slot
<1>3. IsFiniteSet(held') /\ Cardinality(held') = Cardinality(held) + 1
    BY <1>1, FS_AddElement DEF HeldOK
<1>4. Cardinality(held) \in Nat
    BY FS_CardinalityType DEF HeldOK
<1>5. held' \in SUBSET Slot
    BY <1>1, <1>2 DEF HeldOK
<1>6. pc' = [pc EXCEPT ![t] = "run"] /\ pc' \in [Thread -> Pc]
    BY DEF Take, Goto, Pc
<1> QED
    BY <1>1, <1>2, <1>3, <1>4, <1>5, <1>6 DEF HeldOK

\* releaseConnection takes one connection from those that are held.
LEMMA ReleaseRemovesOne ==
    ASSUME NEW t \in Thread, HeldOK,
           \E i \in 1..Depth : <<t, i>> \in held /\ held' = held \ {<<t, i>>}
    PROVE  /\ HeldOK'
           /\ Cardinality(held) \in Nat \ {0}
           /\ Cardinality(held') = Cardinality(held) - 1
           /\ \E s \in Slot : s \in held /\ held' = held \ {s}
<1>1. PICK i \in 1..Depth : <<t, i>> \in held /\ held' = held \ {<<t, i>>}
    OBVIOUS
<1>2. <<t, i>> \in Slot
    BY DEF Slot
<1>3. IsFiniteSet(held') /\ Cardinality(held') = Cardinality(held) - 1
    BY <1>1, FS_RemoveElement DEF HeldOK
<1>4. Cardinality(held) \in Nat /\ Cardinality(held') \in Nat
    BY <1>3, FS_CardinalityType DEF HeldOK
<1>5. Cardinality(held) # 0
    BY <1>3, <1>4
<1> QED
    BY <1>1, <1>2, <1>3, <1>4, <1>5 DEF HeldOK

\* The threads are finitely many, and so are those at any one place.
LEMMA ThreadsCounted ==
    /\ Cardinality(Thread) \in Nat \ {0}
    /\ \A l : At(l) \in SUBSET Thread /\ IsFiniteSet(At(l)) /\ Cardinality(At(l)) \in Nat
<1>1. Cardinality(Thread) \in Nat \ {0}
    BY ThreadAssumption, FS_CardinalityType, FS_EmptySet
<1>2. ASSUME NEW l
      PROVE  At(l) \in SUBSET Thread /\ IsFiniteSet(At(l)) /\ Cardinality(At(l)) \in Nat
    <2>1. At(l) \subseteq Thread
        BY DEF At
    <2>2. IsFiniteSet(At(l)) /\ Cardinality(At(l)) \in Nat
        BY <2>1, ThreadAssumption, FS_Subset, FS_CardinalityType
    <2> QED
        BY <2>1, <2>2
<1> QED
    BY <1>1, <1>2

\* A thread that goes elsewhere leaves one place and enters another.
LEMMA Moves ==
    ASSUME NEW t \in Thread, NEW l \in Pc, NEW m \in Pc,
           pc \in [Thread -> Pc], Goto(t, l)
    PROVE  /\ pc' \in [Thread -> Pc]
           /\ At(m)' = IF m = l THEN At(m) \cup {t} ELSE At(m) \ {t}
    BY DEF Goto, At

\* Notifying one thread or all of them moves sleepers only.
LEMMA NotifyWakesSleepers ==
    ASSUME pc \in [Thread -> Pc], NotifyOne \/ NotifyAll \/ UNCHANGED pc
    PROVE  /\ pc' \in [Thread -> Pc]
           /\ At("create")' = At("create")
           /\ At("wait")' \subseteq At("wait")
    BY DEF NotifyOne, NotifyAll, Goto, At, Pc

\* Up to the limit of the word, size_t arithmetic is arithmetic.
LEMMA WordArithmetic ==
    /\ \A n \in Nat : n + 1 < WordSize => Plus1(n) = n + 1
    /\ \A n, k \in Nat : k <= n => Minus(n, k) = n - k
    BY SizeAssumption DEF Plus1, Minus

\* A counter of that width never leaves it.
LEMMA WordClosed ==
    /\ \A n \in 0..(WordSize - 1) : Plus1(n) \in 0..(WordSize - 1)
    /\ \A n \in 0..(WordSize - 1) : Minus(n, 1) \in 0..(WordSize - 1)
    BY SizeAssumption DEF Plus1, Minus

N == Cardinality(Thread)

\* The connections that are open, counting those being created.
Open == idle + Cardinality(held) + Cardinality(At("create"))

\* The threads that are creating a connection are counted by a number.
LEMMA CreatorsCounted == Cardinality(At("create")') \in Nat
<1>1. At("create")' \subseteq Thread
    BY DEF At
<1> QED
    BY <1>1, ThreadAssumption, FS_Subset, FS_CardinalityType

\* A thread that begins or ends to create is one more or one fewer creator,
\* and a thread that does not go to sleep makes nobody sleep.
LEMMA Creators ==
    ASSUME NEW t \in Thread, NEW l \in Pc, pc \in [Thread -> Pc], Goto(t, l)
    PROVE  /\ l = "create" /\ pc[t] # "create" =>
                Cardinality(At("create")') = Cardinality(At("create")) + 1
                /\ Cardinality(At("create")') <= N
           /\ l # "create" /\ pc[t] = "create" =>
                Cardinality(At("create")') = Cardinality(At("create")) - 1
           /\ l # "create" /\ pc[t] # "create" => At("create")' = At("create")
           /\ l # "wait" /\ At("wait") = {} => At("wait")' = {}
<1> "create" \in Pc /\ "wait" \in Pc
    BY DEF Pc
<1>1. /\ At("create")' = IF "create" = l THEN At("create") \cup {t} ELSE At("create") \ {t}
      /\ At("wait")' = IF "wait" = l THEN At("wait") \cup {t} ELSE At("wait") \ {t}
    BY Moves
<1>2. t \in At("create") <=> pc[t] = "create"
    BY DEF At
<1>3. IsFiniteSet(At("create")) /\ At("create") \subseteq Thread
    BY ThreadsCounted
<1>4. l # "wait" /\ At("wait") = {} => At("wait")' = {}
    BY <1>1
<1>5. CASE l = "create" /\ pc[t] # "create"
    <2>1. Cardinality(At("create")') = Cardinality(At("create")) + 1
        BY <1>1, <1>2, <1>3, <1>5, FS_AddElement
    <2>2. At("create")' \subseteq Thread
        BY <1>1, <1>3
    <2>3. Cardinality(At("create")') <= N
        BY <2>2, ThreadAssumption, FS_Subset DEF N
    <2> QED
        BY <1>4, <1>5, <2>1, <2>3
<1>6. CASE l # "create" /\ pc[t] = "create"
    <2>1. Cardinality(At("create")') = Cardinality(At("create")) - 1
        BY <1>1, <1>2, <1>3, <1>6, FS_RemoveElement
    <2> QED
        BY <1>4, <1>6, <2>1
<1>7. CASE l # "create" /\ pc[t] # "create"
    BY <1>1, <1>2, <1>4, <1>7
<1> QED
    BY <1>4, <1>5, <1>6, <1>7

=============================================================================
