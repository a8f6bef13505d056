------------------------ MODULE ReconciliationProofs ------------------------
(***************************************************************************)
(* Proofs about Reconciliation, for any set of rows and any number of      *)
(* concurrent runs, uploads and crashes, and about AutoSync, the daily     *)
(* synchronisation on top of it; then about CertificateSearch, the readers *)
(* of what is stored and published, for any stores, queries and pages.     *)
(***************************************************************************)
EXTENDS AutoSync, CertificateSearch, FiniteSetTheorems, WellFoundedInduction, TLAPS

-----------------------------------------------------------------------------
(* The inductive invariant: the types, what is known of each run and of    *)
(* each row.  Each part is about one run or one row, so a step of a run or *)
(* an upload can only disturb its own part.                                *)

\* What a run knows of the row in hand: the parents it has seen created and
\* the entry it has seen added are there, whoever else writes meanwhile.
HandOK(r, c) ==
    /\ run[r].pc = "org" => Country(c) \in containers
    /\ run[r].pc = "add" => {Country(c), Org(c)} \subseteq containers
    /\ run[r].pc = "mark" => Dn(c) \in entries
    /\ run[r].pc \in {"mark", "log"} /\ run[r].good /\ ~run[r].dry => Dn(c) \in entries

\* A run works in one of three phases; only real runs write, and their
\* outcome is reset before the first write; the rows it holds are inserted
\* ones; its summary row says whether it is dry; its log is truthful.
RunnerOK(r) ==
    /\ run[r].pc \notin {"idle", "finish"} => run[r].phase \in 1..3
    /\ run[r].pc \in {"country", "org", "add", "mark"} => ~run[r].dry
    /\ run[r].pc \in {"country", "org", "add"} => ~run[r].good
    /\ \A c \in run[r].todo \cup run[r].work : db[c] # "fresh"
    /\ \A c \in First(run[r].work) : HandOK(r, c)
    /\ run[r].pc # "idle" => summary[r].dry = run[r].dry
    /\ \A c \in Row : <<c, "SUCCESS">> \in log[r] /\ ~summary[r].dry => Dn(c) \in entries

\* A flagged row, and one whose upload is about to flag it, is published; a
\* row being uploaded has been inserted.
RowOK(c) ==
    /\ db[c] = "stored" => Dn(c) \in entries
    /\ upload[c] = "mark" => Dn(c) \in entries
    /\ upload[c] # "none" => db[c] # "fresh"

Inv == TypeOK /\ (\A r \in Runner : RunnerOK(r)) /\ (\A c \in Row : RowOK(c))

-----------------------------------------------------------------------------
(* What the local steps of a run compute.                                  *)

\* Going to the next type keeps the record well formed and holds no phase
\* number once there is no type left.
LEMMA NextPhaseFacts ==
    ASSUME NEW q \in RunState, q.phase \in 1..3
    PROVE  /\ NextPhase(q) \in RunState
           /\ NextPhase(q).dry = q.dry
           /\ NextPhase(q).todo = q.todo /\ NextPhase(q).work = q.work
           /\ NextPhase(q).pc \in {"find", "finish"}
           /\ NextPhase(q).pc = "find" => NextPhase(q).phase \in 1..3
  <1> DEFINE n == NextPhase(q)
  <1>1. /\ q.phase + 1 \in 1..4
        /\ q.phase # 3 => q.phase + 1 \in 1..3
    OBVIOUS
  <1> DEFINE up == q.phase + 1
             pc == IF q.phase = 3 THEN "finish" ELSE "find"
  <1>2. n = [q EXCEPT !.phase = up, !.pc = pc]
    BY DEF NextPhase
  <1>3. up \in 1..4 /\ pc \in RunPc /\ pc \in {"find", "finish"}
    BY <1>1 DEF RunPc
  <1>4. pc = "find" => up \in 1..3
    BY <1>1
  <1> HIDE DEF n, up, pc
  <1>5. n \in RunState /\ n.phase = up /\ n.pc = pc
    BY <1>2, <1>3 DEF RunState
  <1>6. n.dry = q.dry /\ n.todo = q.todo /\ n.work = q.work
    BY <1>2 DEF RunState
  <1> QED BY <1>3, <1>4, <1>5, <1>6 DEF n

\* The head of the processing loop: a dry run goes straight to logging, any
\* other run starts writing with its outcome reset.
LEMMA NextItemFacts ==
    ASSUME NEW q \in RunState, q.phase \in 1..3
    PROVE  /\ NextItem(q) \in RunState
           /\ NextItem(q).dry = q.dry
           /\ NextItem(q).todo = q.todo /\ NextItem(q).work = q.work
           /\ NextItem(q).pc \in {"find", "finish", "log", "country"}
           /\ NextItem(q).pc # "finish" => NextItem(q).phase \in 1..3
           /\ NextItem(q).pc = "country" => ~NextItem(q).dry /\ ~NextItem(q).good
           /\ NextItem(q).pc = "log" => NextItem(q).dry
  <1>1. CASE q.work = {}
    BY <1>1, NextPhaseFacts DEF NextItem
  <1>2. CASE q.work # {}
    BY <1>2 DEF NextItem, RunState, RunPc
  <1> QED BY <1>1, <1>2

\* One search moves at most the row searched from todo to work.
LEMMA SearchedFacts ==
    ASSUME NEW q \in RunState, q.phase \in 1..3, q.pc = "search",
           NEW c \in Row, c \in q.todo, NEW missing \in BOOLEAN
    PROVE  LET n == Searched(q, c, missing)
           IN /\ n \in RunState
              /\ n.dry = q.dry
              /\ n.todo \cup n.work \subseteq q.todo \cup q.work
              /\ n.pc \in {"search", "find", "finish", "log", "country"}
              /\ n.pc # "finish" => n.phase \in 1..3
              /\ n.pc = "country" => ~n.dry /\ ~n.good
              /\ n.pc = "log" => n.dry
  <1> DEFINE s == [q EXCEPT !.todo = q.todo \ {c},
                            !.work = IF missing THEN q.work \cup {c} ELSE q.work]
  <1>1. /\ s \in RunState /\ s.phase = q.phase /\ s.dry = q.dry /\ s.pc = "search"
        /\ s.todo \cup s.work \subseteq q.todo \cup q.work
    BY DEF RunState
  <1>2. Searched(q, c, missing) = IF s.todo = {} THEN NextItem(s) ELSE s
    BY DEF Searched
  <1> HIDE DEF s
  <1>3. CASE s.todo = {}
    BY <1>1, <1>2, <1>3, NextItemFacts
  <1>4. CASE s.todo # {}
    BY <1>1, <1>2, <1>4
  <1> QED BY <1>3, <1>4

\* Finishing a row counts it once and leaves the others in hand.
LEMMA ProcessedFacts ==
    ASSUME NEW q \in RunState, q.phase \in 1..3, NEW c \in Row
    PROVE  LET n == Processed(q, c)
           IN /\ n \in RunState
              /\ n.dry = q.dry
              /\ n.todo = q.todo /\ n.work = q.work \ {c}
              /\ n.pc \in {"find", "finish", "log", "country"}
              /\ n.pc # "finish" => n.phase \in 1..3
              /\ n.pc = "country" => ~n.dry /\ ~n.good
              /\ n.pc = "log" => n.dry
  <1> DEFINE s == [q EXCEPT !.work = q.work \ {c},
                            !.ok = IF q.good THEN q.ok + 1 ELSE q.ok,
                            !.failed = IF q.good THEN q.failed ELSE q.failed + 1]
  <1> DEFINE ok == IF q.good THEN q.ok + 1 ELSE q.ok
             failed == IF q.good THEN q.failed ELSE q.failed + 1
  <1>1. ok \in Nat /\ failed \in Nat
    BY DEF RunState
  <1>2. s = [q EXCEPT !.work = q.work \ {c}, !.ok = ok, !.failed = failed]
    OBVIOUS
  <1>3. Processed(q, c) = NextItem(s)
    BY DEF Processed
  <1> HIDE DEF s, ok, failed
  <1>4. /\ s \in RunState /\ s.phase = q.phase /\ s.dry = q.dry
        /\ s.todo = q.todo /\ s.work = q.work \ {c}
    BY <1>1, <1>2 DEF RunState
  <1> QED BY <1>3, <1>4, NextItemFacts

\* The row in hand is one of the rows of the run.
LEMMA FirstFacts ==
    ASSUME NEW S \in SUBSET Row
    PROVE  First(S) \subseteq S /\ First(S) \subseteq Row
  BY DEF First

\* Both services make a row's o= entry one of those of its country.
LEMMA OrgIsOfCountry ==
    ASSUME NEW c \in Row
    PROVE  Org(c) \in CountryOrgs(c)
  <1>1. Attr[c].type \in RowType
    BY AttrAssumption
  <1>2. Ou(c) \in (IF Tree(c) = "nc-data" THEN {"dsc"} ELSE Ous)
    BY <1>1 DEF Ou, Tree, Ous, RowType
  <1> QED BY <1>2 DEF Org, CountryOrgs

-----------------------------------------------------------------------------
(* What any step leaves alone.  Entries and containers are never removed   *)
(* and an inserted row never becomes fresh again, so what a run or a row   *)
(* has relied on stays true under the steps of all the others.             *)

StoreGrows ==
    /\ entries \subseteq entries'
    /\ containers \subseteq containers'
    /\ \A c \in Row : db[c] # "fresh" => db'[c] # "fresh"

\* A run that does not move keeps what it knows.
LEMMA OtherRunner ==
    ASSUME TypeOK, NEW r \in Runner, RunnerOK(r), StoreGrows,
           run'[r] = run[r], summary'[r] = summary[r], log'[r] = log[r]
    PROVE  RunnerOK(r)'
  <1>1. run[r].todo \cup run[r].work \subseteq Row
    BY DEF TypeOK, RunState
  <1>2. First(run[r].work) \subseteq Row
    BY <1>1, FirstFacts
  <1>3. \A c \in First(run[r].work) : HandOK(r, c)'
    BY DEF RunnerOK, HandOK, StoreGrows, First
  <1>4. \A c \in run[r].todo \cup run[r].work : db'[c] # "fresh"
    BY <1>1 DEF RunnerOK, StoreGrows
  <1>5. \A c \in Row :
            <<c, "SUCCESS">> \in log'[r] /\ ~summary'[r].dry => Dn(c) \in entries'
    BY DEF RunnerOK, StoreGrows
  <1> QED BY <1>3, <1>4, <1>5 DEF RunnerOK, First

\* A step of run r preserves the invariant when it keeps the types, what is
\* known of r itself and the truth of the flags.
LEMMA RunnerMoves ==
    ASSUME Inv, NEW r \in Runner, NEW q, run' = [run EXCEPT ![r] = q],
           upload' = upload, StoreGrows, TypeOK', RunnerOK(r)',
           \A s \in Runner \ {r} : summary'[s] = summary[s] /\ log'[s] = log[s],
           \A c \in Row : db'[c] = "stored" => Dn(c) \in entries'
    PROVE  Inv'
  <1>1. ASSUME NEW s \in Runner, s # r
        PROVE  RunnerOK(s)'
    <2>1. run'[s] = run[s]
      BY <1>1 DEF Inv, TypeOK
    <2> QED BY <1>1, <2>1, OtherRunner DEF Inv
  <1>2. ASSUME NEW c \in Row
        PROVE  RowOK(c)'
    BY DEF Inv, RowOK, StoreGrows
  <1> QED BY <1>1, <1>2 DEF Inv

\* A step of a run that changes only its local state.
LEMMA RunnerMovesQuietly ==
    ASSUME Inv, NEW r \in Runner, NEW q \in RunState, Become(r, q),
           UNCHANGED <<store, summary, log>>,
           q.pc \notin {"idle", "finish"} => q.phase \in 1..3,
           q.pc \in {"country", "org", "add", "mark"} => ~q.dry,
           q.pc \in {"country", "org", "add"} => ~q.good,
           \A c \in q.todo \cup q.work : db[c] # "fresh",
           q.pc \notin {"org", "add", "mark"},
           q.pc = "log" => q.dry \/ ~q.good,
           q.pc # "idle" => q.dry = run[r].dry /\ run[r].pc # "idle"
    PROVE  Inv'
  <1>1. run'[r] = q
    BY DEF Become, Inv, TypeOK
  <1>2. TypeOK'
    BY DEF Become, Inv, TypeOK, store
  <1>3. StoreGrows
    BY DEF StoreGrows, store
  <1>4. \A c \in First(q.work) : HandOK(r, c)'
    BY <1>1 DEF HandOK
  <1>5. RunnerOK(r)'
    BY <1>1, <1>4 DEF RunnerOK, Inv, store, First
  <1> QED BY <1>2, <1>3, <1>5, RunnerMoves DEF Become, Inv, RowOK, store

\* A step of pkd-management, which never touches the state of a run.
LEMMA ManagementMoves ==
    ASSUME Inv, UNCHANGED <<run, summary, log>>, StoreGrows, TypeOK',
           \A c \in Row : RowOK(c)'
    PROVE  Inv'
  BY OtherRunner DEF Inv

-----------------------------------------------------------------------------
(* Every action preserves the invariant.                                   *)

LEMMA InitInv == Init => Inv
  <1> SUFFICES ASSUME Init PROVE Inv
    OBVIOUS
  <1>1. Idle \in RunState
    BY DEF Idle, RunState, RunPc
  <1>2. TypeOK
    BY <1>1, BoundAssumption DEF Init, TypeOK, RowState, UploadPc, Summary, Verdict
  <1>3. \A r \in Runner : RunnerOK(r)
    BY DEF Init, RunnerOK, Idle, HandOK, First
  <1>4. \A c \in Row : RowOK(c)
    BY DEF Init, RowOK
  <1> QED BY <1>2, <1>3, <1>4 DEF Inv

\* The steps of a run that only read, and the calls that fail.
LEMMA ReadingStepsInv ==
    ASSUME Inv, NEW r \in Runner
    PROVE  /\ Acquire(r) => Inv'
           /\ AcquireFails(r) => Inv'
           /\ Find(r) => Inv'
           /\ FindNothing(r) \/ FindFails(r) => Inv'
           /\ \A c \in Row : Search(r, c) \/ SearchFails(r, c) => Inv'
           /\ WriteFails(r) => Inv'
           /\ FinishFails(r) => Inv'
  <1> DEFINE me == run[r]
  <1>me. me \in RunState /\ RunnerOK(r)
    BY DEF Inv, TypeOK
  <1>idle. Idle \in RunState
    BY DEF Idle, RunState, RunPc
  <1>1. ASSUME Acquire(r) PROVE Inv'
    <2> DEFINE q == [me EXCEPT !.pc = "find"]
    <2>1. q \in RunState /\ q.pc = "find" /\ q.phase = me.phase /\ q.dry = me.dry
          /\ q.todo = me.todo /\ q.work = me.work
      BY <1>me DEF RunState, RunPc
    <2>2. Become(r, q) /\ UNCHANGED <<store, summary, log>> /\ me.pc = "acquire"
      BY <1>1 DEF Acquire, Goto
    <2> HIDE DEF q
    <2> QED BY <1>me, <2>1, <2>2, RunnerMovesQuietly DEF RunnerOK
  <1>2. ASSUME AcquireFails(r) PROVE Inv'
    BY <1>2, <1>idle, RunnerMovesQuietly DEF AcquireFails, Idle
  <1>3. ASSUME Find(r) PROVE Inv'
    <2> DEFINE found == Batch(Unstored(Phases[me.phase]))
               q == [me EXCEPT !.pc = "search", !.todo = found]
    <2>1. found \subseteq Row /\ \A c \in found : db[c] = "unstored"
      BY DEF Batch, Unstored
    <2>2. Become(r, q) /\ UNCHANGED <<store, summary, log>> /\ me.pc = "find"
      BY <1>3 DEF Find
    <2> HIDE DEF found
    <2>3. q \in RunState /\ q.pc = "search" /\ q.phase = me.phase /\ q.dry = me.dry
          /\ q.todo = found /\ q.work = me.work
      BY <1>me, <2>1 DEF RunState, RunPc
    <2> HIDE DEF q
    <2> QED BY <1>me, <2>1, <2>2, <2>3, RunnerMovesQuietly DEF RunnerOK
  <1>4. ASSUME FindNothing(r) \/ FindFails(r) PROVE Inv'
    <2> DEFINE q == NextPhase(me)
    <2>1. Become(r, q) /\ UNCHANGED <<store, summary, log>> /\ me.pc = "find"
      BY <1>4 DEF FindNothing, FindFails
    <2>2. me.phase \in 1..3
      BY <1>me, <2>1 DEF RunnerOK
    <2>3. /\ q \in RunState /\ q.dry = me.dry /\ q.todo = me.todo /\ q.work = me.work
          /\ q.pc \in {"find", "finish"} /\ (q.pc = "find" => q.phase \in 1..3)
      BY <1>me, <2>2, NextPhaseFacts
    <2> HIDE DEF q
    <2> QED BY <1>me, <2>1, <2>3, RunnerMovesQuietly DEF RunnerOK
  <1>5. ASSUME NEW c \in Row, Search(r, c) \/ SearchFails(r, c) PROVE Inv'
    <2>1. PICK missing \in BOOLEAN :
            Become(r, Searched(me, c, missing)) /\ UNCHANGED <<store, summary, log>>
      BY <1>5 DEF Search, SearchFails
    <2>2. me.pc = "search" /\ c \in me.todo
      BY <1>5 DEF Search, SearchFails, First
    <2>3. me.phase \in 1..3
      BY <1>me, <2>2 DEF RunnerOK
    <2> DEFINE q == Searched(me, c, missing)
    <2>4. /\ q \in RunState /\ q.dry = me.dry
          /\ q.todo \cup q.work \subseteq me.todo \cup me.work
          /\ q.pc \in {"search", "find", "finish", "log", "country"}
          /\ q.pc # "finish" => q.phase \in 1..3
          /\ q.pc = "country" => ~q.dry /\ ~q.good
          /\ q.pc = "log" => q.dry
      BY <1>me, <2>2, <2>3, SearchedFacts
    <2>5. Become(r, q)
      BY <2>1
    <2> HIDE DEF q
    <2>6. \A d \in q.todo \cup q.work : db[d] # "fresh"
      BY <1>me, <2>4 DEF RunnerOK
    <2> QED BY <2>1, <2>2, <2>4, <2>5, <2>6, RunnerMovesQuietly
  <1>6. ASSUME WriteFails(r) PROVE Inv'
    <2> DEFINE q == [me EXCEPT !.pc = "log"]
    <2>1. q \in RunState /\ q.pc = "log" /\ q.phase = me.phase /\ q.dry = me.dry
          /\ q.good = me.good /\ q.todo = me.todo /\ q.work = me.work
      BY <1>me DEF RunState, RunPc
    <2>2. /\ Become(r, q) /\ UNCHANGED <<store, summary, log>>
          /\ me.pc \in {"country", "org", "add"}
      BY <1>6 DEF WriteFails, Goto
    <2> HIDE DEF q
    <2> QED BY <1>me, <2>1, <2>2, RunnerMovesQuietly DEF RunnerOK
  <1>7. ASSUME FinishFails(r) PROVE Inv'
    BY <1>7, <1>idle, RunnerMovesQuietly DEF FinishFails, Idle
  <1> QED BY <1>1, <1>2, <1>3, <1>4, <1>5, <1>6, <1>7

\* The steps of a run that write the directory or the database.
LEMMA WritingStepsInv ==
    ASSUME Inv, NEW r \in Runner, NEW c \in Row
    PROVE  /\ EnsureCountry(r, c) => Inv'
           /\ EnsureOrg(r, c) => Inv'
           /\ Add(r, c) => Inv'
           /\ Mark(r, c) => Inv'
           /\ MarkFails(r, c) => Inv'
  <1> DEFINE me == run[r]
             at(l) == [me EXCEPT !.pc = l]
  <1>me. me \in RunState /\ RunnerOK(r)
    BY DEF Inv, TypeOK
  <1>at. ASSUME NEW l \in RunPc
         PROVE  /\ at(l) \in RunState /\ at(l).pc = l /\ at(l).phase = me.phase
                /\ at(l).dry = me.dry /\ at(l).good = me.good
                /\ at(l).todo = me.todo /\ at(l).work = me.work
    BY <1>me DEF RunState
  <1>pc. {"org", "add", "mark", "log"} \subseteq RunPc
    BY DEF RunPc
  <1>one. \A d \in First(me.work) : c \in First(me.work) => d = c
    <2>1. First(me.work) \subseteq Nat
      BY <1>me, AttrAssumption DEF RunState, First
    <2> QED BY <2>1 DEF First
  <1>1. ASSUME EnsureCountry(r, c) PROVE Inv'
    <2> DEFINE q == at("org")
    <2>1. /\ run' = [run EXCEPT ![r] = q] /\ UNCHANGED <<upload, crashes>>
          /\ UNCHANGED <<db, entries, summary, log>>
          /\ containers' = containers \cup {Country(c)}
          /\ me.pc = "country" /\ c \in First(me.work)
      BY <1>1 DEF EnsureCountry, Goto, Become
    <2>2. /\ q \in RunState /\ q.pc = "org" /\ q.phase = me.phase /\ q.dry = me.dry
          /\ q.good = me.good /\ q.todo = me.todo /\ q.work = me.work
      BY <1>at, <1>pc
    <2> HIDE DEF q, at
    <2>3. StoreGrows
      BY <2>1 DEF StoreGrows
    <2>4. TypeOK'
      BY <2>1, <2>2 DEF Inv, TypeOK
    <2>5. run'[r] = q
      BY <2>1 DEF Inv, TypeOK
    <2>6. \A d \in First(q.work) : HandOK(r, d)'
      BY <1>one, <2>1, <2>2, <2>5 DEF HandOK
    <2>7. RunnerOK(r)'
      BY <1>me, <2>1, <2>2, <2>5, <2>6 DEF RunnerOK, First
    <2> QED BY <2>1, <2>3, <2>4, <2>7, RunnerMoves DEF Inv, RowOK
  <1>2. ASSUME EnsureOrg(r, c) PROVE Inv'
    <2> DEFINE q == at("add")
    <2>1. /\ run' = [run EXCEPT ![r] = q] /\ UNCHANGED <<upload, crashes>>
          /\ UNCHANGED <<db, entries, summary, log>>
          /\ containers' = containers \cup {Org(c)}
          /\ me.pc = "org" /\ c \in First(me.work) /\ Country(c) \in containers
      BY <1>2 DEF EnsureOrg, Goto, Become
    <2>2. /\ q \in RunState /\ q.pc = "add" /\ q.phase = me.phase /\ q.dry = me.dry
          /\ q.good = me.good /\ q.todo = me.todo /\ q.work = me.work
      BY <1>at, <1>pc
    <2> HIDE DEF q, at
    <2>3. StoreGrows
      BY <2>1 DEF StoreGrows
    <2>4. TypeOK'
      BY <2>1, <2>2, OrgIsOfCountry DEF Inv, TypeOK
    <2>5. run'[r] = q
      BY <2>1 DEF Inv, TypeOK
    <2>6. \A d \in First(q.work) : HandOK(r, d)'
      BY <1>one, <2>1, <2>2, <2>5 DEF HandOK
    <2>7. RunnerOK(r)'
      BY <1>me, <2>1, <2>2, <2>5, <2>6 DEF RunnerOK, First
    <2> QED BY <2>1, <2>3, <2>4, <2>7, RunnerMoves DEF Inv, RowOK
  <1>3. ASSUME Add(r, c) PROVE Inv'
    <2> DEFINE q == [me EXCEPT !.pc = "mark", !.good = TRUE]
    <2>1. /\ run' = [run EXCEPT ![r] = q] /\ UNCHANGED <<upload, crashes>>
          /\ UNCHANGED <<db, containers, summary, log>>
          /\ entries' = entries \cup {Dn(c)}
          /\ me.pc = "add" /\ c \in First(me.work)
      BY <1>3 DEF Add, Become
    <2>2. /\ q \in RunState /\ q.pc = "mark" /\ q.phase = me.phase /\ q.dry = me.dry
          /\ q.good = TRUE /\ q.todo = me.todo /\ q.work = me.work
      BY <1>me, <1>pc DEF RunState
    <2> HIDE DEF q, at
    <2>3. StoreGrows
      BY <2>1 DEF StoreGrows
    <2>4. TypeOK'
      BY <2>1, <2>2 DEF Inv, TypeOK
    <2>5. run'[r] = q
      BY <2>1 DEF Inv, TypeOK
    <2>6. \A d \in First(q.work) : HandOK(r, d)'
      BY <1>one, <2>1, <2>2, <2>5 DEF HandOK
    <2>7. RunnerOK(r)'
      BY <1>me, <2>1, <2>2, <2>5, <2>6 DEF RunnerOK, First
    <2> QED BY <2>1, <2>3, <2>4, <2>7, RunnerMoves DEF Inv, RowOK
  <1>4. ASSUME Mark(r, c) \/ MarkFails(r, c) PROVE Inv'
    <2> DEFINE q == at("log")
    <2>1. /\ run' = [run EXCEPT ![r] = q] /\ UNCHANGED <<upload, crashes>>
          /\ UNCHANGED <<entries, containers, summary, log>>
          /\ db' = [db EXCEPT ![c] = "stored"] \/ db' = db
          /\ me.pc = "mark" /\ c \in First(me.work)
      BY <1>4 DEF Mark, MarkFails, Goto, Become, store
    <2>2. /\ q \in RunState /\ q.pc = "log" /\ q.phase = me.phase /\ q.dry = me.dry
          /\ q.good = me.good /\ q.todo = me.todo /\ q.work = me.work
      BY <1>at, <1>pc
    <2> HIDE DEF q, at
    <2>3. StoreGrows
      BY <2>1 DEF StoreGrows, Inv, TypeOK
    <2>4. TypeOK'
      BY <2>1, <2>2 DEF Inv, TypeOK, RowState
    <2>5. run'[r] = q
      BY <2>1 DEF Inv, TypeOK
    <2>6. Dn(c) \in entries
      BY <1>me, <2>1 DEF RunnerOK, HandOK
    <2>7. \A d \in First(q.work) : HandOK(r, d)'
      BY <1>one, <2>1, <2>2, <2>5, <2>6 DEF HandOK
    <2>8. RunnerOK(r)'
      BY <1>me, <2>1, <2>2, <2>3, <2>5, <2>7, FirstFacts
      DEF RunnerOK, First, StoreGrows, RunState
    <2>9. \A d \in Row : db'[d] = "stored" => Dn(d) \in entries'
      BY <2>1, <2>6 DEF Inv, RowOK, TypeOK
    <2> QED BY <2>1, <2>3, <2>4, <2>8, <2>9, RunnerMoves DEF Inv
  <1> QED BY <1>1, <1>2, <1>3, <1>4

\* The steps of a run that write its summary and its log.
LEMMA ReportingStepsInv ==
    ASSUME Inv, NEW r \in Runner
    PROVE  /\ \A dry \in BOOLEAN : StartRun(r, dry) => Inv'
           /\ \A c \in Row, written \in BOOLEAN : Record(r, c, written) => Inv'
           /\ Finish(r) => Inv'
  <1> DEFINE me == run[r]
  <1>me. me \in RunState /\ RunnerOK(r)
    BY DEF Inv, TypeOK
  <1>idle. Idle \in RunState
    BY DEF Idle, RunState, RunPc
  <1>1. ASSUME NEW dry \in BOOLEAN, StartRun(r, dry) PROVE Inv'
    <2> DEFINE q == [Idle EXCEPT !.pc = "acquire", !.dry = dry]
    <2>1. /\ run' = [run EXCEPT ![r] = q] /\ UNCHANGED <<upload, crashes, store>>
          /\ summary' = [summary EXCEPT ![r] =
                [status |-> "IN_PROGRESS", dry |-> dry, ok |-> 0, failed |-> 0]]
          /\ log' = [log EXCEPT ![r] = {}]
      BY <1>1 DEF StartRun, Become
    <2>2. /\ q \in RunState /\ q.pc = "acquire" /\ q.phase = 1 /\ q.dry = dry
          /\ q.todo = {} /\ q.work = {}
      <3>1. Idle.phase = 1 /\ Idle.todo = {} /\ Idle.work = {}
        BY DEF Idle
      <3> QED BY <1>idle, <3>1 DEF RunState, RunPc
    <2> HIDE DEF q
    <2>3. TypeOK'
      BY <2>1, <2>2 DEF Inv, TypeOK, Summary, Verdict, store
    <2>4. run'[r] = q /\ summary'[r].dry = dry /\ log'[r] = {}
      BY <2>1 DEF Inv, TypeOK
    <2>5. RunnerOK(r)'
      BY <2>1, <2>2, <2>4 DEF RunnerOK, First
    <2>6. \A s \in Runner \ {r} : summary'[s] = summary[s] /\ log'[s] = log[s]
      BY <2>1 DEF Inv, TypeOK
    <2>7. StoreGrows /\ \A d \in Row : db'[d] = "stored" => Dn(d) \in entries'
      BY <2>1 DEF StoreGrows, store, Inv, RowOK
    <2> QED BY <2>1, <2>3, <2>5, <2>6, <2>7, RunnerMoves
  <1>2. ASSUME NEW c \in Row, NEW written \in BOOLEAN, Record(r, c, written)
        PROVE  Inv'
    <2> DEFINE q == Processed(me, c)
               row == <<c, IF me.good THEN "SUCCESS" ELSE "FAILED">>
    <2>1. /\ run' = [run EXCEPT ![r] = q] /\ UNCHANGED <<upload, crashes, store, summary>>
          /\ log' = [log EXCEPT ![r] = @ \cup {row}] \/ log' = log
          /\ me.pc = "log" /\ c \in First(me.work)
      BY <1>2 DEF Record, Become
    <2>2. me.phase \in 1..3
      BY <1>me, <2>1 DEF RunnerOK
    <2>3. /\ q \in RunState /\ q.dry = me.dry
          /\ q.todo = me.todo /\ q.work = me.work \ {c}
          /\ q.pc \in {"find", "finish", "log", "country"}
          /\ q.pc # "finish" => q.phase \in 1..3
          /\ q.pc = "country" => ~q.dry /\ ~q.good
          /\ q.pc = "log" => q.dry
      BY <1>me, <2>2, ProcessedFacts
    <2>4. row \in LogRow
      BY DEF LogRow
    <2>5. me.good /\ ~me.dry => Dn(c) \in entries
      BY <1>me, <2>1 DEF RunnerOK, HandOK
    <2> HIDE DEF q
    <2>6. TypeOK'
      <3> HIDE DEF row
      <3> QED BY <2>1, <2>3, <2>4 DEF Inv, TypeOK, store
    <2>7. run'[r] = q
      BY <2>1 DEF Inv, TypeOK
    <2>8. \A d \in Row : <<d, "SUCCESS">> \in log'[r] =>
              <<d, "SUCCESS">> \in log[r] \/ (d = c /\ me.good)
      BY <2>1 DEF Inv, TypeOK
    <2>9. \A d \in Row : <<d, "SUCCESS">> \in log'[r] /\ ~summary'[r].dry
              => Dn(d) \in entries'
      <3> HIDE DEF row
      <3> QED BY <1>me, <2>1, <2>5, <2>8 DEF RunnerOK, store
    <2>10. \A d \in First(q.work) : HandOK(r, d)'
      BY <2>3, <2>7 DEF HandOK
    <2>11. RunnerOK(r)'
      <3> HIDE DEF row
      <3> QED BY <1>me, <2>1, <2>3, <2>7, <2>9, <2>10 DEF RunnerOK, First, store
    <2>12. \A s \in Runner \ {r} : summary'[s] = summary[s] /\ log'[s] = log[s]
      <3> HIDE DEF row
      <3> QED BY <2>1 DEF Inv, TypeOK
    <2>13. StoreGrows /\ \A d \in Row : db'[d] = "stored" => Dn(d) \in entries'
      BY <2>1 DEF StoreGrows, store, Inv, RowOK
    <2> HIDE DEF row
    <2> QED BY <2>1, <2>6, <2>11, <2>12, <2>13, RunnerMoves
  <1>3. ASSUME Finish(r) PROVE Inv'
    <2> DEFINE outcome == [status |-> Outcome(me), dry |-> me.dry,
                           ok |-> me.ok, failed |-> me.failed]
    <2>1. /\ run' = [run EXCEPT ![r] = Idle] /\ UNCHANGED <<upload, crashes, store, log>>
          /\ summary' = [summary EXCEPT ![r] = outcome] /\ me.pc = "finish"
      BY <1>3 DEF Finish, Become
    <2>2. outcome \in Summary /\ outcome.dry = me.dry
      BY <1>me DEF Summary, Verdict, Outcome, RunState
    <2>3. me.dry = summary[r].dry
      BY <1>me, <2>1 DEF RunnerOK
    <2> HIDE DEF outcome
    <2>4. TypeOK'
      BY <1>idle, <2>1, <2>2 DEF Inv, TypeOK, store
    <2>5. run'[r] = Idle /\ summary'[r] = outcome /\ log'[r] = log[r]
      BY <2>1 DEF Inv, TypeOK
    <2>6. RunnerOK(r)'
      BY <1>me, <2>1, <2>2, <2>3, <2>5 DEF RunnerOK, Idle, First, store
    <2>7. \A s \in Runner \ {r} : summary'[s] = summary[s] /\ log'[s] = log[s]
      BY <2>1 DEF Inv, TypeOK
    <2>8. StoreGrows /\ \A d \in Row : db'[d] = "stored" => Dn(d) \in entries'
      BY <2>1 DEF StoreGrows, store, Inv, RowOK
    <2> QED BY <2>1, <2>4, <2>6, <2>7, <2>8, RunnerMoves
  <1> QED BY <1>1, <1>2, <1>3

\* A crash of the relay ends every run.
LEMMA RelayCrashInv == ASSUME Inv, RelayCrash PROVE Inv'
  <1>1. Idle \in RunState /\ Idle.pc = "idle" /\ Idle.todo = {} /\ Idle.work = {}
    BY DEF Idle, RunState, RunPc
  <1>2. TypeOK'
    BY <1>1, BoundAssumption DEF RelayCrash, Inv, TypeOK, store
  <1>3. ASSUME NEW r \in Runner PROVE RunnerOK(r)'
    <2>1. run'[r] = Idle
      BY DEF RelayCrash
    <2> QED BY <1>1, <2>1 DEF RelayCrash, Inv, RunnerOK, First, store
  <1>4. \A c \in Row : RowOK(c)'
    BY DEF RelayCrash, Inv, RowOK, store
  <1> QED BY <1>2, <1>3, <1>4 DEF Inv

\* A crash of pkd-management ends every upload.
LEMMA ManagementCrashInv == ASSUME Inv, ManagementCrash PROVE Inv'
  <1>1. "none" \in UploadPc
    BY DEF UploadPc
  <1>2. TypeOK'
    BY <1>1, BoundAssumption DEF ManagementCrash, Inv, TypeOK, store
  <1>3. StoreGrows /\ \A d \in Row : RowOK(d)'
    BY DEF ManagementCrash, StoreGrows, Inv, TypeOK, RowOK, store
  <1> QED BY <1>2, <1>3, ManagementMoves DEF ManagementCrash

\* The steps of an upload, the end of an upload and its deletion.
LEMMA ManagementInv ==
    ASSUME Inv, NEW c \in Row
    PROVE  /\ StartUpload(c) \/ DeleteUpload(c) => Inv'
           /\ UploadStep(c) => Inv'
           /\ UploadFault(c) => Inv'
  <1> USE DEF UploadGoto, store
  <1>pc. {"none", "country", "create", "orgs", "add", "mark"} = UploadPc
    BY DEF UploadPc
  <1>1. ASSUME NEW ldapUp \in BOOLEAN, Insert(c, ldapUp) PROVE Inv'
    <2>1. TypeOK'
      BY <1>1, <1>pc DEF Insert, Inv, TypeOK, RowState
    <2>2. StoreGrows
      BY <1>1 DEF Insert, StoreGrows, Inv, TypeOK
    <2>3. \A d \in Row : RowOK(d)'
      BY <1>1 DEF Insert, Inv, TypeOK, RowOK
    <2> QED BY <1>1, <2>1, <2>2, <2>3, ManagementMoves DEF Insert
  <1>2. ASSUME InsertDuplicate(c) PROVE Inv'
    <2>1. TypeOK'
      BY <1>2, <1>pc DEF InsertDuplicate, Inv, TypeOK
    <2>2. StoreGrows /\ \A d \in Row : RowOK(d)'
      BY <1>2 DEF InsertDuplicate, StoreGrows, Inv, TypeOK, RowOK, Live
    <2> QED BY <1>2, <2>1, <2>2, ManagementMoves DEF InsertDuplicate
  <1>3. ASSUME DeleteUpload(c) PROVE Inv'
    <2>1. TypeOK'
      BY <1>3 DEF DeleteUpload, Inv, TypeOK, RowState
    <2>2. StoreGrows /\ \A d \in Row : RowOK(d)'
      BY <1>3 DEF DeleteUpload, StoreGrows, Inv, TypeOK, RowOK
    <2> QED BY <1>3, <2>1, <2>2, ManagementMoves DEF DeleteUpload
  <1>4. ASSUME UploadCountry(c) PROVE Inv'
    <2>1. TypeOK'
      BY <1>4, <1>pc DEF UploadCountry, Inv, TypeOK
    <2>2. StoreGrows /\ \A d \in Row : RowOK(d)'
      BY <1>4 DEF UploadCountry, StoreGrows, Inv, TypeOK, RowOK
    <2> QED BY <1>4, <2>1, <2>2, ManagementMoves DEF UploadCountry
  <1>5. ASSUME UploadCreateCountry(c) PROVE Inv'
    <2>1. TypeOK'
      BY <1>5, <1>pc DEF UploadCreateCountry, Inv, TypeOK
    <2>2. StoreGrows /\ \A d \in Row : RowOK(d)'
      BY <1>5 DEF UploadCreateCountry, StoreGrows, Inv, TypeOK, RowOK
    <2> QED BY <1>5, <2>1, <2>2, ManagementMoves DEF UploadCreateCountry
  <1>6. ASSUME UploadOrgs(c) PROVE Inv'
    <2>1. TypeOK'
      BY <1>6, <1>pc DEF UploadOrgs, Inv, TypeOK
    <2>2. StoreGrows /\ \A d \in Row : RowOK(d)'
      BY <1>6 DEF UploadOrgs, StoreGrows, Inv, TypeOK, RowOK
    <2> QED BY <1>6, <2>1, <2>2, ManagementMoves DEF UploadOrgs
  <1>7. ASSUME UploadAdd(c) PROVE Inv'
    <2>1. TypeOK'
      BY <1>7, <1>pc DEF UploadAdd, Inv, TypeOK
    <2>2. StoreGrows /\ \A d \in Row : RowOK(d)'
      BY <1>7 DEF UploadAdd, StoreGrows, Inv, TypeOK, RowOK
    <2> QED BY <1>7, <2>1, <2>2, ManagementMoves DEF UploadAdd
  <1>8. ASSUME UploadMark(c) PROVE Inv'
    <2>1. TypeOK'
      BY <1>8, <1>pc DEF UploadMark, Inv, TypeOK, RowState
    <2>2. StoreGrows /\ \A d \in Row : RowOK(d)'
      BY <1>8 DEF UploadMark, StoreGrows, Inv, TypeOK, RowOK
    <2> QED BY <1>8, <2>1, <2>2, ManagementMoves DEF UploadMark
  <1>9. ASSUME UploadAddRefused(c) \/ UploadFault(c) PROVE Inv'
    <2> USE DEF UploadAddRefused, UploadFault,
            UploadCountryFails, UploadAddFails, UploadMarkFails
    <2>1. UNCHANGED <<db, entries, containers, run, summary, log, crashes>>
      BY <1>9
    <2>2. PICK l \in {"none", "add"} : upload' = [upload EXCEPT ![c] = l]
      BY <1>9
    <2>3. TypeOK'
      BY <1>pc, <2>1, <2>2 DEF Inv, TypeOK
    <2>4. StoreGrows
      BY <2>1 DEF StoreGrows
    <2>5. upload[c] # "none"
      BY <1>9
    <2>6. \A d \in Row : RowOK(d)'
      BY <2>1, <2>2, <2>5 DEF Inv, TypeOK, RowOK
    <2> QED BY <2>1, <2>3, <2>4, <2>6, ManagementMoves
  <1> QED BY <1>1, <1>2, <1>3, <1>4, <1>5, <1>6, <1>7, <1>8, <1>9
          DEF StartUpload, UploadStep

\* The invariant is inductive.
LEMMA NextInv == Inv /\ [Next]_vars => Inv'
  <1> SUFFICES ASSUME Inv, [Next]_vars PROVE Inv'
    OBVIOUS
  <1>1. ASSUME NEW r \in Runner, RunStep(r) \/ RunFault(r) PROVE Inv'
    BY <1>1, ReadingStepsInv, WritingStepsInv, ReportingStepsInv DEF RunStep, RunFault
  <1>2. ASSUME NEW r \in Runner, NEW dry \in BOOLEAN, StartRun(r, dry) PROVE Inv'
    BY <1>2, ReportingStepsInv
  <1>3. ASSUME NEW c \in Row,
               StartUpload(c) \/ UploadStep(c) \/ UploadFault(c) \/ DeleteUpload(c)
        PROVE  Inv'
    BY <1>3, ManagementInv
  <1>4. CASE RelayCrash
    BY <1>4, RelayCrashInv
  <1>5. CASE ManagementCrash
    BY <1>5, ManagementCrashInv
  <1>6. CASE UNCHANGED vars
    <2>1. TypeOK' /\ StoreGrows /\ \A c \in Row : RowOK(c)'
      BY <1>6 DEF vars, Inv, TypeOK, StoreGrows, RowOK
    <2> QED BY <1>6, <2>1, ManagementMoves DEF vars
  <1> QED BY <1>1, <1>2, <1>3, <1>4, <1>5, <1>6 DEF Next

THEOREM InvHolds == Spec => []Inv
  BY InitInv, NextInv, PTL DEF Spec

-----------------------------------------------------------------------------
(* The theorems.                                                           *)

\* Every variable of the two services and the two stores keeps its type.
THEOREM TypesHold == Spec => []TypeOK
  <1>1. Inv => TypeOK
    BY DEF Inv
  <1> QED BY <1>1, InvHolds, PTL

\* However the runs and uploads interleave, whatever fails and whoever
\* crashes, a row flagged stored_in_ldap has its entry in the directory:
\* the flag is set only by someone who has seen the entry added, and no
\* entry is ever removed.
THEOREM FlagsAreTrue == Spec => []StoredIsPublished
  <1>1. Inv => StoredIsPublished
    BY DEF Inv, RowOK, StoredIsPublished
  <1> QED BY <1>1, InvHolds, PTL

\* ensureParentDnExists leaves both parents in place until the add.
THEOREM ParentsAreReady == Spec => []ParentsReady
  <1>1. Inv => ParentsReady
    BY DEF Inv, RunnerOK, HandOK, ParentsReady
  <1> QED BY <1>1, InvHolds, PTL

\* A reconciliation_log row that reports an addition is about an entry that
\* is in the directory.
THEOREM LogsAreTruthful == Spec => []LogIsTruthful
  <1>1. Inv => LogIsTruthful
    BY DEF Inv, RunnerOK, LogIsTruthful
  <1> QED BY <1>1, InvHolds, PTL

\* A dry run changes neither store: the steps that write belong to runs that
\* are not dry, whatever the other runs and uploads do meanwhile.
THEOREM DryRunsAreHarmless == Spec => DryRunChangesNothing
  <1> DEFINE Harmless == \A r \in Runner :
        (run[r].dry /\ run[r].pc # "idle" /\ run'[r] # run[r]) => UNCHANGED store
  <1>1. Inv /\ [Next]_vars => [Harmless]_vars
    <2> SUFFICES ASSUME Inv, Next, NEW r \in Runner,
                        run[r].dry, run[r].pc # "idle", run'[r] # run[r]
                 PROVE  UNCHANGED store
      OBVIOUS
    <2>1. \A s \in Runner \ {r} : \A q : run' # [run EXCEPT ![s] = q]
      BY DEF Inv, TypeOK
    <2>2. run' # run
      OBVIOUS
    <2>3. run[r].pc \notin {"country", "org", "add", "mark"}
      BY DEF Inv, RunnerOK
    <2>4. ASSUME NEW s \in Runner, RunStep(s) \/ RunFault(s) PROVE UNCHANGED store
      <3>1. s = r
        BY <2>1, <2>4 DEF RunStep, RunFault, Acquire, AcquireFails, Find, FindNothing,
             FindFails, Search, SearchFails, EnsureCountry, EnsureOrg, Add, WriteFails,
             Mark, MarkFails, Record, Finish, FinishFails, Goto, Become
      <3> QED BY <2>3, <2>4, <3>1 DEF RunStep, RunFault, Acquire, AcquireFails, Find,
             FindNothing, FindFails, Search, SearchFails, EnsureCountry, EnsureOrg, Add,
             WriteFails, Mark, MarkFails, Record, Finish, FinishFails
    <2>5. ASSUME NEW s \in Runner, NEW dry \in BOOLEAN, StartRun(s, dry)
          PROVE  UNCHANGED store
      BY <2>5 DEF StartRun
    <2>6. ASSUME NEW c \in Row,
                 StartUpload(c) \/ UploadStep(c) \/ UploadFault(c) \/ DeleteUpload(c)
          PROVE  FALSE
      BY <2>2, <2>6 DEF StartUpload, Insert, InsertDuplicate, UploadStep, UploadCountry,
         UploadCreateCountry, UploadOrgs, UploadAdd, UploadAddRefused, UploadMark,
         UploadFault, UploadCountryFails, UploadAddFails, UploadMarkFails,
         DeleteUpload, UploadGoto
    <2> QED BY <2>4, <2>5, <2>6 DEF Next, RelayCrash, ManagementCrash
  <1> QED BY <1>1, InvHolds, PTL DEF Spec, DryRunChangesNothing

\* Every step of the two services inserts a certificate under the unique
\* index, publishes an inserted row, flags a published one, deletes a live
\* one, or leaves rows and entries alone.
LEMMA StepImplementsStore == Inv /\ [Next]_vars => [Store!Next]_(Store!vars)
  <1> SUFFICES ASSUME Inv, [Next]_vars PROVE Store!Next \/ UNCHANGED <<db, entries>>
    BY DEF Store!vars
  <1> USE DEF store
  <1>1. ASSUME NEW r \in Runner, NEW c \in Row, Add(r, c) PROVE Store!Publish(c)
    <2>1. db[c] # "fresh"
      BY <1>1 DEF Add, First, Inv, RunnerOK
    <2> QED BY <1>1, <2>1 DEF Add, Store!Publish
  <1>2. ASSUME NEW r \in Runner, NEW c \in Row, Mark(r, c)
        PROVE  Store!Flag(c) \/ UNCHANGED <<db, entries>>
    <2>1. Dn(c) \in entries
      BY <1>2 DEF Mark, Inv, RunnerOK, HandOK
    <2>2. CASE db[c] = "unstored"
      BY <1>2, <2>1, <2>2 DEF Mark, Live, Store!Flag
    <2>3. CASE db[c] # "unstored"
      BY <1>2, <2>3 DEF Mark, Live, Inv, TypeOK
    <2> QED BY <2>2, <2>3
  <1>3. ASSUME NEW r \in Runner, RunStep(r) \/ RunFault(r)
        PROVE  Store!Next \/ UNCHANGED <<db, entries>>
    BY <1>1, <1>2, <1>3 DEF RunStep, RunFault, Acquire, AcquireFails, Find, FindNothing,
       FindFails, Search, SearchFails, EnsureCountry, EnsureOrg, WriteFails, MarkFails,
       Record, Finish, FinishFails, Store!Next
  <1>4. ASSUME NEW c \in Row, NEW ldapUp \in BOOLEAN, Insert(c, ldapUp)
        PROVE  Store!Insert(c)
    BY <1>4 DEF Insert, Live, Store!Insert, Store!Live
  <1>5. ASSUME NEW c \in Row, UploadAdd(c) PROVE Store!Publish(c)
    BY <1>5 DEF UploadAdd, UploadGoto, Store!Publish, Inv, RowOK
  <1>6. ASSUME NEW c \in Row, UploadMark(c)
        PROVE  Store!Flag(c) \/ UNCHANGED <<db, entries>>
    <2>1. Dn(c) \in entries
      BY <1>6 DEF UploadMark, Inv, RowOK
    <2>2. CASE db[c] = "unstored"
      BY <1>6, <2>1, <2>2 DEF UploadMark, Live, Store!Flag
    <2>3. CASE db[c] # "unstored"
      BY <1>6, <2>3 DEF UploadMark, Live, Inv, TypeOK
    <2> QED BY <2>2, <2>3
  <1>7. ASSUME NEW c \in Row, DeleteUpload(c) PROVE Store!Delete(c)
    BY <1>7 DEF DeleteUpload, Live, Store!Delete, Store!Live
  <1>8. ASSUME NEW c \in Row,
               StartUpload(c) \/ UploadStep(c) \/ UploadFault(c) \/ DeleteUpload(c)
        PROVE  Store!Next \/ UNCHANGED <<db, entries>>
    BY <1>4, <1>5, <1>6, <1>7, <1>8 DEF StartUpload, InsertDuplicate, UploadStep,
       UploadCountry, UploadCreateCountry, UploadOrgs, UploadAddRefused, UploadFault,
       UploadCountryFails, UploadAddFails, UploadMarkFails, Store!Next
  <1> QED BY <1>3, <1>8 DEF Next, StartRun, RelayCrash, ManagementCrash, vars

\* The two services implement the abstract store: every step inserts a
\* certificate under the unique index, publishes an inserted row, flags a
\* published one, deletes a live one, or leaves rows and entries alone.
THEOREM ServicesImplementStore == Spec => ImplementsStore
  <1>1. Init => Store!Init
    BY DEF Init, Store!Init
  <1> QED BY <1>1, StepImplementsStore, InvHolds, PTL DEF Spec, ImplementsStore, Store!Spec

-----------------------------------------------------------------------------
(* The account of a run: what its counters, its batch and its log say of   *)
(* each other until the summary is written.  A run logs a row at most once *)
(* because the rows of a phase are read once and each phase has a type of  *)
(* its own, so no row in hand and no row of a phase to come is in the log. *)

Unlogged(c, rows) == <<c, "SUCCESS">> \notin rows /\ <<c, "FAILED">> \notin rows

Coming(q) ==
    {j \in 1..3 : j > q.phase \/ (j = q.phase /\ q.pc \in {"acquire", "find"})}

\* Nothing is in hand between two phases; a counter that is 0 has no log rows.
LedgerOK(q, rows) ==
    /\ q.pc # "search" => q.todo = {}
    /\ q.pc \in {"acquire", "find", "finish"} => q.work = {}
    /\ \A c \in q.todo \cup q.work :
          Attr[c].type = Phases[q.phase] /\ Unlogged(c, rows)
    /\ \A c \in Row : \A j \in Coming(q) :
          Attr[c].type = Phases[j] => Unlogged(c, rows)
    /\ \A c \in Row : q.ok = 0 => <<c, "SUCCESS">> \notin rows
    /\ \A c \in Row : q.failed = 0 => <<c, "FAILED">> \notin rows

VerdictOK(outcome, rows) ==
    \A c \in Row :
        /\ outcome = "COMPLETED" => <<c, "FAILED">> \notin rows
        /\ outcome = "FAILED" => <<c, "SUCCESS">> \notin rows
        /\ ~(<<c, "SUCCESS">> \in rows /\ <<c, "FAILED">> \in rows)

AccountOK(r) ==
    /\ run[r].pc # "idle" => summary[r].status = "IN_PROGRESS" /\ LedgerOK(run[r], log[r])
    /\ VerdictOK(summary[r].status, log[r])

Accounts == \A r \in Runner : AccountOK(r)

\* The head of the processing loop keeps the ledger, whether it takes the next
\* row or goes on to the next type.
LEMMA NextItemLedger ==
    ASSUME NEW q \in RunState, q.phase \in 1..3, q.todo = {}, NEW rows,
           \A c \in q.work : Attr[c].type = Phases[q.phase] /\ Unlogged(c, rows),
           \A c \in Row : \A j \in 1..3 :
              j > q.phase /\ Attr[c].type = Phases[j] => Unlogged(c, rows),
           \A c \in Row : q.ok = 0 => <<c, "SUCCESS">> \notin rows,
           \A c \in Row : q.failed = 0 => <<c, "FAILED">> \notin rows
    PROVE  LedgerOK(NextItem(q), rows)
  <1> DEFINE n == NextItem(q)
  <1>1. CASE q.work = {}
    <2>1. n = [q EXCEPT !.phase = q.phase + 1,
                        !.pc = IF q.phase = 3 THEN "finish" ELSE "find"]
      BY <1>1 DEF NextItem, NextPhase
    <2>2. n.phase = q.phase + 1 /\ n.pc # "search"
          /\ n.todo = {} /\ n.work = {} /\ n.ok = q.ok /\ n.failed = q.failed
      BY <1>1, <2>1 DEF RunState
    <2> HIDE DEF n
    <2>3. \A j \in Coming(n) : j \in 1..3 /\ j > q.phase
      BY <2>2 DEF Coming, RunState
    <2> QED BY <2>2, <2>3 DEF LedgerOK, n
  <1>2. CASE q.work # {}
    <2>1. n = [q EXCEPT !.pc = IF q.dry THEN "log" ELSE "country", !.good = q.dry]
      BY <1>2 DEF NextItem
    <2>2. n.phase = q.phase /\ n.pc \in {"log", "country"}
          /\ n.todo = {} /\ n.work = q.work /\ n.ok = q.ok /\ n.failed = q.failed
      BY <2>1 DEF RunState
    <2> HIDE DEF n
    <2>3. \A j \in Coming(n) : j \in 1..3 /\ j > q.phase
      BY <2>2 DEF Coming, RunState
    <2> QED BY <2>2, <2>3 DEF LedgerOK, n
  <1> QED BY <1>1, <1>2

\* Going on to the next type with nothing found keeps the ledger.
LEMMA NextPhaseLedger ==
    ASSUME NEW q \in RunState, q.phase \in 1..3, q.pc = "find", NEW rows, LedgerOK(q, rows)
    PROVE  LedgerOK(NextPhase(q), rows)
  <1>1. q.todo = {} /\ q.work = {}
    BY DEF LedgerOK
  <1>2. NextItem(q) = NextPhase(q)
    BY <1>1 DEF NextItem
  <1>3. \A j \in 1..3 : j > q.phase => j \in Coming(q)
    BY DEF Coming
  <1> QED BY <1>1, <1>2, <1>3, NextItemLedger DEF LedgerOK

\* A search moves a row within the hand.
LEMMA SearchedLedger ==
    ASSUME NEW q \in RunState, q.phase \in 1..3, q.pc = "search",
           NEW c \in q.todo, NEW missing \in BOOLEAN, NEW rows, LedgerOK(q, rows)
    PROVE  LedgerOK(Searched(q, c, missing), rows)
  <1> DEFINE s == [q EXCEPT !.todo = q.todo \ {c},
                            !.work = IF missing THEN q.work \cup {c} ELSE q.work]
  <1>1. /\ s \in RunState /\ s.phase = q.phase /\ s.pc = "search"
        /\ s.todo = q.todo \ {c} /\ s.work \subseteq q.todo \cup q.work
        /\ s.ok = q.ok /\ s.failed = q.failed
    BY DEF RunState
  <1>2. Searched(q, c, missing) = IF s.todo = {} THEN NextItem(s) ELSE s
    BY DEF Searched
  <1> HIDE DEF s
  <1>3. \A d \in s.todo \cup s.work : Attr[d].type = Phases[s.phase] /\ Unlogged(d, rows)
    BY <1>1 DEF LedgerOK
  <1>4. CASE s.todo = {}
    <2>1. \A j \in 1..3 : j > q.phase => j \in Coming(q)
      BY DEF Coming
    <2>2. \A d \in Row : \A j \in 1..3 :
             j > s.phase => (Attr[d].type = Phases[j] => Unlogged(d, rows))
      BY <1>1, <2>1 DEF LedgerOK
    <2>3. /\ \A d \in Row : s.ok = 0 => <<d, "SUCCESS">> \notin rows
          /\ \A d \in Row : s.failed = 0 => <<d, "FAILED">> \notin rows
      BY <1>1 DEF LedgerOK
    <2>4. LedgerOK(NextItem(s), rows)
      BY <1>1, <1>3, <1>4, <2>2, <2>3, NextItemLedger
    <2> QED BY <1>2, <1>4, <2>4
  <1>5. CASE s.todo # {}
    <2>1. Coming(s) = Coming(q)
      BY <1>1 DEF Coming
    <2>2. LedgerOK(s, rows)
      <3>1. /\ \A d \in Row : \A j \in Coming(s) : Attr[d].type = Phases[j] => Unlogged(d, rows)
            /\ \A d \in Row : s.ok = 0 => <<d, "SUCCESS">> \notin rows
            /\ \A d \in Row : s.failed = 0 => <<d, "FAILED">> \notin rows
        BY <1>1, <2>1 DEF LedgerOK
      <3> QED BY <1>1, <1>3, <3>1 DEF LedgerOK
    <2> QED BY <1>2, <1>5, <2>2
  <1> QED BY <1>4, <1>5

\* Logging the row in hand (or failing to) and counting it keeps the ledger:
\* the row leaves the hand and is of no type still to come.
LEMMA ProcessedLedger ==
    ASSUME NEW q \in RunState, q.phase \in 1..3, q.pc = "log",
           NEW c \in Row, c \in q.work, NEW rows, LedgerOK(q, rows),
           NEW more, more \in {rows, rows \cup {<<c, IF q.good THEN "SUCCESS" ELSE "FAILED">>}}
    PROVE  LedgerOK(Processed(q, c), more)
  <1> DEFINE ok == IF q.good THEN q.ok + 1 ELSE q.ok
             failed == IF q.good THEN q.failed ELSE q.failed + 1
             s == [q EXCEPT !.work = q.work \ {c}, !.ok = ok, !.failed = failed]
  <1>1. /\ ok \in Nat /\ failed \in Nat
        /\ q.good => ok # 0 /\ failed = q.failed
        /\ ~q.good => failed # 0 /\ ok = q.ok
    BY DEF RunState
  <1>2. Processed(q, c) = NextItem(s)
    BY DEF Processed
  <1> HIDE DEF ok, failed
  <1>3. /\ s \in RunState /\ s.phase = q.phase /\ s.todo = q.todo /\ s.work = q.work \ {c}
        /\ s.ok = ok /\ s.failed = failed
    BY <1>1 DEF RunState
  <1> HIDE DEF s
  <1>4. \A d : d # c => (Unlogged(d, rows) => Unlogged(d, more))
    BY DEF Unlogged
  <1>5. \A d \in s.work : Attr[d].type = Phases[s.phase] /\ Unlogged(d, more)
    BY <1>3, <1>4 DEF LedgerOK
  <1>6. ASSUME NEW d \in Row, NEW j \in 1..3, j > s.phase, Attr[d].type = Phases[j]
        PROVE  Unlogged(d, more)
    <2>1. j \in Coming(q)
      BY <1>3, <1>6 DEF Coming
    <2>2. Phases[j] # Phases[q.phase]
      BY <1>3, <1>6 DEF Phases
    <2>3. d # c
      BY <1>6, <2>2 DEF LedgerOK
    <2> QED BY <1>4, <1>6, <2>1, <2>3 DEF LedgerOK
  <1>7. \A d \in Row : s.ok = 0 => <<d, "SUCCESS">> \notin more
    BY <1>1, <1>3 DEF LedgerOK
  <1>8. \A d \in Row : s.failed = 0 => <<d, "FAILED">> \notin more
    BY <1>1, <1>3 DEF LedgerOK
  <1>9. s.todo = {}
    BY <1>3 DEF LedgerOK
  <1> QED BY <1>2, <1>3, <1>5, <1>6, <1>7, <1>8, <1>9, NextItemLedger

\* A step of a run that writes neither its summary nor its log.
LEMMA QuietAccounts ==
    ASSUME Inv, Accounts, NEW r \in Runner, NEW q, Become(r, q), UNCHANGED <<summary, log>>,
           q.pc = "idle" \/ (run[r].pc # "idle" /\ LedgerOK(q, log[r]))
    PROVE  Accounts'
  <1>1. run'[r] = q /\ \A s \in Runner \ {r} : run'[s] = run[s]
    BY DEF Become, Inv, TypeOK
  <1> QED BY <1>1 DEF Accounts, AccountOK, VerdictOK

\* A step that writes the summary or the log of one run only.
LEMMA OwnAccount ==
    ASSUME Inv, Accounts, NEW r \in Runner, AccountOK(r)',
           \A s \in Runner \ {r} :
              run'[s] = run[s] /\ summary'[s] = summary[s] /\ log'[s] = log[s]
    PROVE  Accounts'
  BY DEF Accounts, AccountOK, VerdictOK

\* No step of a run breaks the account of that run.
LEMMA RunAccounts ==
    ASSUME Inv, Accounts, NEW r \in Runner
    PROVE  /\ RunStep(r) \/ RunFault(r) => Accounts'
           /\ \A dry \in BOOLEAN : StartRun(r, dry) => Accounts'
  <1> DEFINE me == run[r]
  <1>me. me \in RunState /\ (me.pc \notin {"idle", "finish"} => me.phase \in 1..3)
    BY DEF Inv, TypeOK, RunnerOK
  <1>ok. me.pc # "idle" => LedgerOK(me, log[r])
    BY DEF Accounts, AccountOK
  <1>1. ASSUME Acquire(r) PROVE Accounts'
    <2> DEFINE q == [me EXCEPT !.pc = "find"]
    <2>1. /\ q.pc = "find" /\ q.phase = me.phase /\ q.todo = me.todo /\ q.work = me.work
          /\ q.ok = me.ok /\ q.failed = me.failed
      BY <1>me DEF RunState
    <2>2. Become(r, q) /\ UNCHANGED <<summary, log>> /\ me.pc = "acquire"
      BY <1>1 DEF Acquire, Goto
    <2> HIDE DEF q
    <2>3. LedgerOK(q, log[r])
      BY <1>ok, <2>1, <2>2 DEF LedgerOK, Coming
    <2> QED BY <2>2, <2>3, QuietAccounts
  <1>2. ASSUME AcquireFails(r) \/ FinishFails(r) PROVE Accounts'
    BY <1>2, QuietAccounts DEF AcquireFails, FinishFails, Idle
  <1>3. ASSUME Find(r) PROVE Accounts'
    <2> DEFINE found == Batch(Unstored(Phases[me.phase]))
               q == [me EXCEPT !.pc = "search", !.todo = found]
    <2>1. \A c \in found : c \in Row /\ Attr[c].type = Phases[me.phase]
      BY DEF Batch, Unstored
    <2>2. Become(r, q) /\ UNCHANGED <<summary, log>> /\ me.pc = "find"
      BY <1>3 DEF Find
    <2> HIDE DEF found
    <2>3. /\ q.pc = "search" /\ q.phase = me.phase /\ q.todo = found /\ q.work = me.work
          /\ q.ok = me.ok /\ q.failed = me.failed
      BY <1>me DEF RunState
    <2> HIDE DEF q
    <2>4. me.phase \in Coming(me) /\ Coming(q) \subseteq Coming(me)
      BY <1>me, <2>2, <2>3 DEF Coming
    <2>5. LedgerOK(q, log[r])
      BY <1>ok, <2>1, <2>2, <2>3, <2>4 DEF LedgerOK
    <2> QED BY <2>2, <2>5, QuietAccounts
  <1>4. ASSUME FindNothing(r) \/ FindFails(r) PROVE Accounts'
    <2>1. Become(r, NextPhase(me)) /\ UNCHANGED <<summary, log>> /\ me.pc = "find"
      BY <1>4 DEF FindNothing, FindFails
    <2> QED BY <1>me, <1>ok, <2>1, NextPhaseLedger, QuietAccounts
  <1>5. ASSUME NEW c \in Row, Search(r, c) \/ SearchFails(r, c) PROVE Accounts'
    <2>1. PICK missing \in BOOLEAN :
            Become(r, Searched(me, c, missing)) /\ UNCHANGED <<summary, log>>
      BY <1>5 DEF Search, SearchFails
    <2>2. me.pc = "search" /\ c \in me.todo
      BY <1>5 DEF Search, SearchFails, First
    <2>3. LedgerOK(Searched(me, c, missing), log[r])
      BY <1>me, <1>ok, <2>2, SearchedLedger
    <2> QED BY <2>1, <2>2, <2>3, QuietAccounts
  <1>6. ASSUME WriteFails(r) \/ \E c \in Row : \/ EnsureCountry(r, c) \/ EnsureOrg(r, c)
                                               \/ Add(r, c) \/ Mark(r, c) \/ MarkFails(r, c)
        PROVE  Accounts'
    <2>1. PICK l \in {"org", "add", "mark", "log"}, good \in BOOLEAN :
            Become(r, [me EXCEPT !.pc = l, !.good = good])
      <3>1. \A l : [me EXCEPT !.pc = l] = [me EXCEPT !.pc = l, !.good = me.good]
        BY <1>me DEF RunState
      <3>2. me.good \in BOOLEAN
        BY <1>me DEF RunState
      <3>3. CASE \E c \in Row : Add(r, c)
        BY <3>3 DEF Add
      <3>4. CASE WriteFails(r) \/ \E c \in Row : \/ EnsureCountry(r, c) \/ EnsureOrg(r, c)
                                                 \/ Mark(r, c) \/ MarkFails(r, c)
        <4>1. PICK l \in {"org", "add", "mark", "log"} : Become(r, [me EXCEPT !.pc = l])
          BY <3>4 DEF WriteFails, EnsureCountry, EnsureOrg, Mark, MarkFails, Goto
        <4> QED BY <3>1, <3>2, <4>1
      <3> QED BY <1>6, <3>3, <3>4
    <2> DEFINE q == [me EXCEPT !.pc = l, !.good = good]
    <2>2. /\ q.pc = l /\ q.phase = me.phase /\ q.todo = me.todo /\ q.work = me.work
          /\ q.ok = me.ok /\ q.failed = me.failed
      BY <1>me DEF RunState
    <2>3. me.pc \in {"country", "org", "add", "mark"} /\ UNCHANGED <<summary, log>>
      BY <1>6 DEF WriteFails, EnsureCountry, EnsureOrg, Add, Mark, MarkFails
    <2>4. Become(r, q)
      BY <2>1
    <2> HIDE DEF q
    <2>5. Coming(q) = Coming(me)
      BY <2>2, <2>3 DEF Coming
    <2>6. LedgerOK(q, log[r])
      BY <1>ok, <2>2, <2>3, <2>5 DEF LedgerOK
    <2> QED BY <2>3, <2>4, <2>6, QuietAccounts
  <1>7. ASSUME NEW c \in Row, NEW written \in BOOLEAN, Record(r, c, written) PROVE Accounts'
    <2> DEFINE row == <<c, IF me.good THEN "SUCCESS" ELSE "FAILED">>
               q == Processed(me, c)
    <2>1. /\ run' = [run EXCEPT ![r] = q] /\ UNCHANGED summary
          /\ log' = [log EXCEPT ![r] = @ \cup {row}] \/ log' = log
          /\ me.pc = "log" /\ c \in me.work
      BY <1>7 DEF Record, Become, First
    <2>2. \A s \in Runner \ {r} :
             run'[s] = run[s] /\ summary'[s] = summary[s] /\ log'[s] = log[s]
      BY <2>1 DEF Inv, TypeOK
    <2>3. run'[r] = q /\ log'[r] \in {log[r], log[r] \cup {row}}
      BY <2>1 DEF Inv, TypeOK
    <2>4. LedgerOK(q, log'[r])
      BY <1>me, <1>ok, <2>1, <2>3, ProcessedLedger
    <2>5. summary'[r].status = "IN_PROGRESS"
      BY <2>1 DEF Accounts, AccountOK
    <2>6. VerdictOK("IN_PROGRESS", log'[r])
      <3>1. Unlogged(c, log[r]) /\ VerdictOK("IN_PROGRESS", log[r])
        BY <1>ok, <2>1 DEF LedgerOK, Accounts, AccountOK
      <3>2. \A d, o : <<d, o>> \in log'[r] => <<d, o>> \in log[r] \/ <<d, o>> = row
        BY <2>3
      <3>3. \A d, o : <<d, o>> = row =>
                d = c /\ o = IF me.good THEN "SUCCESS" ELSE "FAILED"
        OBVIOUS
      <3> HIDE DEF q, row
      <3>4. ASSUME NEW d \in Row, <<d, "SUCCESS">> \in log'[r], <<d, "FAILED">> \in log'[r]
            PROVE  FALSE
        <4>1. d = c
          BY <3>1, <3>2, <3>3, <3>4 DEF VerdictOK
        <4>2. <<d, "SUCCESS">> = row /\ <<d, "FAILED">> = row
          BY <3>1, <3>2, <3>4, <4>1 DEF Unlogged
        <4> QED BY <3>3, <4>2
      <3> QED BY <3>4 DEF VerdictOK
    <2>7. AccountOK(r)'
      <3> HIDE DEF q, row
      <3> QED BY <2>3, <2>4, <2>5, <2>6 DEF AccountOK
    <2> QED BY <2>2, <2>7, OwnAccount
  <1>8. ASSUME Finish(r) PROVE Accounts'
    <2>1. /\ run' = [run EXCEPT ![r] = Idle] /\ UNCHANGED log
          /\ summary' = [summary EXCEPT ![r] =
                [status |-> Outcome(me), dry |-> me.dry, ok |-> me.ok, failed |-> me.failed]]
          /\ me.pc = "finish"
      BY <1>8 DEF Finish, Become
    <2>2. run'[r].pc = "idle" /\ summary'[r].status = Outcome(me)
      BY <2>1 DEF Inv, TypeOK, Idle
    <2>3. \A s \in Runner \ {r} :
             run'[s] = run[s] /\ summary'[s] = summary[s] /\ log'[s] = log[s]
      BY <2>1 DEF Inv, TypeOK
    <2>4. VerdictOK("IN_PROGRESS", log[r])
      BY <2>1 DEF Accounts, AccountOK
    <2>5. VerdictOK(Outcome(me), log[r])
      BY <1>ok, <2>1, <2>4 DEF VerdictOK, Outcome, LedgerOK
    <2>6. AccountOK(r)'
      BY <2>1, <2>2, <2>5 DEF AccountOK
    <2> QED BY <2>3, <2>6, OwnAccount
  <1>9. ASSUME NEW dry \in BOOLEAN, StartRun(r, dry) PROVE Accounts'
    <2> DEFINE q == [Idle EXCEPT !.pc = "acquire", !.dry = dry]
    <2>1. /\ run' = [run EXCEPT ![r] = q]
          /\ summary' = [summary EXCEPT ![r] =
                [status |-> "IN_PROGRESS", dry |-> dry, ok |-> 0, failed |-> 0]]
          /\ log' = [log EXCEPT ![r] = {}]
      BY <1>9 DEF StartRun, Become
    <2>2. q.pc = "acquire" /\ q.todo = {} /\ q.work = {}
      BY DEF Idle
    <2> HIDE DEF q
    <2>3. run'[r] = q /\ summary'[r].status = "IN_PROGRESS" /\ log'[r] = {}
      BY <2>1 DEF Inv, TypeOK
    <2>4. \A s \in Runner \ {r} :
             run'[s] = run[s] /\ summary'[s] = summary[s] /\ log'[s] = log[s]
      BY <2>1 DEF Inv, TypeOK
    <2>5. LedgerOK(q, {}) /\ VerdictOK("IN_PROGRESS", {})
      BY <2>2 DEF LedgerOK, VerdictOK, Unlogged
    <2>6. AccountOK(r)'
      BY <2>3, <2>5 DEF AccountOK
    <2> QED BY <2>4, <2>6, OwnAccount
  <1> QED BY <1>1, <1>2, <1>3, <1>4, <1>5, <1>6, <1>7, <1>8, <1>9 DEF RunStep, RunFault

\* The verdict in a finished summary agrees with the rows the run logged,
\* however many runs, uploads and crashes interleave with it, and also when
\* some rows could not be logged: COMPLETED leaves no failure in the log,
\* FAILED no success, and no row is logged both ways.
THEOREM SummariesAgree == Spec => []SummaryAgreesWithLog
  <1>1. Init => Accounts
    BY DEF Init, Accounts, AccountOK, VerdictOK, Idle
  <1>2. Inv /\ Accounts /\ [Next]_vars => Accounts'
    <2> SUFFICES ASSUME Inv, Accounts, [Next]_vars PROVE Accounts'
      OBVIOUS
    <2>1. ASSUME NEW r \in Runner,
                 RunStep(r) \/ RunFault(r) \/ \E dry \in BOOLEAN : StartRun(r, dry)
          PROVE  Accounts'
      BY <2>1, RunAccounts
    <2>2. ASSUME NEW c \in Row,
                 StartUpload(c) \/ UploadStep(c) \/ UploadFault(c) \/ DeleteUpload(c)
          PROVE  UNCHANGED <<run, summary, log>>
      BY <2>2 DEF StartUpload, Insert, InsertDuplicate, UploadStep, UploadCountry,
         UploadCreateCountry, UploadOrgs, UploadAdd, UploadAddRefused, UploadMark,
         UploadFault, UploadCountryFails, UploadAddFails, UploadMarkFails,
         DeleteUpload, UploadGoto
    <2>3. CASE RelayCrash
      <3>1. \A r \in Runner : run'[r].pc = "idle"
        BY <2>3 DEF RelayCrash, Idle
      <3> QED BY <2>3, <3>1 DEF RelayCrash, Accounts, AccountOK
    <2>4. CASE UNCHANGED <<run, summary, log>>
      BY <2>4 DEF Accounts, AccountOK
    <2> QED BY <2>1, <2>2, <2>3, <2>4 DEF Next, ManagementCrash, vars
  <1>3. Accounts => SummaryAgreesWithLog
    BY DEF Accounts, AccountOK, VerdictOK, SummaryAgreesWithLog
  <1> QED BY <1>1, <1>2, <1>3, InvHolds, PTL DEF Spec

-----------------------------------------------------------------------------
(* AutoSync.  The daily synchronisation is a way of running                *)
(* Reconciliation: whatever the check counts and the scheduler decides,    *)
(* each step is a step of Reconciliation or leaves its variables alone.    *)
(* What is proved about Reconciliation therefore holds of the relay with   *)
(* its scheduler.                                                          *)

\* A step of the daily synchronisation is a step of Reconciliation or leaves
\* the stores, the runs and the uploads alone (performSyncCheck only reads).
LEMMA StepsReconcile ==
    ASSUME [AutoNext]_autoVars
    PROVE  [Next]_vars
<1>1. CASE \E reconcile \in BOOLEAN : StartCheck(reconcile)
  BY <1>1 DEF StartCheck
<1>2. CASE CheckStep
  <2>1. CASE CountDb \/ CountData \/ CountNc
    BY <2>1 DEF CountDb, CountData, CountNc, Counted
  <2>2. CASE Report
    BY <2>2 DEF Report
  <2>3. CASE Reconcile
    BY <2>3, SchedulerAssumption DEF Reconcile, Next
  <2> QED BY <1>2, <2>1, <2>2, <2>3 DEF CheckStep
<1>3. CASE CheckFault
  BY <1>3 DEF CheckFault, CountDbFails, CountLdapFails, Counted
<1>4. CASE Other /\ Observed
  BY <1>4 DEF Other, Next
<1>5. CASE RelayCrash /\ check' = NoCheck /\ UNCHANGED verdict
  BY <1>5 DEF Next
<1>6. CASE UNCHANGED autoVars
  BY <1>6 DEF autoVars
<1> QED BY <1>1, <1>2, <1>3, <1>4, <1>5, <1>6 DEF AutoNext

\* The relay with its scheduler, its sync checks and its failed counts behaves
\* as Reconciliation does.
THEOREM AutoImplementsReconciliation == AutoSpec => Spec
<1>1. AutoInit => Init
  BY DEF AutoInit
<1>2. [AutoNext]_autoVars => [Next]_vars
  BY StepsReconcile
<1> QED BY <1>1, <1>2, PTL DEF AutoSpec, Spec

\* The flag stored_in_ldap is trustworthy under the daily synchronisation too:
\* a row that carries it has its entry in the directory.
THEOREM AutoFlagsAreTrue == AutoSpec => []StoredIsPublished
BY AutoImplementsReconciliation, FlagsAreTrue, PTL

-----------------------------------------------------------------------------
(* A sync check that says SYNCED.  While nothing was ever deleted the      *)
(* entries are those of live rows, and an entry has the type of its row;   *)
(* so when the counts agree type by type, every row has its entry.         *)

Inserted == {c \in Row : db[c] # "fresh"}

\* Finitely many rows were inserted, and every entry belongs to one of them.
Placed ==
    /\ IsFiniteSet(Inserted)
    /\ entries \subseteq {Dn(c) : c \in Inserted}

\* What the queries have counted so far is true of stores that stand still.
CountsOK ==
    check.still /\ ~check.failed =>
        /\ check.pc = "db" =>
             \A i \in 1..(check.query - 1) : \A t \in DbQueries[i] : check.db[t] = Rows(t)
        /\ check.pc \in {"data", "nc", "decide"} =>
             \A t \in RowType : check.db[t] = Rows(t)
        /\ check.pc \in {"nc", "decide"} =>
             \A t \in RowType \ {"DSC_NC"} : check.ldap[t] = EntriesOf(t)
        /\ check.pc = "decide" => check.ldap["DSC_NC"] = EntriesOf("DSC_NC")

CheckType ==
    check \in [pc : CheckPc, reconcile : BOOLEAN, query : 1..Len(DbQueries),
               db : [RowType -> Nat], ldap : [RowType -> Nat],
               still : BOOLEAN, failed : BOOLEAN]

CheckInv == CheckType /\ Placed /\ CountsOK /\ verdict \in {"NONE", "SYNCED", "DISCREPANCY"}

\* The entry of a row counts for the type of the row.
LEMMA TypeOfDn == ASSUME NEW c \in Row PROVE TypeOf(Dn(c)) = Attr[c].type
  <1>1. Attr[c].type \in RowType /\ Attr[c].selfSigned \in BOOLEAN
    BY AttrAssumption
  <1>2. Dn(c)[1] = Tree(c) /\ Dn(c)[3] = Ou(c)
    BY DEF Dn
  <1> QED BY <1>1, <1>2 DEF TypeOf, Tree, Ou, RowType

\* As many entries as there are rows, among the entries these rows have: each
\* row has its entry.
LEMMA AsManyAsRows ==
    ASSUME NEW S \in SUBSET Row, IsFiniteSet(S), NEW E, E \subseteq {Dn(c) : c \in S},
           Cardinality(E) = Cardinality(S)
    PROVE  \A c \in S : Dn(c) \in E
  <1> DEFINE T == {Dn(c) : c \in S}
             f == [c \in S |-> Dn(c)]
  <1>1. f \in Surjection(S, T)
    BY DEF Surjection
  <1> HIDE DEF f
  <1>2. IsFiniteSet(T) /\ Cardinality(T) <= Cardinality(S)
    BY <1>1, FS_Surjection
  <1>3. Cardinality(E) <= Cardinality(T) /\ (Cardinality(T) = Cardinality(E) => T = E)
    BY <1>2, FS_Subset
  <1>4. Cardinality(S) \in Nat /\ Cardinality(T) \in Nat /\ Cardinality(E) \in Nat
    BY <1>2, FS_CardinalityType, FS_Subset
  <1>5. T = E
    BY <1>2, <1>3, <1>4
  <1> QED BY <1>5

\* Only finitely many rows and entries of a type are there to be counted.
LEMMA CountsAreNumbers ==
    ASSUME Placed, NEW t
    PROVE  Rows(t) \in Nat /\ EntriesOf(t) \in Nat
  <1> DEFINE live == {c \in Row : Live(c) /\ Attr[c].type = t}
             dns == {dn \in entries : TypeOf(dn) = t}
             all == {Dn(c) : c \in Inserted}
             f == [c \in Inserted |-> Dn(c)]
  <1>1. live \subseteq Inserted
    BY DEF Inserted, Live
  <1>2. IsFiniteSet(live)
    BY <1>1, FS_Subset DEF Placed
  <1>3. f \in Surjection(Inserted, all)
    BY DEF Surjection
  <1> HIDE DEF f
  <1>4. IsFiniteSet(all)
    BY <1>3, FS_Surjection DEF Placed
  <1>5. dns \subseteq all
    BY DEF Placed
  <1>6. IsFiniteSet(dns)
    <2> HIDE DEF dns, all
    <2> QED BY <1>4, <1>5, FS_Subset
  <1>7. Rows(t) = Cardinality(live) /\ EntriesOf(t) = Cardinality(dns)
    BY DEF Rows, EntriesOf
  <1> HIDE DEF live, dns
  <1> QED BY <1>2, <1>6, <1>7, FS_CardinalityType

\* Counts that agree type by type mean that every row is published.
LEMMA AgreeingCounts ==
    ASSUME TypeOK, Placed, NeverDeleted, \A t \in RowType : Rows(t) = EntriesOf(t)
    PROVE  Published
  <1> SUFFICES ASSUME NEW c \in Row, Live(c) PROVE Dn(c) \in entries
    BY DEF Published
  <1> DEFINE t == Attr[c].type
             S == {d \in Row : Live(d) /\ Attr[d].type = t}
             E == {dn \in entries : TypeOf(dn) = t}
  <1>1. S \subseteq Inserted
    BY DEF Inserted, Live
  <1>2. IsFiniteSet(S)
    BY <1>1, FS_Subset DEF Placed
  <1>3. \A d \in Inserted : Live(d)
    BY DEF Inserted, Live, NeverDeleted, TypeOK, RowState
  <1>4. ASSUME NEW dn \in E PROVE \E d \in S : dn = Dn(d)
    <2>1. PICK d \in Inserted : dn = Dn(d)
      BY DEF Placed
    <2>2. d \in Row
      BY DEF Inserted
    <2> QED BY <1>3, <2>1, <2>2, TypeOfDn
  <1>5. E \subseteq {Dn(d) : d \in S}
    BY <1>4
  <1>6. Cardinality(E) = Cardinality(S)
    <2>1. t \in RowType
      BY AttrAssumption
    <2> QED BY <2>1 DEF Rows, EntriesOf
  <1>7. S \in SUBSET Row /\ c \in S
    OBVIOUS
  <1>8. E \subseteq entries
    OBVIOUS
  <1> HIDE DEF S, E
  <1> QED BY <1>2, <1>5, <1>6, <1>7, <1>8, AsManyAsRows

\* One more row at a time, and its entry only after it.
LEMMA PlacedStep ==
    ASSUME TypeOK, Placed, [Store!Next]_(Store!vars)
    PROVE  Placed'
  <1>1. ASSUME NEW c \in Row, Store!Insert(c) PROVE Placed'
    <2>1. Inserted' = Inserted \cup {c} /\ entries' = entries
      BY <1>1 DEF Store!Insert, Inserted, TypeOK
    <2>2. IsFiniteSet(Inserted \cup {c})
      BY FS_AddElement DEF Placed
    <2> QED BY <2>1, <2>2 DEF Placed
  <1>2. ASSUME NEW c \in Row, Store!Publish(c) PROVE Placed'
    BY <1>2 DEF Store!Publish, Inserted, Placed
  <1>3. ASSUME NEW c \in Row, Store!Flag(c) \/ Store!Delete(c) PROVE Placed'
    <2>1. Inserted' = Inserted /\ entries' = entries
      BY <1>3 DEF Store!Flag, Store!Delete, Store!Live, Inserted, TypeOK
    <2> QED BY <2>1 DEF Placed
  <1>4. CASE UNCHANGED Store!vars
    BY <1>4 DEF Store!vars, Inserted, Placed
  <1> QED BY <1>1, <1>2, <1>3, <1>4 DEF Store!Next

\* The stores stand still as long as check.still says so.
LEMMA CountsStand ==
    ASSUME CountsOK, UNCHANGED store, check' = check
    PROVE  CountsOK'
  BY DEF CountsOK, store, Rows, EntriesOf, Live

\* Each query counts its types and leaves the others; nothing is counted twice.
LEMMA CheckStepInv ==
    ASSUME CheckInv, CheckStep \/ CheckFault \/ \E reconcile \in BOOLEAN : StartCheck(reconcile)
    PROVE  CheckType' /\ CountsOK' /\ verdict' \in {"NONE", "SYNCED", "DISCREPANCY"}
  <1> USE DEF CheckInv
  <1>n. \A t : Rows(t) \in Nat /\ EntriesOf(t) \in Nat
    BY CountsAreNumbers
  <1>len. Len(DbQueries) = 4
    BY DEF DbQueries
  <1>no. NoCheck \in [pc : CheckPc, reconcile : BOOLEAN, query : 1..4,
               db : [RowType -> Nat], ldap : [RowType -> Nat],
               still : BOOLEAN, failed : BOOLEAN] /\ NoCheck.pc = "idle"
    BY DEF NoCheck, Zero, CheckPc
  <1>same. UNCHANGED store => \A t : Rows(t)' = Rows(t) /\ EntriesOf(t)' = EntriesOf(t)
    BY DEF store, Rows, EntriesOf, Live
  <1>1. ASSUME NEW reconcile \in BOOLEAN, StartCheck(reconcile)
        PROVE  CheckType' /\ CountsOK' /\ UNCHANGED verdict
    <2> DEFINE n == [NoCheck EXCEPT !.pc = "db", !.reconcile = reconcile]
    <2>1. check' = n /\ UNCHANGED verdict
      BY <1>1 DEF StartCheck
    <2>2. n \in [pc : CheckPc, reconcile : BOOLEAN, query : 1..4,
                 db : [RowType -> Nat], ldap : [RowType -> Nat],
                 still : BOOLEAN, failed : BOOLEAN] /\ n.pc = "db" /\ n.query = 1
      BY <1>no DEF CheckPc, NoCheck
    <2> HIDE DEF n
    <2> QED BY <1>len, <2>1, <2>2 DEF CheckType, CountsOK
  <1>2. ASSUME CountDb PROVE CheckType' /\ CountsOK' /\ UNCHANGED verdict
    <2> DEFINE types == DbQueries[check.query]
               last == check.query = 4
               counted == [t \in RowType |-> IF t \in types THEN Rows(t) ELSE check.db[t]]
               query == IF last THEN 1 ELSE check.query + 1
               pc == IF last THEN "data" ELSE "db"
               n == [check EXCEPT !.db = counted, !.query = query, !.pc = pc]
    <2>1. check.pc = "db" /\ check' = n /\ UNCHANGED <<store, verdict>>
      BY <1>2, <1>len DEF CountDb, Counted, vars, store
    <2>2. check.query \in 1..4 /\ check.db \in [RowType -> Nat]
      BY <1>len DEF CheckType
    <2>3. counted \in [RowType -> Nat] /\ query \in 1..4 /\ pc \in CheckPc
      BY <1>n, <2>2 DEF CheckPc
    <2>4. \A t \in RowType : counted[t] = IF t \in types THEN Rows(t) ELSE check.db[t]
      OBVIOUS
    <2> HIDE DEF counted, query, pc
    <2>5. n \in [pc : CheckPc, reconcile : BOOLEAN, query : 1..4,
                 db : [RowType -> Nat], ldap : [RowType -> Nat],
                 still : BOOLEAN, failed : BOOLEAN]
          /\ n.pc = pc /\ n.query = query /\ n.db = counted
          /\ n.still = check.still /\ n.failed = check.failed
      BY <1>len, <2>3 DEF CheckType
    <2> HIDE DEF n
    <2>6. CASE last
      <3>1. pc = "data" /\ types = {"CRL"}
        BY <2>6 DEF pc, DbQueries
      <3>2. check.still /\ ~check.failed => \A t \in RowType : counted[t] = Rows(t)
        <4>1. check.still /\ ~check.failed =>
                \A t \in DbQueries[1] \cup DbQueries[2] \cup DbQueries[3] : check.db[t] = Rows(t)
          BY <2>1, <2>6 DEF CountsOK
        <4>2. RowType \subseteq types \cup DbQueries[1] \cup DbQueries[2] \cup DbQueries[3]
          BY <3>1 DEF RowType, DbQueries
        <4> QED BY <2>4, <4>1, <4>2
      <3> QED BY <1>len, <1>same, <2>1, <2>5, <3>1, <3>2 DEF CheckType, CountsOK
    <2>7. CASE ~last
      <3>1. pc = "db" /\ query = check.query + 1
        BY <2>7 DEF pc, query
      <3>2. ASSUME check.still, ~check.failed, NEW i \in 1..(query - 1), NEW t \in DbQueries[i]
            PROVE  counted[t] = Rows(t)
        <4>1. t \in RowType
          BY <2>2, <2>7, <3>1 DEF DbQueries, RowType
        <4>2. CASE i = check.query
          BY <2>4, <4>1, <4>2
        <4>3. CASE i # check.query
          <5>1. i \in 1..(check.query - 1)
            BY <2>2, <3>1, <4>3
          <5>2. check.db[t] = Rows(t)
            BY <2>1, <3>2, <5>1 DEF CountsOK
          <5> QED BY <2>4, <4>1, <5>2
        <4> QED BY <4>2, <4>3
      <3> QED BY <1>len, <1>same, <2>1, <2>5, <3>1, <3>2 DEF CheckType, CountsOK
    <2> QED BY <2>1, <2>6, <2>7
  <1>3. ASSUME CheckFault PROVE CheckType' /\ CountsOK' /\ UNCHANGED verdict
    <2>1. check'.failed = TRUE /\ UNCHANGED verdict
      BY <1>3 DEF CheckFault, CountDbFails, CountLdapFails, Counted, CheckType
    <2>2. CheckType'
      <3>1. CASE CountDbFails
        <4>1. check' = [check EXCEPT !.query = 1, !.pc = "data", !.failed = TRUE]
          BY <3>1 DEF CountDbFails, Counted
        <4> DEFINE Checks == [pc : CheckPc, reconcile : BOOLEAN, query : 1..4,
                              db : [RowType -> Nat], ldap : [RowType -> Nat],
                              still : BOOLEAN, failed : BOOLEAN]
        <4>2. check \in Checks
          BY <1>len DEF CheckType
        <4>3. \A q \in 1..4, l \in CheckPc :
                [check EXCEPT !.query = q, !.pc = l, !.failed = TRUE] \in Checks
          BY <4>2
        <4>4. 1 \in 1..4 /\ "data" \in CheckPc
          BY DEF CheckPc
        <4>5. check' \in Checks
          BY <4>1, <4>3, <4>4
        <4> QED BY <1>len, <4>5 DEF CheckType
      <3>2. ASSUME NEW l \in CheckPc, check' = [check EXCEPT !.pc = l, !.failed = TRUE]
            PROVE  CheckType'
        BY <3>2 DEF CheckType
      <3>3. CASE CountLdapFails
        BY <3>2, <3>3 DEF CountLdapFails, Counted, CheckPc
      <3> QED BY <1>3, <3>1, <3>3 DEF CheckFault
    <2> QED BY <2>1, <2>2 DEF CountsOK
  <1>4. ASSUME CountData PROVE CheckType' /\ CountsOK' /\ UNCHANGED verdict
    <2> DEFINE found == [t \in RowType |-> IF t = "DSC_NC" THEN 0 ELSE EntriesOf(t)]
               n == [check EXCEPT !.ldap = found, !.pc = "nc"]
    <2>1. check.pc = "data" /\ check' = n /\ UNCHANGED <<store, verdict>>
      BY <1>4 DEF CountData, Counted, vars, store
    <2>2. found \in [RowType -> Nat] /\ \A t \in RowType \ {"DSC_NC"} : found[t] = EntriesOf(t)
      BY <1>n
    <2> HIDE DEF found
    <2>3. n \in [pc : CheckPc, reconcile : BOOLEAN, query : 1..4,
                 db : [RowType -> Nat], ldap : [RowType -> Nat],
                 still : BOOLEAN, failed : BOOLEAN]
          /\ n.pc = "nc" /\ n.ldap = found /\ n.db = check.db
          /\ n.still = check.still /\ n.failed = check.failed
      BY <1>len, <2>2 DEF CheckType, CheckPc
    <2> HIDE DEF n
    <2> QED BY <1>len, <1>same, <2>1, <2>2, <2>3 DEF CheckType, CountsOK
  <1>5. ASSUME CountNc PROVE CheckType' /\ CountsOK' /\ UNCHANGED verdict
    <2> DEFINE n == [check EXCEPT !.ldap["DSC_NC"] = EntriesOf("DSC_NC"), !.pc = "decide"]
    <2>1. check.pc = "nc" /\ check' = n /\ UNCHANGED <<store, verdict>>
      BY <1>5 DEF CountNc, Counted, vars, store
    <2>2. n \in [pc : CheckPc, reconcile : BOOLEAN, query : 1..4,
                 db : [RowType -> Nat], ldap : [RowType -> Nat],
                 still : BOOLEAN, failed : BOOLEAN]
          /\ n.pc = "decide" /\ n.db = check.db
          /\ n.still = check.still /\ n.failed = check.failed
          /\ n.ldap["DSC_NC"] = EntriesOf("DSC_NC")
          /\ \A t \in RowType \ {"DSC_NC"} : n.ldap[t] = check.ldap[t]
      BY <1>len, <1>n DEF CheckType, CheckPc, RowType
    <2> HIDE DEF n
    <2> QED BY <1>len, <1>same, <2>1, <2>2 DEF CheckType, CountsOK
  <1>6. ASSUME Report \/ Reconcile
        PROVE  CheckType' /\ CountsOK' /\ verdict' \in {"SYNCED", "DISCREPANCY"}
    BY <1>6, <1>no, <1>len DEF Report, Reconcile, Conclude, CheckType, CountsOK
  <1> QED BY <1>1, <1>2, <1>3, <1>4, <1>5, <1>6 DEF CheckStep

\* A check that found no discrepancy counted as many entries as rows, type by
\* type: the summands cannot cancel out, being absolute values.
LEMMA NoDiscrepancy ==
    ASSUME CheckType, Discrepancy = 0
    PROVE  \A t \in RowType : check.db[t] = check.ldap[t]
  <1> DEFINE off(t) == Abs(check.db[t] - check.ldap[t])
  <1>1. \A t \in RowType : check.db[t] \in Nat /\ check.ldap[t] \in Nat
    BY DEF CheckType
  <1>2. \A t \in RowType : off(t) \in Nat /\ (off(t) = 0 => check.db[t] = check.ldap[t])
    BY <1>1 DEF Abs
  <1>3. off("CSCA") + off("MLSC") + off("DSC") + off("DSC_NC") + off("CRL") = 0
    BY DEF Discrepancy
  <1>4. {"CSCA", "MLSC", "DSC", "DSC_NC", "CRL"} = RowType
    BY DEF RowType
  <1> HIDE DEF off
  <1>5. \A t \in RowType : off(t) = 0
    BY <1>2, <1>3, <1>4
  <1> QED BY <1>2, <1>5

THEOREM CheckInvHolds == AutoSpec => []CheckInv
  <1>1. AutoInit => CheckInv
    <2> SUFFICES ASSUME AutoInit PROVE CheckInv
      OBVIOUS
    <2>1. Inserted = {} /\ entries = {}
      BY DEF AutoInit, Init, Inserted
    <2>2. Placed
      BY <2>1, FS_EmptySet DEF Placed
    <2>3. CheckType /\ CountsOK
      BY DEF AutoInit, CheckType, CountsOK, NoCheck, Zero, CheckPc, DbQueries
    <2> QED BY <2>2, <2>3 DEF CheckInv, AutoInit
  <1>2. Inv /\ CheckInv /\ [AutoNext]_autoVars => CheckInv'
    <2> SUFFICES ASSUME Inv, CheckInv, [AutoNext]_autoVars PROVE CheckInv'
      OBVIOUS
    <2>1. Placed'
      BY StepsReconcile, StepImplementsStore, PlacedStep DEF Inv, CheckInv
    <2>2. CASE CheckStep \/ CheckFault \/ \E reconcile \in BOOLEAN : StartCheck(reconcile)
      BY <2>1, <2>2, CheckStepInv DEF CheckInv
    <2>3. CASE Observed
      <3>1. CASE UNCHANGED store
        BY <2>1, <2>3, <3>1, CountsStand DEF Observed, CheckInv, CheckType
      <3>2. CASE ~UNCHANGED store
        <4>1. check' = [check EXCEPT !.still = FALSE] /\ UNCHANGED verdict
          BY <2>3, <3>2 DEF Observed
        <4>2. CheckType' /\ check'.still = FALSE
          BY <4>1 DEF CheckInv, CheckType
        <4> QED BY <2>1, <4>1, <4>2 DEF CheckInv, CountsOK
      <3> QED BY <3>1, <3>2
    <2>4. CASE RelayCrash /\ check' = NoCheck /\ UNCHANGED verdict
      <3>1. CheckType' /\ CountsOK'
        BY <2>4 DEF CheckType, CountsOK, NoCheck, Zero, CheckPc, DbQueries
      <3> QED BY <2>1, <2>4, <3>1 DEF CheckInv
    <2>5. CASE UNCHANGED autoVars
      BY <2>1, <2>5, CountsStand DEF autoVars, vars, store, CheckInv, CheckType
    <2> QED BY <2>2, <2>3, <2>4, <2>5 DEF AutoNext
  <1>3. AutoSpec => []Inv
    BY AutoImplementsReconciliation, InvHolds, PTL
  <1> QED BY <1>1, <1>2, <1>3, PTL DEF AutoSpec

\* Every variable of the daily synchronisation keeps its type: what a check
\* counts are numbers, and its verdict is one of the three of types.h.
THEOREM AutoTypesHold == AutoSpec => []AutoTypeOK
  <1>1. TypeOK /\ CheckInv => AutoTypeOK
    BY DEF CheckInv, CheckType, AutoTypeOK
  <1> QED BY <1>1, CheckInvHolds, AutoImplementsReconciliation, TypesHold, PTL

\* For any rows, any runs and any interleaving with uploads: as long as no row
\* was ever deleted, a check whose queries all succeeded, in stores that stood
\* still, says SYNCED only if every row has its entry in the directory.
THEOREM SyncedVerdictsAreTrue == AutoSpec => []SyncedIsTrue
  <1>1. TypeOK /\ CheckInv => SyncedIsTrue
    <2> SUFFICES ASSUME TypeOK, CheckInv, check.pc = "decide", check.still, ~check.failed,
                        NeverDeleted, Discrepancy = 0
                 PROVE  Published
      BY DEF SyncedIsTrue
    <2>1. \A t \in RowType : check.db[t] = check.ldap[t]
      BY NoDiscrepancy DEF CheckInv
    <2>2. \A t \in RowType : check.db[t] = Rows(t) /\ check.ldap[t] = EntriesOf(t)
      BY DEF CheckInv, CountsOK
    <2>3. \A t \in RowType : Rows(t) = EntriesOf(t)
      BY <2>1, <2>2
    <2> QED BY <2>3, AgreeingCounts DEF CheckInv
  <1> QED BY <1>1, CheckInvHolds, AutoImplementsReconciliation, TypesHold, PTL

-----------------------------------------------------------------------------
(* CertificateSearch: an entry is where its row says.                      *)

Certificates == {c \in StoreItems : c.kind = "cert"}
Ways == {"ldif", "list", "file"}
StoreRow == [item : Certificates, way : Ways, type : {"CSCA", "DSC", "DSC_NC", "MLSC"},
             selfSigned : BOOLEAN, stored : BOOLEAN]
StoreEntry == [item : StoreItems, tree : {"data", "nc-data"}, o : {"csca", "lc", "mlsc", "dsc", "crl", "ml"}]

StoresShape ==
    /\ coming \subseteq StoreItems
    /\ certRows \in Seq(StoreRow) /\ directory \in Seq(StoreEntry)

\* A row says what its way in made of the certificate.
IsClassified(r) == r.type = TypeBy(r.way, r.item)[1] /\ r.selfSigned = isSelfSigned(r.item)
\* The uploader put the entry there, or the relay.
IsPlaced(r, e) ==
    \/ <<e.tree, e.o>> = buildCertificateDnV2(TypeBy(r.way, r.item)[2])
    \/ r.type \in {"CSCA", "DSC"} /\ <<e.tree, e.o>> = buildDn(r)

StoresAgree ==
    /\ \A i \in DOMAIN certRows : IsClassified(certRows[i]) /\ certRows[i].item \notin coming
    /\ \A i, j \in DOMAIN certRows : certRows[i].item = certRows[j].item => i = j
    /\ \A k \in DOMAIN directory : directory[k].item \notin coming
    /\ \A i \in DOMAIN certRows, k \in DOMAIN directory :
           directory[k].item = certRows[i].item => IsPlaced(certRows[i], directory[k])
    /\ \A i \in DOMAIN certRows : certRows[i].stored =>
           \E k \in DOMAIN directory : directory[k].item = certRows[i].item

SearchInv == StoresShape /\ StoresAgree

\* Each way in classifies a certificate as one of the four types.
LEMMA TypesOfRows ==
    ASSUME NEW c \in Certificates, NEW w \in Ways
    PROVE  /\ TypeBy(w, c)[1] \in {"CSCA", "DSC", "DSC_NC", "MLSC"} /\ isSelfSigned(c) \in BOOLEAN
           /\ buildCertificateDnV2(TypeBy(w, c)[2]) \in {"data", "nc-data"} \X {"csca", "lc", "mlsc", "dsc"}
<1>1. isSelfSigned(c) \in BOOLEAN
    BY DEF isSelfSigned
<1>2. LdifType(c) \in {<<"CSCA", "CSCA">>, <<"DSC_NC", "DSC_NC">>, <<"CSCA", "LC">>, <<"DSC", "DSC">>}
    BY DEF LdifType
<1>3. ListType(c) \in {<<"CSCA", "CSCA">>, <<"CSCA", "LC">>}
    BY DEF ListType
<1>4. FileType(c) \in {<<"CSCA", "CSCA">>, <<"CSCA", "LC">>, <<"DSC", "DSC">>, <<"MLSC", "MLSC">>}
    <2>1. detectType(c) \in {"MLSC", "DL_SIGNER", "CSCA", "LINK_CERT", "DSC"}
        BY DEF detectType
    <2> QED
        BY <2>1 DEF FileType
<1>5. TypeBy(w, c) \in {<<"CSCA", "CSCA">>, <<"CSCA", "LC">>, <<"DSC", "DSC">>, <<"MLSC", "MLSC">>,
                        <<"DSC_NC", "DSC_NC">>}
    BY <1>2, <1>3, <1>4 DEF TypeBy, Ways
<1> QED
    BY <1>1, <1>5 DEF buildCertificateDnV2

\* Where the uploader puts an entry, or the relay, the readers look for it.
LEMMA PlacesAgree ==
    ASSUME NEW r \in StoreRow, NEW e \in StoreEntry, IsClassified(r), IsPlaced(r, e)
    PROVE  LET place == <<e.tree, e.o>> IN
           /\ extractCertTypeFromDn(e) = r.type
           /\ \/ ExportFolder(r) = place /\ (r.type # "MLSC" => buildDn(r) = place)
              \/ CaseOnly(r) /\ e.o = "lc"
           /\ checklistPlace(r) = place \/ e.o = "lc"
<1> DEFINE c == r.item
           t == TypeBy(r.way, c)
<1>1. /\ r.type = t[1] /\ r.selfSigned = isSelfSigned(c) /\ r.way \in Ways /\ c \in Certificates
      /\ r.type \in {"CSCA", "DSC", "DSC_NC", "MLSC"}
    BY DEF IsClassified, StoreRow
<1>2. \/ t = <<"CSCA", "CSCA">> /\ isSelfSigned(c)
      \/ t = <<"CSCA", "LC">> /\ (~isSelfSigned(c) \/ (r.way = "ldif" /\ c.names = "case"))
      \/ t \in {<<"DSC", "DSC">>, <<"MLSC", "MLSC">>, <<"DSC_NC", "DSC_NC">>}
    <2>1. c.names \in {"same", "case", "different"}
        BY <1>1 DEF Certificates, StoreItems
    <2>2. CASE r.way = "ldif"
        BY <2>1, <2>2 DEF TypeBy, LdifType, ReadsAsCa, isSelfSigned
    <2>3. CASE r.way = "list"
        BY <2>3 DEF TypeBy, ListType
    <2>4. CASE r.way = "file"
        <3>1. \/ detectType(c) \in {"MLSC", "DL_SIGNER", "DSC"}
              \/ detectType(c) = "CSCA" /\ isSelfSigned(c)
              \/ detectType(c) = "LINK_CERT" /\ ~isSelfSigned(c)
            BY DEF detectType
        <3> QED
            BY <2>4, <3>1 DEF TypeBy, FileType
    <2> QED
        BY <1>1, <2>2, <2>3, <2>4 DEF Ways
<1> HIDE DEF t, c
<1>3. CASE t = <<"CSCA", "CSCA">> /\ isSelfSigned(c)
    <2>1. r.type = "CSCA" /\ r.selfSigned /\ e.tree = "data" /\ e.o = "csca"
        BY <1>1, <1>3 DEF IsPlaced, buildCertificateDnV2, buildDn, t, c
    <2> QED
        BY <2>1 DEF extractCertTypeFromDn, ExportFolder, buildDn, checklistPlace
<1>4. CASE t = <<"CSCA", "LC">> /\ ~isSelfSigned(c)
    <2>1. r.type = "CSCA" /\ ~r.selfSigned /\ e.tree = "data" /\ e.o = "lc"
        BY <1>1, <1>4 DEF IsPlaced, buildCertificateDnV2, buildDn, t, c
    <2> QED
        BY <2>1 DEF extractCertTypeFromDn, ExportFolder, buildDn
<1>5. CASE t = <<"CSCA", "LC">> /\ isSelfSigned(c) /\ r.way = "ldif" /\ c.names = "case"
    <2>1. r.type = "CSCA" /\ r.selfSigned /\ e.tree = "data" /\ e.o \in {"lc", "csca"} /\ CaseOnly(r)
        BY <1>1, <1>5 DEF IsPlaced, buildCertificateDnV2, buildDn, CaseOnly, t, c
    <2> QED
        BY <2>1 DEF extractCertTypeFromDn, ExportFolder, buildDn, checklistPlace
<1>6. CASE t \in {<<"DSC", "DSC">>, <<"MLSC", "MLSC">>, <<"DSC_NC", "DSC_NC">>}
    <2>1. /\ r.type = "DSC" => e.tree = "data" /\ e.o = "dsc"
          /\ r.type = "MLSC" => e.tree = "data" /\ e.o = "mlsc"
          /\ r.type = "DSC_NC" => e.tree = "nc-data" /\ e.o = "dsc"
          /\ r.type \in {"DSC", "MLSC", "DSC_NC"}
        BY <1>1, <1>6 DEF IsPlaced, buildCertificateDnV2, buildDn, t, c
    <2> QED
        BY <2>1 DEF extractCertTypeFromDn, ExportFolder, buildDn, checklistPlace
<1> QED
    BY <1>2, <1>3, <1>4, <1>5, <1>6

\* Readers leave the stores as they are.
LEMMA ReadersKeep ==
    ASSUME SearchInv, UNCHANGED <<coming, certRows, directory>>
    PROVE  SearchInv'
    BY DEF SearchInv, StoresShape, StoresAgree, IsClassified, IsPlaced

\* A row that comes in is classified, and nothing has an entry for it yet.
LEMMA InsertRowKeeps ==
    ASSUME SearchInv, NEW c \in coming, NEW w \in Ways, InsertRow(c, w)
    PROVE  SearchInv'
<1> USE DEF SearchInv
<1> DEFINE row == [item |-> c, way |-> w, type |-> TypeBy(w, c)[1], selfSigned |-> isSelfSigned(c),
                   stored |-> FALSE]
           n == Len(certRows) + 1
<1>1. /\ coming' = coming \ {c} /\ certRows' = Append(certRows, row) /\ directory' = directory
      /\ c \in Certificates
    BY DEF InsertRow, StoresShape, Certificates
<1>2. row \in StoreRow /\ IsClassified(row) /\ row.item = c /\ ~row.stored
    BY <1>1, TypesOfRows DEF StoreRow, IsClassified
<1> HIDE DEF row
<1>3. /\ certRows' \in Seq(StoreRow) /\ DOMAIN certRows' = DOMAIN certRows \cup {n}
      /\ n \notin DOMAIN certRows /\ certRows'[n] = row
      /\ \A i \in DOMAIN certRows : certRows'[i] = certRows[i]
    BY <1>1, <1>2 DEF StoresShape
<1> HIDE DEF n
<1>4. StoresShape'
    BY <1>1, <1>3 DEF StoresShape
<1>5. /\ \A i \in DOMAIN certRows : certRows[i].item # c
      /\ \A k \in DOMAIN directory : directory[k].item # c
    BY DEF StoresAgree
<1>6. StoresAgree'
    BY <1>1, <1>2, <1>3, <1>5 DEF StoresAgree, IsClassified, IsPlaced
<1> QED
    BY <1>4, <1>6

\* A row is flagged, and its entry appended.
LEMMA EntryKeeps ==
    ASSUME SearchInv, NEW i \in DOMAIN certRows, NEW e \in StoreEntry,
           e.item = certRows[i].item, IsPlaced(certRows[i], e),
           certRows' = [certRows EXCEPT ![i].stored = TRUE],
           directory' = Append(directory, e), coming' = coming
    PROVE  SearchInv'
<1> USE DEF SearchInv
<1> DEFINE row == [certRows[i] EXCEPT !.stored = TRUE]
           n == Len(directory) + 1
<1>1. certRows[i] \in StoreRow
    BY DEF StoresShape
<1>2. /\ row \in StoreRow /\ row.item = certRows[i].item /\ row.way = certRows[i].way
      /\ row.type = certRows[i].type /\ row.selfSigned = certRows[i].selfSigned
    BY <1>1 DEF StoreRow
<1>3. certRows' = [certRows EXCEPT ![i] = row]
    BY <1>1 DEF StoresShape
<1> HIDE DEF row
<1>4. /\ certRows' \in Seq(StoreRow) /\ DOMAIN certRows' = DOMAIN certRows
      /\ \A j \in DOMAIN certRows :
            /\ certRows'[j].item = certRows[j].item /\ certRows'[j].way = certRows[j].way
            /\ certRows'[j].type = certRows[j].type /\ certRows'[j].selfSigned = certRows[j].selfSigned
            /\ j # i => certRows'[j] = certRows[j]
    <2>1. certRows' \in Seq(StoreRow) /\ DOMAIN certRows' = DOMAIN certRows
        <3>1. certRows \in Seq(StoreRow)
            BY DEF StoresShape
        <3>2. \A s \in Seq(StoreRow) : \A j \in DOMAIN s : \A x \in StoreRow :
                  [s EXCEPT ![j] = x] \in Seq(StoreRow)
            OBVIOUS
        <3>3. row \in StoreRow
            BY <1>2
        <3>4. [certRows EXCEPT ![i] = row] \in Seq(StoreRow)
            BY <3>1, <3>2, <3>3
        <3>5. DOMAIN [certRows EXCEPT ![i] = row] = DOMAIN certRows
            OBVIOUS
        <3> QED
            BY <1>3, <3>4, <3>5
    <2>2. \A j \in DOMAIN certRows : certRows'[j] = IF j = i THEN row ELSE certRows[j]
        BY <1>3 DEF StoresShape
    <2> QED
        BY <1>2, <2>1, <2>2
<1>5. /\ directory' \in Seq(StoreEntry) /\ DOMAIN directory' = DOMAIN directory \cup {n}
      /\ directory'[n] = e /\ \A k \in DOMAIN directory : directory'[k] = directory[k]
    BY DEF StoresShape
<1> HIDE DEF n
<1>6. StoresShape'
    BY <1>4, <1>5 DEF StoresShape
<1>7. \A j \in DOMAIN certRows, d \in StoreEntry : IsPlaced(certRows[j], d) => IsPlaced(certRows'[j], d)
    BY <1>4 DEF IsPlaced, buildDn
<1>8. \A j \in DOMAIN certRows' : IsClassified(certRows'[j]) /\ certRows'[j].item \notin coming'
    BY <1>4 DEF StoresAgree, IsClassified
<1>9. \A j, k \in DOMAIN certRows' : certRows'[j].item = certRows'[k].item => j = k
    BY <1>4 DEF StoresAgree
<1>10. \A k \in DOMAIN directory' : directory'[k].item \notin coming'
    BY <1>5 DEF StoresAgree
<1>11. \A j \in DOMAIN certRows', k \in DOMAIN directory' :
           directory'[k].item = certRows'[j].item => IsPlaced(certRows'[j], directory'[k])
    <2> SUFFICES ASSUME NEW j \in DOMAIN certRows, NEW k \in DOMAIN directory',
                        directory'[k].item = certRows[j].item
                 PROVE  IsPlaced(certRows[j], directory'[k])
        <3> SUFFICES ASSUME NEW j \in DOMAIN certRows', NEW k \in DOMAIN directory',
                            directory'[k].item = certRows'[j].item
                     PROVE  IsPlaced(certRows'[j], directory'[k])
            OBVIOUS
        <3>1. directory'[k] \in StoreEntry
            BY <1>5
        <3>2. j \in DOMAIN certRows /\ directory'[k].item = certRows[j].item
            BY <1>4
        <3> QED
            BY <1>7, <3>1, <3>2
    <2>1. CASE k \in DOMAIN directory
        BY <1>5, <2>1 DEF StoresAgree
    <2>2. CASE directory'[k] = e
        BY <2>2 DEF StoresAgree
    <2> QED
        BY <1>5, <2>1, <2>2
<1>12. \A j \in DOMAIN certRows' : certRows'[j].stored =>
           \E k \in DOMAIN directory' : directory'[k].item = certRows'[j].item
    <2> SUFFICES ASSUME NEW j \in DOMAIN certRows, certRows'[j].stored
                 PROVE  \E k \in DOMAIN directory' : directory'[k].item = certRows[j].item
        BY <1>4
    <2>1. CASE j = i
        BY <1>5, <2>1
    <2>2. CASE j # i
        BY <1>4, <1>5, <2>2 DEF StoresAgree
    <2> QED
        BY <2>1, <2>2
<1>13. StoresAgree'
    BY <1>8, <1>9, <1>10, <1>11, <1>12 DEF StoresAgree
<1> QED
    BY <1>6, <1>13

\* The uploader or the relay publishes a row.
LEMMA PublishRowKeeps ==
    ASSUME SearchInv, NEW i \in DOMAIN certRows, PublishRow(i) \/ RelayPublish(i)
    PROVE  SearchInv'
<1> DEFINE r == certRows[i]
<1>1. r \in StoreRow /\ IsClassified(r)
    BY DEF SearchInv, StoresShape, StoresAgree
<1>2. r.item \in Certificates /\ r.item \in StoreItems /\ r.way \in Ways
    BY <1>1 DEF StoreRow, Certificates
<1>3. CASE PublishRow(i)
    <2> DEFINE place == buildCertificateDnV2(TypeBy(r.way, r.item)[2])
               e == Entry(r.item, place)
    <2>1. place \in {"data", "nc-data"} \X {"csca", "lc", "mlsc", "dsc"}
        BY <1>2, TypesOfRows
    <2> HIDE DEF place
    <2>2. e \in StoreEntry /\ e.item = r.item /\ <<e.tree, e.o>> = place
        BY <1>2, <2>1 DEF Entry, StoreEntry
    <2>3. IsPlaced(r, e)
        BY <2>2 DEF IsPlaced, place
    <2>4. directory' = Append(directory, e)
        BY <1>3 DEF PublishRow, place
    <2> QED
        BY <1>3, <2>2, <2>3, <2>4, EntryKeeps DEF PublishRow
<1>4. CASE RelayPublish(i)
    <2> DEFINE e == Entry(r.item, buildDn(r))
    <2>1. buildDn(r) \in {"data", "nc-data"} \X {"csca", "lc", "dsc"}
        BY DEF buildDn
    <2>2. e \in StoreEntry /\ e.item = r.item /\ <<e.tree, e.o>> = buildDn(r)
        BY <1>2, <2>1 DEF Entry, StoreEntry
    <2>3. IsPlaced(r, e)
        BY <1>4, <2>2 DEF IsPlaced, RelayPublish
    <2> QED
        BY <1>4, <2>2, <2>3, EntryKeeps DEF RelayPublish
<1> QED
    BY <1>3, <1>4

\* What is no certificate has an entry and no row in certificate.
LEMMA StoreOtherKeeps ==
    ASSUME SearchInv, NEW c \in coming, StoreCrl(c) \/ StoreList(c)
    PROVE  SearchInv'
<1> USE DEF SearchInv
<1> PICK e : e \in {Entry(c, <<"data", "crl">>), Entry(c, <<"data", "ml">>)} /\ directory' = Append(directory, e)
    BY DEF StoreCrl, StoreList
<1> DEFINE n == Len(directory) + 1
<1>1. e \in StoreEntry /\ e.item = c
    BY DEF Entry, StoreEntry, StoresShape
<1>2. coming' = coming \ {c} /\ certRows' = certRows
    BY DEF StoreCrl, StoreList
<1>3. /\ directory' \in Seq(StoreEntry) /\ DOMAIN directory' = DOMAIN directory \cup {n}
      /\ directory'[n] = e /\ \A k \in DOMAIN directory : directory'[k] = directory[k]
    BY <1>1 DEF StoresShape
<1> HIDE DEF n
<1>4. StoresShape'
    BY <1>2, <1>3 DEF StoresShape
<1>5. \A i \in DOMAIN certRows : certRows[i].item # c
    BY DEF StoresAgree
<1>6. StoresAgree'
    BY <1>1, <1>2, <1>3, <1>5 DEF StoresAgree, IsClassified, IsPlaced
<1> QED
    BY <1>4, <1>6

\* Two sequences, one after the other ...
LEMMA Joined ==
    ASSUME NEW S, NEW a \in Seq(S), NEW b \in Seq(S), NEW r, r = a \o b
    PROVE  /\ r \in Seq(S) /\ Len(r) = Len(a) + Len(b)
           /\ \A k \in 1..Len(a) : r[k] = a[k]
           /\ \A k \in 1..Len(b) : r[Len(a) + k] = b[k]
<1>1. r \in Seq(S)
    OBVIOUS
<1>2. Len(r) = Len(a) + Len(b)
    OBVIOUS
<1>3. \A k \in 1..Len(a) : r[k] = a[k]
    OBVIOUS
<1>4. \A k \in 1..Len(b) : r[Len(a) + k] = b[k]
    OBVIOUS
<1> QED
    BY <1>1, <1>2, <1>3, <1>4

\* ... and one without its i-th element.
LEMMA RemovedAt ==
    ASSUME NEW S, NEW s \in Seq(S), NEW i \in 1..Len(s), NEW r, r = RemoveAt(s, i)
    PROVE  /\ r \in Seq(S) /\ DOMAIN r = 1..(Len(s) - 1)
           /\ \A j \in 1..(Len(s) - 1) : r[j] = s[IF j < i THEN j ELSE j + 1]
<1> PICK older : older = SubSeq(s, 1, i - 1)
    OBVIOUS
<1> PICK newer : newer = SubSeq(s, i + 1, Len(s))
    OBVIOUS
<1> PICK n : n = Len(s)
    OBVIOUS
<1>0. n \in Nat /\ i \in 1..n
    OBVIOUS
<1>1. older \in Seq(S) /\ Len(older) = i - 1 /\ \A j \in 1..(i - 1) : older[j] = s[j]
    OBVIOUS
<1>2. newer \in Seq(S) /\ Len(newer) = n - i /\ \A j \in 1..(n - i) : newer[j] = s[j + i]
    OBVIOUS
<1>3. r = older \o newer
    BY DEF RemoveAt
<1>4. /\ r \in Seq(S) /\ Len(r) = (i - 1) + (n - i)
      /\ \A k \in 1..(i - 1) : r[k] = older[k]
      /\ \A k \in 1..(n - i) : r[(i - 1) + k] = newer[k]
    <2>1. /\ r \in Seq(S) /\ Len(r) = Len(older) + Len(newer)
          /\ \A k \in 1..Len(older) : r[k] = older[k]
          /\ \A k \in 1..Len(newer) : r[Len(older) + k] = newer[k]
        <3>1. older \in Seq(S) /\ newer \in Seq(S)
            BY <1>1, <1>2
        <3> QED
            BY ONLY <1>3, <3>1, Joined
    <2> QED
        BY <1>1, <1>2, <2>1
<1>5. Len(r) = n - 1 /\ DOMAIN r = 1..(n - 1)
    BY <1>0, <1>4
<1>6. ASSUME NEW j \in 1..(n - 1), j < i PROVE r[j] = s[j]
    <2>1. j \in 1..(i - 1)
        BY <1>0, <1>6
    <2> QED
        BY <1>1, <1>4, <2>1
<1>7. ASSUME NEW j \in 1..(n - 1), ~(j < i) PROVE r[j] = s[j + 1]
    <2>1. PICK k \in 1..(n - i) : k + i = j + 1 /\ (i - 1) + k = j
        <3>1. j - (i - 1) \in 1..(n - i) /\ (j - (i - 1)) + i = j + 1 /\ (i - 1) + (j - (i - 1)) = j
            BY <1>0, <1>7
        <3> QED
            BY <3>1
    <2>2. r[j] = newer[k]
        BY <1>4, <2>1
    <2> QED
        BY <1>2, <2>1, <2>2
<1> QED
    BY <1>4, <1>5, <1>6, <1>7

\* Entries that have no row are nobody's concern.
LEMMA DeleteRowKeeps ==
    ASSUME SearchInv, NEW i \in DOMAIN certRows, DeleteRow(i)
    PROVE  SearchInv'
<1> USE DEF SearchInv
<1> DEFINE was(j) == IF j < i THEN j ELSE j + 1
<1>1. certRows' = RemoveAt(certRows, i) /\ coming' = coming /\ directory' = directory
    BY DEF DeleteRow, RowsGo
<1>2. certRows \in Seq(StoreRow) /\ Len(certRows) \in Nat /\ i \in 1..Len(certRows)
    BY DEF StoresShape
<1>3. /\ certRows' \in Seq(StoreRow)
      /\ \A j \in DOMAIN certRows' : /\ was(j) \in DOMAIN certRows /\ certRows'[j] = certRows[was(j)]
    BY <1>1, <1>2, RemovedAt
<1>4. \A j, k \in DOMAIN certRows' : was(j) = was(k) => j = k
    BY <1>2, <1>3
<1> HIDE DEF was
<1>5. StoresShape'
    BY <1>1, <1>3 DEF StoresShape
<1>6. StoresAgree'
    BY <1>1, <1>3, <1>4 DEF StoresAgree, IsClassified, IsPlaced
<1> QED
    BY <1>5, <1>6

\* Every step keeps the invariant.
LEMMA SearchSteps == SearchInv /\ [SearchNext]_searchVars => SearchInv'
<1> SUFFICES ASSUME SearchInv, [SearchNext]_searchVars PROVE SearchInv'
    OBVIOUS
<1>1. ASSUME NEW c \in coming, \/ \E w \in Ways : InsertRow(c, w)
                               \/ StoreCrl(c) \/ StoreList(c)
      PROVE SearchInv'
    BY <1>1, InsertRowKeeps, StoreOtherKeeps
<1>2. ASSUME NEW i \in DOMAIN certRows, PublishRow(i) \/ RelayPublish(i) \/ DeleteRow(i) PROVE SearchInv'
    BY <1>2, PublishRowKeeps, DeleteRowKeeps
<1>3. ASSUME NEW i, DeleteCrl(i) PROVE SearchInv'
    BY <1>3, ReadersKeep DEF DeleteCrl, RowsGo
<1>4. ASSUME NEW kind, NEW q, StartWalk(kind, q) PROVE SearchInv'
    BY <1>4, ReadersKeep DEF StartWalk
<1>5. CASE CountPage \/ NextPage \/ WalkFails \/ CrlsUnread
    BY <1>5, ReadersKeep DEF CountPage, NextPage, WalkFails, CrlsUnread
<1>6. ASSUME NEW country, NEW format, StartCountry(country, format) PROVE SearchInv'
    BY <1>6, ReadersKeep DEF StartCountry
<1>7. CASE ZipEntry \/ ZipEntryFails \/ NameFails \/ CloseZip
    BY <1>7, ReadersKeep DEF ZipEntry, ZipEntryFails, NameFails, CloseZip
<1>8. CASE StartExport \/ ExportCrls \/ ListsFound \/ ListsNotFound \/ EndJob \/ UNCHANGED searchVars
    BY <1>8, ReadersKeep DEF StartExport, ExportCrls, ListsFound, ListsNotFound, EndJob, searchVars
<1> QED
    BY <1>1, <1>2, <1>3, <1>4, <1>5, <1>6, <1>7, <1>8 DEF SearchNext, Ways

\* For any certificates, arriving in any way and in any order: the places that the
\* relay, the archive of everything and the checklist work out from a row are where its
\* entry was put, whichever of the two publishers put it there, and the search reads
\* the type of the row off the entry.
THEOREM ReadersFindEntries == SearchSpec => []PathsAgree
<1>1. SearchInit => SearchInv
    BY SearchAssumption DEF SearchInit, SearchInv, StoresShape, StoresAgree
<1>2. ASSUME SearchInv PROVE PathsAgree
    <2> SUFFICES ASSUME NEW i \in DOMAIN certRows, certRows[i].stored,
                        NEW e, e = CHOOSE d \in ToSet(directory) : d.item = certRows[i].item
                 PROVE  LET place == <<e.tree, e.o>> IN
                        /\ extractCertTypeFromDn(e) = certRows[i].type
                        /\ \/ /\ ExportFolder(certRows[i]) = place
                              /\ certRows[i].type # "MLSC" => buildDn(certRows[i]) = place
                           \/ CaseOnly(certRows[i]) /\ e.o = "lc"
                        /\ checklistPlace(certRows[i]) = place \/ e.o = "lc"
        BY DEF PathsAgree
    <2>1. \E d \in ToSet(directory) : d.item = certRows[i].item
        BY <1>2 DEF SearchInv, StoresAgree, ToSet
    <2>2. e \in ToSet(directory) /\ e.item = certRows[i].item
        BY <2>1
    <2>3. e \in StoreEntry /\ IsPlaced(certRows[i], e)
        BY <1>2, <2>2 DEF SearchInv, StoresShape, StoresAgree, ToSet
    <2>4. certRows[i] \in StoreRow /\ IsClassified(certRows[i])
        BY <1>2 DEF SearchInv, StoresShape, StoresAgree
    <2> QED
        BY <2>3, <2>4, PlacesAgree
<1> QED
    BY <1>1, <1>2, SearchSteps, PTL DEF SearchSpec

-----------------------------------------------------------------------------
(* Lemmas about numbers and finite sets.                                  *)

\* Every set of naturals has a least element, and a set that has 0 and with each
\* natural the next one has them all.
LEMMA Least ==
    ASSUME NEW T \in SUBSET Nat, T # {}
    PROVE  \E n \in T : \A m \in T : n <= m
<1> DEFINE R == OpToRel(<, Nat)
<1>1. IsWellFoundedOn(R, Nat)
    BY NatLessThanWellFounded
<1>2. \A m, n \in Nat : <<m, n>> \in R <=> m < n
    BY DEF OpToRel
<1> HIDE DEF R
<1>3. PICK n \in T : \A m \in T : ~ (<<m, n>> \in R)
    BY <1>1, WFMin
<1>4. \A m \in T : m \in Nat /\ n \in Nat /\ ~(m < n)
    BY <1>2, <1>3
<1> QED
    BY <1>4

\* Induction over the naturals, for sets: no operator is a parameter.
LEMMA Induction ==
    ASSUME NEW S, 0 \in S, \A n \in Nat : n \in S => n + 1 \in S
    PROVE  Nat \subseteq S
<1> SUFFICES ASSUME Nat \ S # {} PROVE FALSE
    OBVIOUS
<1>1. PICK n \in Nat \ S : \A m \in Nat \ S : n <= m
    BY Least
<1>2. n # 0 /\ n - 1 \in Nat
    BY <1>1
<1>3. n - 1 \in S
    BY <1>1, <1>2
<1> QED
    BY <1>1, <1>2, <1>3

\* What a finite set is mapped to is finite.
LEMMA ImageIsFinite ==
    ASSUME NEW S, IsFiniteSet(S), NEW f, DOMAIN f = S
    PROVE  IsFiniteSet({f[x] : x \in S})
<1> DEFINE T == {f[x] : x \in S}
           g == [x \in S |-> f[x]]
<1>1. g \in Surjection(S, T)
    BY DEF Surjection
<1> QED
    BY <1>1, FS_Surjection

-----------------------------------------------------------------------------
(* CertificateSearch: the readers. A listing is a set of numbers, a page of *)
(* it those of the next ranks. What was shown has a rank up to the offset,  *)
(* what was there and was not shown has a later one, because a row or an    *)
(* entry keeps its number and newer ones of the directory come after.       *)

\* The rank of a number among others, and what the ones that join them do to it.
LEMMA Ranks ==
    ASSUME NEW K \in SUBSET Int, IsFiniteSet(K)
    PROVE  /\ \A k : Rank(K, k) \in Nat
           /\ \A k \in K : Rank(K, k) \in 1..Cardinality(K)
           /\ \A k, l \in K : k < l => Rank(K, k) < Rank(K, l)
<1> DEFINE Upto(k) == {j \in K : j <= k}
<1>1. Cardinality(K) \in Nat /\ \A k : IsFiniteSet(Upto(k)) /\ Cardinality(Upto(k)) \in Nat /\ Cardinality(Upto(k)) <= Cardinality(K)
    BY FS_Subset, FS_CardinalityType
<1>2. ASSUME NEW k \in K PROVE Cardinality(Upto(k)) # 0
    <2>1. k \in Upto(k)
        OBVIOUS
    <2> HIDE DEF Upto
    <2> QED
        BY <1>1, <2>1, FS_EmptySet
<1>3. ASSUME NEW k \in K, NEW l \in K, k < l PROVE Cardinality(Upto(k)) < Cardinality(Upto(l))
    <2>1. \A j \in K : j \in Int /\ (j <= k => j <= l)
        BY <1>3
    <2>2. Upto(k) \subseteq Upto(l)
        BY <2>1
    <2>3. l \in Upto(l) /\ l \notin Upto(k)
        BY <1>3
    <2> HIDE DEF Upto
    <2> QED
        BY <1>1, <2>2, <2>3, FS_Subset
<1> HIDE DEF Upto
<1>4. \A k : Rank(K, k) = Cardinality(Upto(k))
    BY DEF Rank, Upto
<1> QED
    BY <1>1, <1>2, <1>3, <1>4

\* Numbers that join leave the rank of those before them as it was.
LEMMA RanksGrow ==
    ASSUME NEW L \in SUBSET Int, IsFiniteSet(L), NEW K \in SUBSET L
    PROVE  \A k \in K : /\ Rank(K, k) <= Rank(L, k)
                        /\ (\A l \in L \ K : k < l) => Rank(L, k) = Rank(K, k)
<1> TAKE k \in K
<1> DEFINE A == {j \in K : j <= k}
           B == {j \in L : j <= k}
<1>1. A \subseteq B /\ IsFiniteSet(B)
    BY FS_Subset
<1>2. ASSUME \A l \in L \ K : k < l PROVE A = B
    <2>1. \A l \in L : l <= k => l \in K
        <3> TAKE l \in L
        <3>1. l \in Int /\ k \in Int /\ (l \in L \ K => k < l)
            BY <1>2
        <3> QED
            BY <3>1
    <2> QED
        BY <2>1
<1>3. Cardinality(A) <= Cardinality(B)
    BY <1>1, FS_Subset
<1> QED
    BY <1>2, <1>3 DEF Rank

\* The first m of them.
LEMMA FirstOnes ==
    ASSUME NEW K \in SUBSET Int, IsFiniteSet(K)
    PROVE  \A m \in Nat : m <= Cardinality(K) => /\ IsFiniteSet({k \in K : Rank(K, k) <= m})
                                                 /\ Cardinality({k \in K : Rank(K, k) <= m}) = m
<1> DEFINE Lowest(m) == {k \in K : Rank(K, k) <= m}
           P == {m \in Nat : m <= Cardinality(K) => Cardinality(Lowest(m)) = m}
<1>0. Cardinality(K) \in Nat /\ \A m : IsFiniteSet(Lowest(m)) /\ Lowest(m) \subseteq K
    BY FS_Subset, FS_CardinalityType
<1>1. 0 \in P
    <2>1. \A k \in K : Rank(K, k) \in Nat /\ Rank(K, k) # 0
        BY <1>0, Ranks
    <2>2. Lowest(0) = {}
        <3>1. \A k \in K : ~(Rank(K, k) <= 0)
            BY <2>1
        <3> QED
            BY <3>1
    <2> QED
        BY <2>2, FS_EmptySet
<1>2. ASSUME NEW m \in P, m + 1 <= Cardinality(K) PROVE Cardinality(Lowest(m + 1)) = m + 1
    <2>1. Cardinality(Lowest(m)) = m
        BY <1>0, <1>2
    <2>2. K \ Lowest(m) # {}
        <3>1. Lowest(m) # K
            BY <1>0, <1>2, <2>1
        <3> QED
            BY <1>0, <3>1
    <2>3. PICK k \in K \ Lowest(m) : \A j \in K \ Lowest(m) : Rank(K, k) <= Rank(K, j)
        <3> DEFINE T == {Rank(K, j) : j \in K \ Lowest(m)}
        <3>1. T \in SUBSET Nat /\ T # {}
            BY <2>2, Ranks
        <3>2. PICK n \in T : \A t \in T : n <= t
            BY <3>1, Least
        <3> QED
            BY <3>2
    <2>4. Rank(K, k) = m + 1
        <3>1. {j \in K : j <= k} = Lowest(m) \cup {k}
            <4>1. \A j \in K : Rank(K, j) \in Nat
                BY Ranks
            <4>2. ASSUME NEW j \in K PROVE j <= k <=> j \in Lowest(m) \/ j = k
                <5>1. CASE j < k
                    <6>1. Rank(K, j) < Rank(K, k)
                        BY <5>1, Ranks
                    <6> QED
                        BY <2>3, <4>1, <5>1, <6>1
                <5>2. CASE k < j
                    <6>1. Rank(K, k) < Rank(K, j)
                        BY <5>2, Ranks
                    <6> QED
                        BY <2>3, <4>1, <5>2, <6>1
                <5> QED
                    BY <5>1, <5>2
            <4> QED
                BY <4>2
        <3>2. k \notin Lowest(m)
            BY <2>3
        <3> HIDE DEF Lowest
        <3>3. Cardinality(Lowest(m) \cup {k}) = Cardinality(Lowest(m)) + 1
            BY <1>0, <3>2, FS_AddElement
        <3> QED
            BY <2>1, <3>1, <3>3 DEF Rank
    <2>5. Lowest(m + 1) = Lowest(m) \cup {k}
        <3>1. ASSUME NEW j \in K, Rank(K, j) = m + 1 PROVE j = k
            BY <2>4, <3>1, Ranks
        <3>2. \A j \in K : Rank(K, j) \in Nat
            BY Ranks
        <3> QED
            <4>1. \A j \in K : Rank(K, j) <= m + 1 <=> Rank(K, j) <= m \/ Rank(K, j) = m + 1
                BY <3>2
            <4> QED
                BY <2>4, <3>1, <4>1
    <2>6. k \notin Lowest(m)
        BY <2>3
    <2> HIDE DEF Lowest
    <2> QED
        BY <1>0, <2>1, <2>5, <2>6, FS_AddElement
<1>3. \A m \in Nat : m \in P => m + 1 \in P
    <2> SUFFICES ASSUME NEW m \in P, m + 1 <= Cardinality(K) PROVE Cardinality(Lowest(m + 1)) = m + 1
        OBVIOUS
    <2> QED
        BY <1>2
<1> HIDE DEF P
<1>4. Nat \subseteq P
    BY <1>1, <1>3, Induction
<1> QED
    BY <1>0, <1>4 DEF P

\* A page: what it has, and when it is the last one.
LEMMA Pages ==
    ASSUME NEW K \in SUBSET Int, IsFiniteSet(K), NEW offset \in Nat, NEW limit \in Nat
    PROVE  /\ IsFiniteSet(Slice(K, offset, limit)) /\ Slice(K, offset, limit) \subseteq K
           /\ \A k \in K : k \in Slice(K, offset, limit) <=> Rank(K, k) > offset /\ Rank(K, k) <= offset + limit
           /\ Cardinality(Slice(K, offset, limit)) < limit => \A k \in K : Rank(K, k) <= offset + limit
           /\ offset + limit >= Cardinality(K) => \A k \in K : Rank(K, k) <= offset + limit
<1> DEFINE Lowest(m) == {k \in K : Rank(K, k) <= m}
           page == Slice(K, offset, limit)
<1>1. \A k \in K : k \in page <=> Rank(K, k) > offset /\ Rank(K, k) <= offset + limit
    BY Ranks DEF Slice
<1>2. page \subseteq K
    BY DEF Slice
<1>3. Cardinality(K) \in Nat /\ \A k \in K : Rank(K, k) \in Nat /\ Rank(K, k) <= Cardinality(K)
    BY Ranks, FS_CardinalityType
<1> HIDE DEF page
<1>4. IsFiniteSet(page)
    BY <1>2, FS_Subset
<1>5. ASSUME Cardinality(page) < limit, Cardinality(K) > offset + limit PROVE FALSE
    <2>1. /\ Cardinality(Lowest(offset + limit)) = offset + limit /\ IsFiniteSet(Lowest(offset + limit))
          /\ Cardinality(Lowest(offset)) = offset /\ IsFiniteSet(Lowest(offset))
        BY <1>3, <1>5, FirstOnes
    <2>2. Lowest(offset + limit) \ Lowest(offset) = page /\ Lowest(offset + limit) \cap Lowest(offset) = Lowest(offset)
        <3>1. \A k \in K : /\ Rank(K, k) <= offset => Rank(K, k) <= offset + limit
                           /\ Rank(K, k) > offset <=> ~(Rank(K, k) <= offset)
            BY <1>3
        <3>2. Lowest(offset + limit) \ Lowest(offset) = page
            BY <1>1, <1>2, <3>1
        <3>3. Lowest(offset + limit) \cap Lowest(offset) = Lowest(offset)
            BY <3>1
        <3> QED
            BY <3>2, <3>3
    <2> HIDE DEF Lowest
    <2>3. Cardinality(Lowest(offset + limit) \ Lowest(offset))
          = Cardinality(Lowest(offset + limit)) - Cardinality(Lowest(offset + limit) \cap Lowest(offset))
        BY <2>1, FS_Difference
    <2>4. Cardinality(page) = offset + limit - offset
        <3>1. Cardinality(page) = Cardinality(Lowest(offset + limit)) - Cardinality(Lowest(offset))
            BY <2>2, <2>3
        <3> QED
            BY <2>1, <3>1
    <2> QED
        BY <1>5, <2>4
<1>6. offset + limit >= Cardinality(K) => \A k \in K : Rank(K, k) <= offset + limit
    BY <1>3
<1>7. Cardinality(page) < limit => \A k \in K : Rank(K, k) <= offset + limit
    BY <1>3, <1>5
<1> QED
    BY <1>1, <1>2, <1>4, <1>6, <1>7 DEF page

\* Distinct things for distinct numbers are as many.
LEMMA AsMany ==
    ASSUME NEW S, IsFiniteSet(S), NEW f, \A k, l \in S : f[k] = f[l] => k = l
    PROVE  IsFiniteSet({f[k] : k \in S}) /\ Cardinality({f[k] : k \in S}) = Cardinality(S)
<1> DEFINE T == {f[k] : k \in S}
           g == [k \in S |-> f[k]]
<1>1. g \in Bijection(S, T)
    <2>1. g \in [S -> T] /\ \A a, b \in S : g[a] = g[b] => a = b
        OBVIOUS
    <2>2. \A t \in T : \E s \in S : g[s] = t
        OBVIOUS
    <2> HIDE DEF g, T
    <2> QED
        BY <2>1, <2>2 DEF Bijection, Injection, Surjection, IsInjective
<1>2. ExistsBijection(S, T)
    BY <1>1 DEF ExistsBijection
<1> HIDE DEF T
<1>3. IsFiniteSet(T) /\ Cardinality(T) = Cardinality(S)
    BY <1>2, FS_Bijection
<1> QED
    BY <1>3 DEF T

StoreCrls == {c \in StoreItems : c.kind = "crl"}

\* Every item has an id of its own, one entry, and a row only while that has its entry
\* still to come or has it.
StoresHold ==
    /\ \E U \in Universes : /\ coming \subseteq U
                            /\ \A i \in DOMAIN certRows : certRows[i].item \in U
                            /\ \A k \in DOMAIN directory : directory[k].item \in U
    /\ \A k, l \in DOMAIN directory : directory[k].item = directory[l].item => k = l
    /\ \A i \in DOMAIN certRows : ~certRows[i].stored =>
           \A k \in DOMAIN directory : directory[k].item # certRows[i].item
    /\ crlRows \in Seq(StoreCrls)
    /\ \A i \in DOMAIN crlRows : \E k \in DOMAIN directory : directory[k] = Entry(crlRows[i], <<"data", "crl">>)

\* Items differ in their ids.
LEMMA IdsDiffer ==
    ASSUME StoresHold
    PROVE  \A k, l \in DOMAIN directory : directory[k].item.id = directory[l].item.id => k = l
    BY SearchAssumption DEF StoresHold

\* A sequence with one more.
LEMMA Appended ==
    ASSUME NEW S, NEW s \in Seq(S), NEW x \in S, NEW r, r = Append(s, x)
    PROVE  /\ r \in Seq(S) /\ DOMAIN s = 1..Len(s) /\ Len(s) \in Nat /\ Len(s) + 1 \notin DOMAIN s
           /\ DOMAIN r = DOMAIN s \cup {Len(s) + 1} /\ r[Len(s) + 1] = x
           /\ \A k \in DOMAIN s : r[k] = s[k]
OBVIOUS

\* Steps that leave the entries, or bring one, and rows that come, stay or go.
LEMMA StoresStay ==
    ASSUME SearchInv, StoresHold, UNCHANGED <<coming, certRows, crlRows, directory>>
    PROVE  StoresHold'
BY DEF StoresHold

\* A row comes in, of an item that has no entry.
LEMMA InsertRowHolds ==
    ASSUME SearchInv, StoresHold, NEW c \in coming, NEW w \in Ways, InsertRow(c, w)
    PROVE  StoresHold'
<1> DEFINE row == [item |-> c, way |-> w, type |-> TypeBy(w, c)[1], selfSigned |-> isSelfSigned(c), stored |-> FALSE]
           n == Len(certRows) + 1
<1>1. /\ coming' = coming \ {c} /\ certRows' = Append(certRows, row)
      /\ directory' = directory /\ crlRows' = crlRows /\ c \in Certificates
    BY DEF InsertRow, SearchInv, StoresShape, Certificates
<1>2. row.item = c
    OBVIOUS
<1> HIDE DEF row
<1>3. /\ DOMAIN certRows' = DOMAIN certRows \cup {n} /\ certRows'[n].item = c
      /\ \A i \in DOMAIN certRows : certRows'[i] = certRows[i]
    BY <1>1, <1>2 DEF SearchInv, StoresShape
<1> HIDE DEF n
<1>4. \A k \in DOMAIN directory : directory[k].item # c
    BY DEF SearchInv, StoresAgree
<1>5. \E U \in Universes : /\ coming' \subseteq U
                           /\ \A i \in DOMAIN certRows' : certRows'[i].item \in U
                           /\ \A k \in DOMAIN directory' : directory'[k].item \in U
    BY <1>1, <1>3 DEF StoresHold
<1> QED
    BY <1>1, <1>3, <1>4, <1>5 DEF StoresHold

\* An entry is appended of an item that has none.
LEMMA EntryHolds ==
    ASSUME SearchInv, StoresHold, NEW e \in StoreEntry, directory' = Append(directory, e), coming' \subseteq coming,
           \/ e.item \in coming
           \/ \E i \in DOMAIN certRows : e.item = certRows[i].item,
           \A k \in DOMAIN directory : directory[k].item # e.item,
           DOMAIN certRows' = DOMAIN certRows, \A i \in DOMAIN certRows : certRows'[i].item = certRows[i].item,
           \A i \in DOMAIN certRows : ~certRows'[i].stored => ~certRows[i].stored /\ certRows[i].item # e.item,
           \/ crlRows' = crlRows
           \/ \E c \in StoreCrls : crlRows' = Append(crlRows, c) /\ e = Entry(c, <<"data", "crl">>)
    PROVE  StoresHold'
<1> DEFINE n == Len(directory) + 1
<1>1. /\ DOMAIN directory' = DOMAIN directory \cup {n} /\ directory'[n] = e
      /\ \A k \in DOMAIN directory : directory'[k] = directory[k]
    BY DEF SearchInv, StoresShape
<1> HIDE DEF n
<1>2. \E U \in Universes : /\ coming' \subseteq U
                           /\ \A i \in DOMAIN certRows' : certRows'[i].item \in U
                           /\ \A k \in DOMAIN directory' : directory'[k].item \in U
    <2>1. PICK U \in Universes : /\ coming \subseteq U
                                 /\ \A i \in DOMAIN certRows : certRows[i].item \in U
                                 /\ \A k \in DOMAIN directory : directory[k].item \in U
        BY DEF StoresHold
    <2>2. e.item \in U
        BY <2>1
    <2> QED
        BY <1>1, <2>1, <2>2
<1>3. \A k, l \in DOMAIN directory' : directory'[k].item = directory'[l].item => k = l
    BY <1>1 DEF StoresHold
<1>4. \A i \in DOMAIN certRows' : ~certRows'[i].stored =>
          \A k \in DOMAIN directory' : directory'[k].item # certRows'[i].item
    BY <1>1 DEF StoresHold
<1>5. crlRows' \in Seq(StoreCrls)
      /\ \A i \in DOMAIN crlRows' : \E k \in DOMAIN directory' : directory'[k] = Entry(crlRows'[i], <<"data", "crl">>)
    <2>1. crlRows \in Seq(StoreCrls)
          /\ \A i \in DOMAIN crlRows : \E k \in DOMAIN directory' : directory'[k] = Entry(crlRows[i], <<"data", "crl">>)
        BY <1>1 DEF StoresHold
    <2>2. CASE crlRows' = crlRows
        BY <2>1, <2>2
    <2>3. ASSUME NEW c \in StoreCrls, crlRows' = Append(crlRows, c), e = Entry(c, <<"data", "crl">>)
          PROVE  crlRows' \in Seq(StoreCrls)
                 /\ \A i \in DOMAIN crlRows' : \E k \in DOMAIN directory' : directory'[k] = Entry(crlRows'[i], <<"data", "crl">>)
        <3>1. /\ crlRows' \in Seq(StoreCrls) /\ DOMAIN crlRows' = DOMAIN crlRows \cup {Len(crlRows) + 1}
              /\ crlRows'[Len(crlRows) + 1] = c /\ \A i \in DOMAIN crlRows : crlRows'[i] = crlRows[i]
            BY <2>1, <2>3, Appended
        <3>2. \A i \in DOMAIN crlRows : \E k \in DOMAIN directory' : directory'[k] = Entry(crlRows'[i], <<"data", "crl">>)
            BY <2>1, <3>1
        <3>3. \E k \in DOMAIN directory' : directory'[k] = Entry(crlRows'[Len(crlRows) + 1], <<"data", "crl">>)
            BY <1>1, <2>3, <3>1
        <3> QED
            BY <3>1, <3>2, <3>3
    <2> QED
        BY <2>2, <2>3
<1> QED
    BY <1>2, <1>3, <1>4, <1>5 DEF StoresHold

\* What an entry is that is published, of a row or alone.
LEMMA PublishedEntry ==
    ASSUME SearchInv, NEW i \in DOMAIN certRows, PublishRow(i) \/ RelayPublish(i)
    PROVE  \E e \in StoreEntry : directory' = Append(directory, e) /\ e.item = certRows[i].item
<1> DEFINE r == certRows[i]
<1>1. r \in StoreRow
    BY DEF SearchInv, StoresShape
<1>2. r.item \in Certificates /\ r.item \in StoreItems /\ r.way \in Ways
    BY <1>1 DEF StoreRow, Certificates
<1>3. CASE PublishRow(i)
    <2> DEFINE place == buildCertificateDnV2(TypeBy(r.way, r.item)[2])
    <2>1. place \in {"data", "nc-data"} \X {"csca", "lc", "mlsc", "dsc"}
        BY <1>2, TypesOfRows
    <2>2. directory' = Append(directory, Entry(r.item, place))
        BY <1>3 DEF PublishRow
    <2> HIDE DEF place
    <2>3. Entry(r.item, place) \in StoreEntry /\ Entry(r.item, place).item = r.item
        BY <1>2, <2>1 DEF Entry, StoreEntry
    <2> QED
        BY <2>2, <2>3
<1>4. CASE RelayPublish(i)
    <2>1. buildDn(r) \in {"data", "nc-data"} \X {"csca", "lc", "dsc"}
        BY DEF buildDn
    <2>2. Entry(r.item, buildDn(r)) \in StoreEntry /\ Entry(r.item, buildDn(r)).item = r.item
        BY <1>2, <2>1 DEF Entry, StoreEntry
    <2> QED
        BY <1>4, <2>2 DEF RelayPublish
<1> QED
    BY <1>3, <1>4

\* A row is published: its item had no entry yet.
LEMMA PublishHolds ==
    ASSUME SearchInv, StoresHold, NEW i \in DOMAIN certRows, PublishRow(i) \/ RelayPublish(i)
    PROVE  StoresHold'
<1>1. PICK e \in StoreEntry : directory' = Append(directory, e) /\ e.item = certRows[i].item
    BY PublishedEntry
<1>2. ~certRows[i].stored /\ coming' = coming /\ crlRows' = crlRows /\ certRows' = [certRows EXCEPT ![i].stored = TRUE]
    BY DEF PublishRow, RelayPublish
<1>3. \A j \in DOMAIN certRows : certRows[j] \in StoreRow
    BY DEF SearchInv, StoresShape
<1>4. certRows'[i] = [certRows[i] EXCEPT !.stored = TRUE]
    BY <1>2
<1>5. certRows'[i].item = certRows[i].item /\ certRows'[i].stored
    BY <1>3, <1>4 DEF StoreRow
<1>6. DOMAIN certRows' = DOMAIN certRows /\ \A j \in DOMAIN certRows : j # i => certRows'[j] = certRows[j]
    BY <1>2
<1>7. \A j \in DOMAIN certRows : certRows[j].item = certRows[i].item => i = j
    BY DEF SearchInv, StoresAgree
<1>8. \A k \in DOMAIN directory : directory[k].item # e.item
    BY <1>1, <1>2 DEF StoresHold
<1>9. \A j \in DOMAIN certRows : ~certRows'[j].stored => ~certRows[j].stored /\ certRows[j].item # e.item
    BY <1>1, <1>5, <1>6, <1>7
<1>10. \A j \in DOMAIN certRows : certRows'[j].item = certRows[j].item
    BY <1>5, <1>6
<1> QED
    BY ONLY SearchInv, StoresHold, <1>1, <1>2, <1>6, <1>8, <1>9, <1>10, i \in DOMAIN certRows, EntryHolds

\* A CRL or a master list comes in with its entry.
LEMMA StoreOtherHolds ==
    ASSUME SearchInv, StoresHold, NEW c \in coming, StoreCrl(c) \/ StoreList(c)
    PROVE  StoresHold'
<1>1. coming' \subseteq coming /\ certRows' = certRows /\ c \in StoreItems
    BY DEF StoreCrl, StoreList, SearchInv, StoresShape
<1>2. \A k \in DOMAIN directory : directory[k].item # c
    BY DEF SearchInv, StoresAgree
<1>3. \A i \in DOMAIN certRows : certRows[i].item # c
    BY DEF SearchInv, StoresAgree
<1>4. PICK e \in {Entry(c, <<"data", "crl">>), Entry(c, <<"data", "ml">>)} :
          /\ directory' = Append(directory, e)
          /\ crlRows' = crlRows \/ (c \in StoreCrls /\ crlRows' = Append(crlRows, c) /\ e = Entry(c, <<"data", "crl">>))
    BY <1>1 DEF StoreCrl, StoreList, StoreCrls
<1>5. e \in StoreEntry /\ e.item = c
    BY <1>1 DEF Entry, StoreEntry
<1>6. crlRows' = crlRows \/ \E d \in StoreCrls : crlRows' = Append(crlRows, d) /\ e = Entry(d, <<"data", "crl">>)
    BY <1>4
<1>7. /\ DOMAIN certRows' = DOMAIN certRows /\ \A i \in DOMAIN certRows : certRows'[i].item = certRows[i].item
      /\ \A i \in DOMAIN certRows : ~certRows'[i].stored => ~certRows[i].stored /\ certRows[i].item # e.item
    BY <1>1, <1>3, <1>5
<1>8. directory' = Append(directory, e) /\ e.item \in coming /\ \A k \in DOMAIN directory : directory[k].item # e.item
    BY <1>2, <1>4, <1>5
<1> QED
    BY ONLY SearchInv, StoresHold, <1>1, <1>5, <1>6, <1>7, <1>8, EntryHolds

\* What is left when one goes was there.
LEMMA Removed ==
    ASSUME NEW S, NEW s \in Seq(S), NEW i \in 1..Len(s), NEW r, r = RemoveAt(s, i)
    PROVE  r \in Seq(S) /\ \A j \in DOMAIN r : \E k \in DOMAIN s : r[j] = s[k]
<1>1. /\ r \in Seq(S) /\ DOMAIN r = 1..(Len(s) - 1) /\ Len(s) \in Nat /\ DOMAIN s = 1..Len(s)
      /\ \A j \in 1..(Len(s) - 1) : r[j] = s[IF j < i THEN j ELSE j + 1]
    BY RemovedAt
<1>2. ASSUME NEW j \in DOMAIN r PROVE \E k \in DOMAIN s : r[j] = s[k]
    <2>1. (IF j < i THEN j ELSE j + 1) \in DOMAIN s
        BY <1>1
    <2> QED
        BY <1>1, <2>1
<1> QED
    BY <1>1, <1>2

\* Rows go, and the entries stay.
LEMMA DeletesHold ==
    ASSUME SearchInv, StoresHold, NEW i,
           (i \in DOMAIN certRows /\ DeleteRow(i)) \/ (i \in DOMAIN crlRows /\ DeleteCrl(i))
    PROVE  StoresHold'
<1> USE DEF RowsGo
<1>1. CASE i \in DOMAIN certRows /\ DeleteRow(i)
    <2>1. certRows \in Seq(StoreRow) /\ i \in 1..Len(certRows)
        BY <1>1 DEF SearchInv, StoresShape
    <2>2. coming' = coming /\ crlRows' = crlRows /\ directory' = directory /\ certRows' = RemoveAt(certRows, i)
        BY <1>1 DEF DeleteRow
    <2>3. \A j \in DOMAIN certRows' : \E k \in DOMAIN certRows : certRows'[j] = certRows[k]
        BY <2>1, <2>2, Removed
    <2> QED
        BY <2>2, <2>3 DEF StoresHold
<1>2. CASE i \in DOMAIN crlRows /\ DeleteCrl(i)
    <2>1. crlRows \in Seq(StoreCrls) /\ i \in 1..Len(crlRows)
        BY <1>2 DEF StoresHold
    <2>2. coming' = coming /\ certRows' = certRows /\ directory' = directory /\ crlRows' = RemoveAt(crlRows, i)
        BY <1>2 DEF DeleteCrl
    <2>3. crlRows' \in Seq(StoreCrls) /\ \A j \in DOMAIN crlRows' : \E k \in DOMAIN crlRows : crlRows'[j] = crlRows[k]
        BY <2>1, <2>2, Removed
    <2> QED
        BY <2>2, <2>3 DEF StoresHold
<1> QED
    BY <1>1, <1>2

Walks == {"report", "search", "source", "crls"}
CrlIds == {c.id : c \in ToSet(crlRows)}
ListedNow == Listing(reader.kind, reader.query)

\* Nothing has disturbed the walk: entries never do.
Undisturbed ==
    \/ reader.kind \in {"report", "search"}
    \/ ~reader.disturbed /\ (reader.kind = "crls" => Len(crlRows) <= ReportLimit)

WalkShape ==
    /\ DOMAIN reader = {"kind", "query", "offset", "seen", "shown", "total", "before", "disturbed", "pc"}
    /\ reader.offset \in Nat /\ reader.disturbed \in BOOLEAN
    /\ reader.pc \in {"reading", "counted", "done", "failed"}

\* What was shown of the directory is before the offset, ...
ShownOnce ==
    /\ IsFiniteSet(reader.seen) /\ Cardinality(reader.seen) = reader.shown
    /\ \A x \in reader.seen : \E k \in ListedNow : Rank(ListedNow, k) <= reader.offset /\ directory[k].item = x

\* ... and what was there and was not shown is after it.
StillToCome ==
    \A x \in reader.before :
        \/ x \in reader.seen
        \/ reader.pc # "done" /\ \E k \in ListedNow : Rank(ListedNow, k) > reader.offset /\ ItemAt(reader.kind, k) = x

WalkFits ==
    /\ WalkShape
    /\ reader.kind \in {"report", "search"} => ShownOnce
    /\ Undisturbed => StillToCome
    /\ reader.kind = "source" /\ reader.pc = "counted" /\ ~reader.disturbed => reader.total = Cardinality(ListedNow)
WalkInv == "kind" \in DOMAIN reader /\ (reader.kind \in Walks => WalkFits)

\* The ids of the CRLs are theirs alone.
LEMMA CrlsById == StoresHold => (\A c \in ToSet(crlRows) : CrlWithId(c.id) = c)
<1> SUFFICES ASSUME StoresHold, NEW c \in ToSet(crlRows), NEW d \in ToSet(crlRows), d.id = c.id PROVE d = c
    BY DEF CrlWithId
<1>1. PICK k \in DOMAIN directory : directory[k] = Entry(c, <<"data", "crl">>)
    BY DEF StoresHold, ToSet
<1>2. PICK l \in DOMAIN directory : directory[l] = Entry(d, <<"data", "crl">>)
    BY DEF StoresHold, ToSet
<1>3. directory[k].item = c /\ directory[l].item = d
    BY <1>1, <1>2 DEF Entry
<1> QED
    BY <1>3, IdsDiffer

\* There are no more ids than rows of CRLs.
LEMMA CrlIdsAreFew ==
    ASSUME StoresHold
    PROVE  CrlIds \in SUBSET Nat /\ IsFiniteSet(CrlIds) /\ Cardinality(CrlIds) <= Len(crlRows)
<1>1. crlRows \in Seq(StoreCrls) /\ DOMAIN crlRows = 1..Len(crlRows) /\ Len(crlRows) \in Nat
    BY DEF StoresHold
<1>2. \A c \in StoreCrls : c.id \in Nat
    BY DEF StoreCrls, StoreItems
<1>3. CrlIds \in SUBSET Nat
    BY <1>1, <1>2 DEF CrlIds, ToSet
<1> DEFINE f == [i \in DOMAIN crlRows |-> crlRows[i].id]
<1>4. f \in Surjection(DOMAIN crlRows, CrlIds)
    BY DEF Surjection, CrlIds, ToSet
<1>5. IsFiniteSet(1..Len(crlRows)) /\ Cardinality(1..Len(crlRows)) = Len(crlRows)
    BY <1>1, FS_Interval
<1> HIDE DEF f
<1> QED
    BY <1>1, <1>3, <1>4, <1>5, FS_Surjection

\* A listing is a finite set of numbers.
LEMMA ListingsAreFinite ==
    SearchInv /\ StoresHold =>
        (\A kind \in Walks : \A q : Listing(kind, q) \in SUBSET Int /\ IsFiniteSet(Listing(kind, q)))
<1> SUFFICES ASSUME SearchInv, StoresHold, NEW kind \in Walks, NEW q
             PROVE  Listing(kind, q) \in SUBSET Int /\ IsFiniteSet(Listing(kind, q))
    OBVIOUS
<1>1. CASE kind = "source"
    <2>1. DOMAIN certRows = 1..Len(certRows) /\ Len(certRows) \in Nat
        BY DEF SearchInv, StoresShape
    <2>2. IsFiniteSet(DOMAIN certRows)
        BY <2>1, FS_Interval
    <2> DEFINE f == [i \in DOMAIN certRows |-> -i]
    <2>3. IsFiniteSet({f[i] : i \in DOMAIN certRows})
        BY <2>2, ImageIsFinite
    <2>4. RowsFound(q) \subseteq {f[i] : i \in DOMAIN certRows} /\ RowsFound(q) \subseteq Int
        <3>1. \A k \in RowsFound(q) : \E i \in DOMAIN certRows : k = -i
            BY DEF RowsFound
        <3>2. \A i \in DOMAIN certRows : -i \in Int /\ f[i] = -i
            BY <2>1
        <3> QED
            BY <3>1, <3>2
    <2> HIDE DEF f
    <2> QED
        BY <1>1, <2>3, <2>4, FS_Subset DEF Listing
<1>2. CASE kind = "crls"
    <2>1. CrlsFound(q) \subseteq CrlIds
        BY DEF CrlsFound, findAllCrls, Slice, CrlIds
    <2> QED
        BY <1>2, <2>1, CrlIdsAreFew, FS_Subset DEF Listing
<1>3. CASE kind \in {"report", "search"}
    <2>1. DOMAIN directory = 1..Len(directory) /\ Len(directory) \in Nat
        BY DEF SearchInv, StoresShape
    <2>2. IsFiniteSet(DOMAIN directory)
        BY <2>1, FS_Interval
    <2>3. Matching(q) \subseteq DOMAIN directory
        BY DEF Matching, Found
    <2> QED
        BY <1>3, <2>1, <2>2, <2>3, FS_Subset DEF Listing
<1> QED
    BY <1>1, <1>2, <1>3 DEF Walks

\* While there are not too many, the report reads all CRLs.
LEMMA AllCrlsRead == StoresHold /\ Len(crlRows) <= ReportLimit => findAllCrls = CrlIds
<1> SUFFICES ASSUME StoresHold, Len(crlRows) <= ReportLimit PROVE findAllCrls = CrlIds
    OBVIOUS
<1>1. CrlIds \in SUBSET Int /\ IsFiniteSet(CrlIds) /\ Cardinality(CrlIds) <= Len(crlRows)
    BY CrlIdsAreFew
<1>2. ReportLimit \in Nat /\ Len(crlRows) \in Nat /\ Cardinality(CrlIds) \in Nat
    BY <1>1, SearchAssumption, FS_CardinalityType DEF StoresHold
<1>3. findAllCrls = Slice(CrlIds, 0, ReportLimit)
    BY DEF findAllCrls, CrlIds
<1>4. 0 + ReportLimit >= Cardinality(CrlIds)
    BY <1>1, <1>2
<1>5. \A k \in CrlIds : Rank(CrlIds, k) <= 0 + ReportLimit /\ Rank(CrlIds, k) > 0
    BY <1>1, <1>2, <1>4, Pages, Ranks
<1>6. Slice(CrlIds, 0, ReportLimit) \subseteq CrlIds
    BY DEF Slice
<1> QED
    BY <1>1, <1>2, <1>3, <1>5, <1>6, Pages

\* What the steps of the stores leave as it was.
EntriesStay ==
    /\ \A k \in DOMAIN directory : k \in DOMAIN directory' /\ directory'[k] = directory[k]
    /\ \A k \in DOMAIN directory, l \in DOMAIN directory' : l \notin DOMAIN directory => k < l
CertRowsStay ==
    \A i \in DOMAIN certRows : /\ i \in DOMAIN certRows' /\ certRows'[i].item = certRows[i].item
                               /\ certRows'[i].way = certRows[i].way /\ certRows'[i].type = certRows[i].type
CrlRowsStay == Len(crlRows) <= Len(crlRows') /\ ToSet(crlRows) \subseteq ToSet(crlRows')

\* Entries that come are listed after those that were.
LEMMA MatchesStay ==
    ASSUME SearchInv, EntriesStay, NEW q
    PROVE  /\ Matching(q) \subseteq Matching(q)'
           /\ \A k \in Matching(q), l \in Matching(q)' \ Matching(q) : k < l
<1>1. \A k \in DOMAIN directory : k \in Matching(q) <=> k \in Matching(q)'
    BY DEF EntriesStay, Matching, Found
<1>2. Matching(q) \subseteq DOMAIN directory /\ Matching(q)' \subseteq DOMAIN directory'
    BY DEF Matching, Found
<1> QED
    BY <1>1, <1>2 DEF EntriesStay

\* What a listing has stays in it, under its number.
LEMMA ListingsStay ==
    ASSUME SearchInv, StoresHold, StoresHold', NEW kind \in Walks, NEW q,
           \/ kind \in {"report", "search"} /\ EntriesStay
           \/ kind = "source" /\ CertRowsStay
           \/ kind = "crls" /\ CrlRowsStay /\ Len(crlRows') <= ReportLimit
    PROVE  \A k \in Listing(kind, q) : k \in Listing(kind, q)' /\ ItemAt(kind, k)' = ItemAt(kind, k)
<1>1. CASE kind \in {"report", "search"} /\ EntriesStay
    <2>1. Matching(q) \subseteq Matching(q)' /\ Matching(q) \subseteq DOMAIN directory
        BY <1>1, MatchesStay DEF Matching, Found
    <2> QED
        BY <1>1, <2>1 DEF Listing, ItemAt, EntriesStay
<1>2. CASE kind = "source" /\ CertRowsStay
    <2> DEFINE In(j) == /\ certRows[j].way = q.way
                        /\ q.country # "" => certRows[j].item.country = q.country
                        /\ q.type # "" => certRows[j].type = q.type
    <2>1. \A j \in DOMAIN certRows : j \in DOMAIN certRows' /\ In(j) = In(j)' /\ certRows'[j].item = certRows[j].item
        BY <1>2 DEF CertRowsStay
    <2>2. RowsFound(q) = {-i : i \in {j \in DOMAIN certRows : In(j)}}
        BY DEF RowsFound
    <2>3. RowsFound(q)' = {-i : i \in {j \in DOMAIN certRows' : In(j)'}}
        BY DEF RowsFound
    <2> HIDE DEF In
    <2>4. \A j \in DOMAIN certRows : j \in Int /\ -(-j) = j
        BY DEF SearchInv, StoresShape
    <2>5. ASSUME NEW k \in RowsFound(q) PROVE k \in RowsFound(q)' /\ certRows'[-k].item = certRows[-k].item
        <3>1. PICK j \in DOMAIN certRows : In(j) /\ k = -j
            BY <2>2
        <3> QED
            BY <2>1, <2>3, <2>4, <3>1
    <2> QED
        BY <1>2, <2>5 DEF Listing, ItemAt
<1>3. CASE kind = "crls" /\ CrlRowsStay /\ Len(crlRows') <= ReportLimit
    <2>1. Len(crlRows) <= ReportLimit /\ ReportLimit \in Nat
        <3>1. Len(crlRows) \in Nat /\ Len(crlRows') \in Nat /\ ReportLimit \in Nat
            BY SearchAssumption DEF StoresHold
        <3> QED
            BY <1>3, <3>1 DEF CrlRowsStay
    <2>2. findAllCrls = CrlIds /\ findAllCrls' = CrlIds'
        <3>1. (Len(crlRows) <= ReportLimit)'
            BY <1>3
        <3>2. (findAllCrls = CrlIds)'
            BY <3>1, AllCrlsRead, PTL
        <3> QED
            BY <2>1, <3>2, AllCrlsRead
    <2>3. \A c \in ToSet(crlRows) : CrlWithId(c.id) = c /\ CrlWithId(c.id)' = c
        <3>1. (\A c \in ToSet(crlRows) : CrlWithId(c.id) = c)'
            BY CrlsById, PTL
        <3> QED
            BY <1>3, <3>1, CrlsById DEF CrlRowsStay
    <2>4. \A k \in CrlIds : k \in CrlIds' /\ CrlWithId(k)' = CrlWithId(k)
        BY <1>3, <2>3 DEF CrlIds, CrlRowsStay
    <2> QED
        BY <1>3, <2>2, <2>4 DEF Listing, ItemAt, CrlsFound
<1> QED
    BY <1>1, <1>2, <1>3

\* Entries and rows come while a walk goes on.
LEMMA WalkStays ==
    ASSUME SearchInv, StoresHold, SearchInv', StoresHold', WalkInv, EntriesStay,
           reader' = reader \/ reader' = [reader EXCEPT !.disturbed = TRUE],
           reader.kind \in Walks =>
               /\ CertRowsStay \/ reader'.disturbed
               /\ CrlRowsStay \/ reader'.disturbed
               /\ reader.kind = "source" /\ reader.pc = "counted" =>
                      reader'.disturbed \/ RowsFound(reader.query)' = RowsFound(reader.query)
    PROVE  WalkInv'
<1>0. (\A kind \in Walks : \A q : Listing(kind, q) \in SUBSET Int /\ IsFiniteSet(Listing(kind, q)))'
    BY ListingsAreFinite, PTL
<1>1. "kind" \in DOMAIN reader' /\ reader'.kind = reader.kind
    BY DEF WalkInv
<1> SUFFICES ASSUME NEW kind \in Walks, kind = reader.kind, NEW q, q = reader.query PROVE WalkFits'
    BY <1>1 DEF WalkInv
<1> DEFINE K == Listing(kind, q)
           L == Listing(kind, q)'
<1>2. WalkFits
    BY DEF WalkInv
<1>3. /\ DOMAIN reader' = DOMAIN reader /\ reader'.query = q /\ reader'.offset = reader.offset /\ reader'.seen = reader.seen
      /\ reader'.shown = reader.shown /\ reader'.total = reader.total /\ reader'.before = reader.before
      /\ reader'.pc = reader.pc /\ reader'.disturbed \in {reader.disturbed, TRUE}
    BY <1>2 DEF WalkFits, WalkShape
<1>4. K \in SUBSET Int /\ IsFiniteSet(K)
    BY ListingsAreFinite
<1>5. L \in SUBSET Int /\ IsFiniteSet(L)
    BY <1>0
<1>6. ListedNow = K /\ ListedNow' = L
    BY <1>1, <1>3 DEF ListedNow
<1>7. WalkShape'
    BY <1>2, <1>3 DEF WalkFits, WalkShape
<1>8. CASE kind \in {"report", "search"}
    <2>1. K = Matching(q) /\ L = Matching(q)'
        BY <1>8 DEF Listing
    <2>2. K \subseteq L /\ \A k \in K, l \in L \ K : k < l
        BY <2>1, MatchesStay
    <2>3. \A k \in K : directory'[k] = directory[k] /\ ItemAt(kind, k)' = ItemAt(kind, k)
        BY <1>8, <2>1 DEF Matching, Found, EntriesStay, ItemAt
    <2> HIDE DEF K, L
    <2>4. \A k \in K : Rank(L, k) = Rank(K, k)
        BY <1>5, <2>2, RanksGrow
    <2>5. ShownOnce /\ StillToCome
        BY <1>2, <1>8 DEF WalkFits, Undisturbed
    <2>6. ShownOnce'
        BY <1>3, <1>6, <2>2, <2>3, <2>4, <2>5 DEF ShownOnce
    <2>7. StillToCome'
        BY <1>1, <1>3, <1>6, <2>2, <2>3, <2>4, <2>5 DEF StillToCome
    <2> QED
        BY <1>1, <1>7, <1>8, <2>6, <2>7 DEF WalkFits
<1>9. CASE kind \in {"source", "crls"}
    <2>1. ASSUME Undisturbed' PROVE StillToCome'
        <3>1. ~reader'.disturbed /\ ~reader.disturbed /\ (kind = "crls" => Len(crlRows') <= ReportLimit)
            BY <1>1, <1>2, <1>3, <1>9, <2>1 DEF Undisturbed, WalkFits, WalkShape
        <3>2. CertRowsStay /\ CrlRowsStay
            BY <3>1
        <3>3. kind = "crls" => Len(crlRows) <= ReportLimit
            <4>1. Len(crlRows) \in Nat /\ Len(crlRows') \in Nat /\ ReportLimit \in Nat
                BY SearchAssumption DEF StoresHold
            <4> QED
                BY <3>1, <3>2, <4>1 DEF CrlRowsStay
        <3>4. StillToCome
            BY <1>2, <3>1, <3>3 DEF WalkFits, Undisturbed
        <3>5. \A k \in K : k \in L /\ ItemAt(kind, k)' = ItemAt(kind, k)
            BY <1>9, <3>1, <3>2, ListingsStay
        <3> HIDE DEF K, L
        <3>6. \A k \in K : Rank(K, k) <= Rank(L, k) /\ Rank(K, k) \in Nat /\ Rank(L, k) \in Nat
            BY <1>4, <1>5, <3>5, Ranks, RanksGrow
        <3>7. \A k \in K : Rank(K, k) > reader.offset => Rank(L, k) > reader.offset
            BY <1>2, <3>6 DEF WalkFits, WalkShape
        <3> QED
            BY <1>1, <1>3, <1>6, <3>4, <3>5, <3>7 DEF StillToCome
    <2>2. reader'.kind = "source" /\ reader'.pc = "counted" /\ ~reader'.disturbed => reader'.total = Cardinality(L)
        <3> SUFFICES ASSUME kind = "source", reader.pc = "counted", ~reader'.disturbed PROVE reader.total = Cardinality(L)
            BY <1>1, <1>3
        <3>1. RowsFound(q)' = RowsFound(q) /\ ~reader.disturbed
            BY <1>2, <1>3 DEF WalkFits, WalkShape
        <3>2. K = L
            BY <3>1 DEF Listing
        <3> HIDE DEF K, L
        <3> QED
            BY <1>2, <1>6, <3>1, <3>2 DEF WalkFits
    <2> HIDE DEF L
    <2> QED
        BY <1>1, <1>6, <1>7, <1>9, <2>1, <2>2 DEF WalkFits
<1> QED
    BY <1>8, <1>9 DEF Walks

\* A request reads, and the stores are as they were.
LEMMA ListingsSame ==
    ASSUME UNCHANGED <<certRows, crlRows, directory>>
    PROVE  \A kind, q, k : Listing(kind, q)' = Listing(kind, q) /\ ItemAt(kind, k)' = ItemAt(kind, k)
<1>1. ASSUME NEW q PROVE Matching(q)' = Matching(q) /\ RowsFound(q)' = RowsFound(q)
    BY DEF Matching, Found, RowsFound
<1>2. findAllCrls' = findAllCrls /\ \A k : CrlWithId(k)' = CrlWithId(k)
    BY DEF findAllCrls, CrlWithId
<1>3. \A q : CrlsFound(q)' = CrlsFound(q)
    BY <1>2 DEF CrlsFound
<1> QED
    BY <1>1, <1>2, <1>3 DEF Listing, ItemAt

\* A walk begins: all is still to come.
LEMMA StartFitsWalk ==
    ASSUME SearchInv, StoresHold, NEW kind \in Walks, NEW q, StartWalk(kind, q)
    PROVE  WalkInv'
<1> DEFINE K == Listing(kind, q)
<1>1. /\ reader' = [kind |-> kind, query |-> q, offset |-> 0, seen |-> {}, shown |-> 0, total |-> 0,
                    before |-> ItemsOf(kind, K), disturbed |-> FALSE, pc |-> "reading"]
      /\ UNCHANGED <<certRows, crlRows, directory>>
    BY DEF StartWalk
<1>2. K \in SUBSET Int /\ IsFiniteSet(K)
    BY ListingsAreFinite
<1>3. ListedNow' = K /\ \A k : ItemAt(kind, k)' = ItemAt(kind, k)
    BY <1>1, ListingsSame DEF ListedNow
<1> HIDE DEF K
<1>4. WalkShape'
    BY <1>1 DEF WalkShape
<1>5. ShownOnce'
    BY <1>1, FS_EmptySet DEF ShownOnce
<1>6. StillToCome'
    <2>1. \A k \in K : Rank(K, k) > 0
        BY <1>2, Ranks
    <2>2. reader'.before = {ItemAt(kind, k) : k \in K} /\ reader'.kind = kind /\ reader'.pc # "done" /\ reader'.offset = 0
        BY <1>1 DEF ItemsOf
    <2> QED
        BY <1>3, <2>1, <2>2 DEF StillToCome
<1> QED
    BY <1>1, <1>4, <1>5, <1>6 DEF WalkInv, WalkFits

\* The count.
LEMMA CountFits ==
    ASSUME SearchInv, StoresHold, WalkInv, CountPage
    PROVE  WalkInv'
<1>1. /\ reader.kind = "source" /\ reader.pc = "reading" /\ UNCHANGED <<certRows, crlRows, directory>>
      /\ reader' = [reader EXCEPT !.pc = "counted", !.total = Page(reader).total]
    BY DEF CountPage
<1>2. WalkFits
    BY <1>1 DEF WalkInv, Walks
<1>3. /\ DOMAIN reader' = DOMAIN reader /\ reader'.kind = "source" /\ reader'.query = reader.query /\ reader'.offset = reader.offset
      /\ reader'.seen = reader.seen /\ reader'.before = reader.before /\ reader'.disturbed = reader.disturbed
      /\ reader'.pc = "counted" /\ reader'.total = Page(reader).total
    BY <1>1, <1>2 DEF WalkFits, WalkShape
<1>4. ListedNow' = ListedNow /\ \A k : ItemAt("source", k)' = ItemAt("source", k)
    BY <1>1, <1>3, ListingsSame DEF ListedNow
<1>5. reader'.total = Cardinality(ListedNow)
    BY <1>1, <1>3 DEF Page, searchDb, ListedNow, Listing
<1>6. WalkShape'
    BY <1>2, <1>3 DEF WalkFits, WalkShape
<1>7. Undisturbed' => StillToCome'
    <2>1. Undisturbed' => Undisturbed
        BY <1>1, <1>3 DEF Undisturbed
    <2> QED
        BY <1>1, <1>2, <1>3, <1>4, <2>1 DEF WalkFits, StillToCome
<1> QED
    BY <1>2, <1>3, <1>4, <1>5, <1>6, <1>7 DEF WalkInv, WalkFits, WalkShape

\* What stays a walk and only ends.
LEMMA FailFits ==
    ASSUME SearchInv, StoresHold, WalkInv, WalkFails
    PROVE  WalkInv'
<1>1. /\ reader.kind \in {"report", "search", "source"} /\ UNCHANGED <<certRows, crlRows, directory>>
      /\ reader' = [reader EXCEPT !.pc = "failed"] /\ reader.pc # "done"
    BY DEF WalkFails
<1>2. WalkFits
    BY <1>1 DEF WalkInv, Walks
<1>3. /\ DOMAIN reader' = DOMAIN reader /\ reader'.kind = reader.kind /\ reader'.query = reader.query /\ reader'.offset = reader.offset
      /\ reader'.seen = reader.seen /\ reader'.before = reader.before /\ reader'.disturbed = reader.disturbed
      /\ reader'.shown = reader.shown /\ reader'.pc = "failed"
    BY <1>1, <1>2 DEF WalkFits, WalkShape
<1>4. ListedNow' = ListedNow /\ \A k : ItemAt(reader.kind, k)' = ItemAt(reader.kind, k)
    BY <1>1, <1>3, ListingsSame DEF ListedNow
<1>5. WalkShape'
    BY <1>2, <1>3 DEF WalkFits, WalkShape
<1>6. ShownOnce => ShownOnce'
    BY <1>1, <1>3, <1>4 DEF ShownOnce
<1>7. Undisturbed' => StillToCome'
    <2>1. Undisturbed' => Undisturbed
        BY <1>1, <1>3 DEF Undisturbed
    <2> QED
        BY <1>1, <1>2, <1>3, <1>4, <2>1 DEF WalkFits, StillToCome
<1> QED
    BY <1>2, <1>3, <1>5, <1>6, <1>7 DEF WalkInv, WalkFits, WalkShape

PageLimit == IF reader.kind = "report" THEN ReportBatch ELSE PageSize

\* A failed search for CRLs counts as a disturbance.
LEMMA UnreadFits ==
    ASSUME SearchInv, StoresHold, WalkInv, CrlsUnread
    PROVE  WalkInv'
<1>1. reader.kind = "crls" /\ reader' = [reader EXCEPT !.pc = "done", !.disturbed = TRUE]
    BY DEF CrlsUnread
<1>2. WalkShape
    BY <1>1 DEF WalkInv, WalkFits, Walks
<1>3. /\ DOMAIN reader' = DOMAIN reader /\ reader'.kind = "crls" /\ reader'.offset = reader.offset
      /\ reader'.disturbed = TRUE /\ reader'.pc = "done"
    BY <1>1, <1>2 DEF WalkShape
<1>4. WalkShape' /\ ~Undisturbed'
    BY <1>2, <1>3 DEF WalkShape, Undisturbed
<1> QED
    BY <1>2, <1>3, <1>4 DEF WalkInv, WalkFits, WalkShape

\* A page is a slice of the listing, and the total is not below what is listed.
LEMMA PageIsSlice ==
    ASSUME SearchInv, StoresHold, WalkFits, reader.kind \in Walks
    PROVE  /\ Page(reader).list = Slice(ListedNow, reader.offset, PageLimit)
           /\ reader.kind # "source" => /\ Page(reader).total \in Nat
                                        /\ Page(reader).total >= Cardinality(ListedNow)
<1> SUFFICES ASSUME NEW kind \in Walks, kind = reader.kind, NEW q, q = reader.query
             PROVE  /\ Page(reader).list = Slice(Listing(kind, q), reader.offset, PageLimit)
                    /\ kind # "source" => /\ Page(reader).total \in Nat
                                          /\ Page(reader).total >= Cardinality(Listing(kind, q))
    BY DEF ListedNow
<1>1. IsFiniteSet(Listing(kind, q)) /\ Cardinality(Listing(kind, q)) \in Nat
    BY ListingsAreFinite, FS_CardinalityType
<1>2. CASE kind = "source"
    BY <1>2 DEF Page, searchDb, Listing, PageLimit
<1>3. CASE kind = "crls"
    BY <1>1, <1>3 DEF Page, handleCrlReport, Listing, PageLimit
<1>4. CASE kind \in {"report", "search"}
    <2>1. Page(reader) = searchLdap(q, reader.offset, PageLimit) /\ Listing(kind, q) = Matching(q)
        BY <1>4 DEF Page, PageLimit, Listing
    <2>2. DOMAIN directory = 1..Len(directory) /\ Len(directory) \in Nat
        BY DEF SearchInv, StoresShape
    <2>3. IsFiniteSet(DOMAIN directory)
        BY <2>2, FS_Interval
    <2>4. Found(q) \subseteq DOMAIN directory /\ Matching(q) \subseteq Found(q)
        BY DEF Matching, Found
    <2>5. Cardinality(Found(q)) \in Nat /\ Cardinality(Matching(q)) <= Cardinality(Found(q))
        BY <2>3, <2>4, FS_Subset, FS_CardinalityType
    <2>6. searchLdap(q, reader.offset, PageLimit).list = Slice(Matching(q), reader.offset, PageLimit)
        BY DEF searchLdap
    <2>7. searchLdap(q, reader.offset, PageLimit).total \in {Cardinality(Matching(q)), Cardinality(Found(q))}
        BY DEF searchLdap
    <2> QED
        BY <1>1, <2>1, <2>5, <2>6, <2>7
<1> QED
    BY <1>2, <1>3, <1>4 DEF Walks

\* A page of the directory shows nothing that was shown.
LEMMA PageShowsOnce ==
    ASSUME SearchInv, StoresHold, WalkFits, reader.kind \in {"report", "search"}, ShownOnce, NEW page,
           page = Slice(ListedNow, reader.offset, PageLimit), PageLimit \in Nat
    PROVE  LET items == ItemsOf(reader.kind, page)
           IN  /\ IsFiniteSet(reader.seen \cup items)
               /\ Cardinality(reader.seen \cup items) = reader.shown + Cardinality(page)
<1> SUFFICES ASSUME NEW K, K = ListedNow, NEW start \in Nat, start = reader.offset
             PROVE  LET items == ItemsOf(reader.kind, page)
                    IN  /\ IsFiniteSet(reader.seen \cup items)
                        /\ Cardinality(reader.seen \cup items) = reader.shown + Cardinality(page)
    BY DEF WalkFits, WalkShape
<1>1. K \in SUBSET Int /\ IsFiniteSet(K)
    BY ListingsAreFinite DEF ListedNow, Walks
<1>2. K \subseteq DOMAIN directory
    BY DEF ListedNow, Listing, Matching, Found
<1>3. /\ IsFiniteSet(page) /\ page \subseteq K
      /\ \A k \in K : k \in page <=> Rank(K, k) > start /\ Rank(K, k) <= start + PageLimit
    BY <1>1, Pages
<1>4. ItemsOf(reader.kind, page) = {directory[k].item : k \in page}
    BY DEF ItemsOf, ItemAt
<1> DEFINE f == [k \in DOMAIN directory |-> directory[k].item]
           items == {f[k] : k \in page}
<1>5. ItemsOf(reader.kind, page) = items
    BY <1>2, <1>3, <1>4
<1>6. \A k, l \in page : f[k] = f[l] => k = l
    BY <1>2, <1>3 DEF StoresHold
<1>7. reader.seen \cap items = {}
    <2> SUFFICES ASSUME NEW x \in reader.seen, NEW l \in page, x = f[l] PROVE FALSE
        OBVIOUS
    <2>1. PICK k \in K : Rank(K, k) <= start /\ directory[k].item = x
        BY DEF ShownOnce
    <2>2. k = l
        BY <1>2, <1>3, <2>1 DEF StoresHold
    <2>3. Rank(K, k) \in Nat
        BY <1>1, Ranks
    <2> QED
        BY <1>3, <2>1, <2>2, <2>3
<1> HIDE DEF f
<1>8. IsFiniteSet(items) /\ Cardinality(items) = Cardinality(page)
    BY <1>3, <1>6, AsMany
<1> HIDE DEF items
<1>9. IsFiniteSet(reader.seen) /\ Cardinality(reader.seen) = reader.shown
    BY DEF ShownOnce
<1>10. IsFiniteSet(reader.seen \cup items)
       /\ Cardinality(reader.seen \cup items) = Cardinality(reader.seen) + Cardinality(items) - Cardinality(reader.seen \cap items)
    BY <1>8, <1>9, FS_Union
<1>11. Cardinality(reader.seen \cap items) = 0 /\ Cardinality(reader.seen) \in Nat /\ Cardinality(items) \in Nat
    BY <1>7, <1>8, <1>9, FS_EmptySet, FS_CardinalityType
<1> QED
    BY <1>5, <1>8, <1>9, <1>10, <1>11

\* A page is read: it has what comes next, and nothing is left when it is the last.
LEMMA NextFits ==
    ASSUME SearchInv, StoresHold, WalkInv, NextPage
    PROVE  WalkInv'
<1> DEFINE page == [Page(reader) EXCEPT !.total = IF reader.kind = "source" THEN reader.total ELSE @]
<1>1. reader.kind \in Walks /\ UNCHANGED <<certRows, crlRows, directory>>
    BY DEF NextPage, Walks
<1>2. WalkFits /\ reader.pc \in {"reading", "counted"} /\ (reader.kind = "source" => reader.pc = "counted")
    BY <1>1 DEF WalkInv, NextPage
<1>3. reader' = [reader EXCEPT
                       !.seen = @ \cup ItemsOf(reader.kind, page.list),
                       !.shown = @ + Cardinality(page.list),
                       !.offset = @ + IF reader.kind = "report" THEN ReportBatch ELSE PageSize,
                       !.pc = IF LastPage(reader, page) THEN "done" ELSE "reading"]
    BY DEF NextPage
<1>4. Page(reader) = [list |-> Page(reader).list, total |-> Page(reader).total]
    BY <1>1 DEF Page, searchDb, handleCrlReport, searchLdap, Walks
<1>5. page.list = Page(reader).list /\ page.total = IF reader.kind = "source" THEN reader.total ELSE Page(reader).total
    BY <1>4
<1> HIDE DEF page
<1> SUFFICES ASSUME NEW K, K = ListedNow, NEW start \in Nat, start = reader.offset, NEW limit \in Nat \ {0}, limit = PageLimit,
                    NEW kind \in Walks, kind = reader.kind
             PROVE  WalkInv'
    BY <1>1, <1>2, SearchAssumption DEF WalkFits, WalkShape, PageLimit
<1>6. /\ DOMAIN reader' = DOMAIN reader /\ reader'.kind = kind /\ reader'.query = reader.query
      /\ reader'.offset = start + limit /\ reader'.before = reader.before /\ reader'.disturbed = reader.disturbed
      /\ reader'.seen = reader.seen \cup ItemsOf(kind, page.list) /\ reader'.shown = reader.shown + Cardinality(page.list)
      /\ reader'.pc = IF LastPage(reader, page) THEN "done" ELSE "reading"
    BY <1>2, <1>3 DEF WalkFits, WalkShape, PageLimit
<1>7. ListedNow' = K /\ \A k : ItemAt(kind, k)' = ItemAt(kind, k)
    BY <1>1, <1>6, ListingsSame DEF ListedNow
<1>8. K \in SUBSET Int /\ IsFiniteSet(K) /\ \A k \in K : Rank(K, k) \in Nat
    BY ListingsAreFinite, Ranks DEF ListedNow
<1>9. page.list = Slice(K, start, limit)
    BY <1>1, <1>2, <1>5, PageIsSlice
<1>10. /\ page.list \subseteq K
       /\ \A k \in K : k \in page.list <=> Rank(K, k) > start /\ Rank(K, k) <= start + limit
       /\ Cardinality(page.list) < limit => \A k \in K : Rank(K, k) <= start + limit
       /\ start + limit >= Cardinality(K) => \A k \in K : Rank(K, k) <= start + limit
    BY <1>8, <1>9, Pages, SMTT(30)
<1>11. WalkShape'
    BY <1>2, <1>6 DEF WalkFits, WalkShape
<1>12. ASSUME kind \in {"report", "search"} PROVE ShownOnce'
    <2>1. ShownOnce
        BY <1>2, <1>12 DEF WalkFits
    <2>2. IsFiniteSet(reader'.seen) /\ Cardinality(reader'.seen) = reader'.shown
        BY <1>2, <1>6, <1>9, <1>12, <2>1, PageShowsOnce
    <2>3. ASSUME NEW x \in reader'.seen
          PROVE  \E k \in K : Rank(K, k) <= start + limit /\ directory[k].item = x
        <3>1. CASE x \in reader.seen
            <4>1. PICK k \in K : Rank(K, k) <= start /\ directory[k].item = x
                BY <2>1, <3>1 DEF ShownOnce
            <4> QED
                BY <1>8, <4>1
        <3>2. CASE x \in ItemsOf(kind, page.list)
            <4>1. PICK k \in page.list : ItemAt(kind, k) = x
                BY <3>2 DEF ItemsOf
            <4>2. directory[k].item = x
                BY <1>12, <4>1 DEF ItemAt
            <4> QED
                BY <1>10, <4>2
        <3> QED
            BY <1>6, <3>1, <3>2
    <2> QED
        BY <1>1, <1>6, <1>7, <2>2, <2>3 DEF ShownOnce
<1>13. ASSUME Undisturbed' PROVE StillToCome'
    <2>1. Undisturbed
        BY <1>1, <1>6, <1>13 DEF Undisturbed
    <2>2. StillToCome
        BY <1>2, <2>1 DEF WalkFits
    <2>3. ASSUME LastPage(reader, page) PROVE \A k \in K : Rank(K, k) <= start + limit
        <3>1. Cardinality(K) \in Nat
            BY <1>8, FS_CardinalityType
        <3>2. page.total \in Nat /\ page.total >= Cardinality(K)
            <4>1. CASE kind = "source"
                <5>1. ~reader.disturbed
                    BY <2>1, <4>1 DEF Undisturbed
                <5> QED
                    BY <1>2, <1>5, <3>1, <4>1, <5>1 DEF WalkFits
            <4>2. CASE kind # "source"
                BY <1>1, <1>2, <1>5, <4>2, PageIsSlice
            <4> QED
                BY <4>1, <4>2
        <3>3. Cardinality(page.list) < limit \/ start + limit >= page.total
            BY <2>3 DEF LastPage, PageLimit
        <3> QED
            BY <1>10, <3>1, <3>2, <3>3
    <2>4. ASSUME NEW x \in reader.before
          PROVE  \/ x \in reader'.seen
                 \/ reader'.pc # "done" /\ \E k \in K : Rank(K, k) > start + limit /\ ItemAt(kind, k) = x
        <3>1. CASE x \in reader.seen
            BY <1>6, <3>1
        <3>2. ASSUME NEW k \in K, Rank(K, k) > start, ItemAt(kind, k) = x
              PROVE  \/ x \in reader'.seen
                     \/ reader'.pc # "done" /\ Rank(K, k) > start + limit
            <4>1. CASE Rank(K, k) <= start + limit
                <5>1. k \in page.list
                    BY <1>10, <3>2, <4>1
                <5> QED
                    BY <1>6, <3>2, <5>1 DEF ItemsOf
            <4>2. CASE Rank(K, k) > start + limit
                <5>1. ~LastPage(reader, page)
                    BY <1>8, <2>3, <4>2
                <5> QED
                    BY <1>6, <4>2, <5>1
            <4> QED
                BY <1>8, <4>1, <4>2
        <3> QED
            BY <2>2, <3>1, <3>2 DEF StillToCome
    <2> QED
        BY <1>1, <1>6, <1>7, <2>4 DEF StillToCome
<1>14. reader'.kind \in Walks /\ reader'.pc # "counted" /\ "kind" \in DOMAIN reader'
    BY <1>2, <1>6 DEF WalkFits, WalkShape
<1> QED
    BY <1>6, <1>11, <1>12, <1>13, <1>14 DEF WalkInv, WalkFits

-----------------------------------------------------------------------------
(* CertificateSearch: the archives.                                        *)

NameOf(f, e) == f.name \in {generateCertificateFilename(e), <<e.item.id>>}

\* What became of the entry at a place that the archive of a country was to have.
Collected(k) ==
    LET e == directory[k] IN
    \/ \E f \in reader.files : f.item = e.item
    \/ e.item \in reader.lost
    \/ e.item.kind = "ml"
    \/ e.item.kind = "crl" /\ reader.format = "pem"
    \/ \E f \in reader.files : f.item # e.item /\ f.name = generateCertificateFilename(e)

CountryFits ==
    /\ DOMAIN reader = {"kind", "format", "todo", "files", "lost", "disturbed", "before", "pc"}
    /\ reader.todo \subseteq DOMAIN directory
    /\ reader.pc # "reading" => reader.todo = {}
    /\ \A x \in reader.before : \E k \in DOMAIN directory : directory[k].item = x
    /\ \A k \in DOMAIN directory : directory[k].item \in reader.before => k \in reader.todo \/ Collected(k)
    /\ \A f \in reader.files : \E k \in DOMAIN directory : f.item = directory[k].item /\ NameOf(f, directory[k])

\* What the archive of everything has is in the directory.
InDirectory(f) ==
    \E e \in ToSet(directory) : e.item = f.item /\ (e = f \/ (f.item.names = "case" /\ e.o = "lc"))
AllFits ==
    /\ DOMAIN reader = {"kind", "files", "before", "disturbed", "pc"}
    /\ \A x \in reader.before : \E f \in reader.files : f.item = x
    /\ \A f \in reader.files : InDirectory(f)

ArchiveInv ==
    /\ reader.kind = "country" => CountryFits
    /\ reader.kind = "all" => AllFits

\* Entries come while an archive is made.
LEMMA ArchiveStays ==
    ASSUME SearchInv, StoresHold, StoresHold', "kind" \in DOMAIN reader, ArchiveInv, EntriesStay,
           reader' = reader \/ reader' = [reader EXCEPT !.disturbed = TRUE]
    PROVE  ArchiveInv'
<1>1. CASE reader.kind = "country"
    <2>1. CountryFits
        BY <1>1 DEF ArchiveInv
    <2>2. /\ DOMAIN reader' = DOMAIN reader /\ reader'.kind = "country" /\ reader'.format = reader.format
          /\ reader'.todo = reader.todo /\ reader'.files = reader.files /\ reader'.lost = reader.lost
          /\ reader'.before = reader.before /\ reader'.pc = reader.pc
        BY <1>1, <2>1 DEF CountryFits
    <2>3. \A k \in DOMAIN directory : k \in DOMAIN directory' /\ directory'[k] = directory[k]
        BY DEF EntriesStay
    <2>4. \A k \in DOMAIN directory : Collected(k) => Collected(k)'
        BY <2>2, <2>3 DEF Collected
    <2>5. ASSUME NEW k \in DOMAIN directory', directory'[k].item \in reader.before
          PROVE  k \in DOMAIN directory /\ directory[k].item \in reader.before
        <3>1. PICK l \in DOMAIN directory : directory[l].item = directory'[k].item
            BY <2>1, <2>5 DEF CountryFits
        <3>2. k = l
            BY <2>3, <2>5, <3>1 DEF StoresHold
        <3> QED
            BY <2>5, <3>1, <3>2
    <2>6. /\ reader'.todo \subseteq DOMAIN directory'
          /\ \A x \in reader'.before : \E k \in DOMAIN directory' : directory'[k].item = x
        BY <2>1, <2>2, <2>3 DEF CountryFits
    <2>7. \A k \in DOMAIN directory' : directory'[k].item \in reader'.before => k \in reader'.todo \/ Collected(k)'
        BY <2>1, <2>2, <2>3, <2>4, <2>5 DEF CountryFits
    <2>8. \A f \in reader'.files : \E k \in DOMAIN directory' : f.item = directory'[k].item /\ NameOf(f, directory'[k])
        BY <2>1, <2>2, <2>3 DEF CountryFits
    <2>9. CountryFits'
        BY <2>1, <2>2, <2>6, <2>7, <2>8 DEF CountryFits, NameOf
    <2> QED
        BY <2>2, <2>9 DEF ArchiveInv
<1>2. CASE reader.kind = "all"
    <2>1. AllFits
        BY <1>2 DEF ArchiveInv
    <2>2. /\ DOMAIN reader' = DOMAIN reader /\ reader'.kind = "all" /\ reader'.files = reader.files
          /\ reader'.before = reader.before
        BY <1>2, <2>1 DEF AllFits
    <2>3. ToSet(directory) \subseteq ToSet(directory')
        BY DEF EntriesStay, ToSet
    <2>4. \A f : InDirectory(f) => InDirectory(f)'
        BY <2>3 DEF InDirectory
    <2> QED
        BY <2>1, <2>2, <2>4 DEF ArchiveInv, AllFits
<1>3. CASE reader.kind \notin {"country", "all"}
    BY <1>3 DEF ArchiveInv
<1> QED
    BY <1>1, <1>2, <1>3

\* A file is added: what was collected stays so, if only by a namesake.
LEMMA FileFits ==
    ASSUME SearchInv, StoresHold, CountryFits, NEW k \in DOMAIN directory, NEW name,
           name \in {generateCertificateFilename(directory[k]), <<directory[k].item.id>>},
           NEW l \in DOMAIN directory, Collected(l)
    PROVE  LET files == AddFile(reader.files, name, directory[k].item)
               e == directory[l]
           IN  \/ \E f \in files : f.item = e.item
               \/ e.item \in reader.lost
               \/ e.item.kind = "ml"
               \/ e.item.kind = "crl" /\ reader.format = "pem"
               \/ \E f \in files : f.item # e.item /\ f.name = generateCertificateFilename(e)
<1> DEFINE new == [name |-> name, item |-> directory[k].item]
           files == AddFile(reader.files, name, directory[k].item)
           e == directory[l]
<1>1. new \in files /\ new.name = name /\ new.item = directory[k].item
      /\ \A f \in reader.files : f.name # name => f \in files
    BY DEF AddFile
<1> HIDE DEF new, files
<1>2. ASSUME NEW f \in reader.files, f.item = e.item
      PROVE  \/ \E g \in files : g.item = e.item
             \/ \E g \in files : g.item # e.item /\ g.name = generateCertificateFilename(e)
    <2>1. CASE f.name # name
        BY <1>1, <1>2, <2>1
    <2>2. CASE f.name = name
        <3>1. PICK j \in DOMAIN directory : f.item = directory[j].item /\ NameOf(f, directory[j])
            BY DEF CountryFits
        <3>2. j = l
            BY <1>2, <3>1 DEF StoresHold
        <3>3. CASE f.name = generateCertificateFilename(e)
            BY <1>1, <2>2, <3>3
        <3>4. CASE f.name = <<e.item.id>>
            <4>1. name # generateCertificateFilename(directory[k])
                BY <2>2, <3>4 DEF generateCertificateFilename
            <4>2. directory[k].item.id = e.item.id
                BY <2>2, <3>4, <4>1
            <4>3. k = l
                BY <4>2, IdsDiffer
            <4> QED
                BY <1>1, <4>3
        <3> QED
            BY <3>1, <3>2, <3>3, <3>4 DEF NameOf
    <2> QED
        BY <2>1, <2>2
<1>3. ASSUME NEW f \in reader.files, f.item # e.item, f.name = generateCertificateFilename(e)
      PROVE  \/ \E g \in files : g.item = e.item
             \/ \E g \in files : g.item # e.item /\ g.name = generateCertificateFilename(e)
    BY <1>1, <1>3
<1> QED
    BY <1>2, <1>3 DEF Collected, files

\* The entry in turn is one of the directory's.
LEMMA InTurn ==
    ASSUME SearchInv, CountryFits, CountryStep
    PROVE  FirstTodo \in reader.todo /\ FirstTodo \in DOMAIN directory
<1>1. reader.todo \subseteq DOMAIN directory /\ DOMAIN directory \subseteq Nat /\ reader.todo # {}
    BY DEF CountryFits, CountryStep, SearchInv, StoresShape
<1>2. PICK n \in reader.todo : \A t \in reader.todo : n <= t
    BY <1>1, Least
<1>3. FirstTodo \in reader.todo
    BY <1>2 DEF FirstTodo, Min
<1> QED
    BY <1>1, <1>3

\* An entry is read, left out or lost, and all others are as they were.
LEMMA EntryFits ==
    ASSUME SearchInv, StoresHold, ArchiveInv, ZipEntry \/ ZipEntryFails \/ NameFails
    PROVE  ArchiveInv' /\ reader'.kind = "country" /\ DOMAIN reader' = DOMAIN reader
<1>1. CountryStep /\ reader.kind = "country" /\ reader.pc = "reading" /\ UNCHANGED <<certRows, crlRows, directory>>
    BY DEF ZipEntry, ZipEntryFails, NameFails, CountryStep
<1>2. CountryFits
    BY <1>1 DEF ArchiveInv
<1> SUFFICES ASSUME NEW m \in reader.todo, m = FirstTodo, m \in DOMAIN directory, NEW e \in StoreEntry, e = directory[m]
             PROVE  ArchiveInv' /\ reader'.kind = "country" /\ DOMAIN reader' = DOMAIN reader
    BY <1>1, <1>2, InTurn DEF SearchInv, StoresShape
<1>3. PICK name \in {generateCertificateFilename(e), <<e.item.id>>} :
          \/ /\ exportCertificateFile(e, reader.format)
             /\ reader' = [reader EXCEPT !.todo = @ \ {m}, !.files = AddFile(@, name, e.item)]
          \/ /\ ~exportCertificateFile(e, reader.format)
             /\ reader' = [reader EXCEPT !.todo = @ \ {m}]
          \/ reader' = [reader EXCEPT !.todo = @ \ {m}, !.lost = @ \cup {e.item}]
    <2>1. CASE ZipEntry
        <3>1. CASE exportCertificateFile(e, reader.format)
            BY <2>1, <3>1 DEF ZipEntry, EntryInTurn
        <3>2. CASE ~exportCertificateFile(e, reader.format)
            <4>1. reader' = [reader EXCEPT !.todo = @ \ {m}, !.files = @]
                BY <2>1, <3>2 DEF ZipEntry, EntryInTurn
            <4>2. reader' = [reader EXCEPT !.todo = @ \ {m}]
                BY <1>2, <4>1 DEF CountryFits
            <4> QED
                BY <3>2, <4>2
        <3> QED
            BY <3>1, <3>2
    <2>2. CASE ZipEntryFails
        BY <2>2 DEF ZipEntryFails, EntryInTurn
    <2>3. CASE NameFails
        BY <2>3 DEF NameFails, EntryInTurn
    <2> QED
        BY <2>1, <2>2, <2>3
<1>4. /\ DOMAIN reader' = DOMAIN reader /\ reader'.kind = "country" /\ reader'.format = reader.format
      /\ reader'.todo = reader.todo \ {m} /\ reader'.before = reader.before /\ reader'.pc = "reading"
      /\ reader'.files \in {reader.files, AddFile(reader.files, name, e.item)}
      /\ reader.lost \subseteq reader'.lost
    <2>1. DOMAIN reader = {"kind", "format", "todo", "files", "lost", "disturbed", "before", "pc"}
        BY <1>2 DEF CountryFits
    <2>2. CASE reader' = [reader EXCEPT !.todo = @ \ {m}, !.files = AddFile(@, name, e.item)]
        BY <1>1, <2>1, <2>2
    <2>3. CASE reader' = [reader EXCEPT !.todo = @ \ {m}]
        BY <1>1, <2>1, <2>3
    <2>4. CASE reader' = [reader EXCEPT !.todo = @ \ {m}, !.lost = @ \cup {e.item}]
        BY <1>1, <2>1, <2>4
    <2> QED
        BY <1>3, <2>2, <2>3, <2>4
<1>5. ASSUME NEW l \in DOMAIN directory, Collected(l) PROVE Collected(l)'
    <2>1. CASE reader'.files = reader.files
        BY <1>1, <1>4, <1>5, <2>1 DEF Collected
    <2>2. CASE reader'.files = AddFile(reader.files, name, e.item)
        BY <1>1, <1>2, <1>4, <1>5, <2>2, FileFits, SMTT(30) DEF Collected
    <2> QED
        BY <1>4, <2>1, <2>2
<1>6. Collected(m)'
    <2>1. CASE reader' = [reader EXCEPT !.todo = @ \ {m}, !.files = AddFile(@, name, e.item)]
        <3>1. reader'.files = AddFile(reader.files, name, e.item)
            BY <1>2, <2>1 DEF CountryFits
        <3>2. [name |-> name, item |-> e.item] \in reader'.files
            BY <3>1 DEF AddFile
        <3>3. directory' = directory /\ directory[m] = e
            BY <1>1
        <3> QED
            BY <3>2, <3>3 DEF Collected
    <2>2. CASE ~exportCertificateFile(e, reader.format)
        <3>1. e.item.kind \in {"cert", "crl", "ml"}
            BY DEF StoreEntry, StoreItems
        <3>2. e.item.kind = "ml" \/ (e.item.kind = "crl" /\ reader.format = "pem")
            BY <2>2, <3>1 DEF exportCertificateFile, parseEntry, getCertificateBinary, parseX509Certificate
        <3> QED
            BY <1>1, <1>4, <3>2 DEF Collected
    <2>3. CASE reader' = [reader EXCEPT !.todo = @ \ {m}, !.lost = @ \cup {e.item}]
        <3>1. e.item \in reader'.lost
            BY <1>2, <2>3 DEF CountryFits
        <3> QED
            BY <1>1, <3>1 DEF Collected
    <2> QED
        BY <1>3, <2>1, <2>2, <2>3
<1>7. \A f \in reader'.files : \E k \in DOMAIN directory : f.item = directory[k].item /\ NameOf(f, directory[k])
    <2>1. \A f \in reader.files : \E k \in DOMAIN directory : f.item = directory[k].item /\ NameOf(f, directory[k])
        BY <1>2 DEF CountryFits
    <2>2. ASSUME NEW f \in AddFile(reader.files, name, e.item), f \notin reader.files
          PROVE  f.item = e.item /\ NameOf(f, e)
        BY <2>2 DEF AddFile, NameOf
    <2> QED
        BY <1>4, <2>1, <2>2
<1>8. \A k \in DOMAIN directory : directory[k].item \in reader.before => k \in reader'.todo \/ Collected(k)'
    BY <1>2, <1>4, <1>5, <1>6 DEF CountryFits
<1>9. CountryFits'
    BY <1>1, <1>2, <1>4, <1>7, <1>8 DEF CountryFits, NameOf
<1> QED
    BY <1>4, <1>9 DEF ArchiveInv

\* The archive is closed when nothing is left to read.
LEMMA CloseFits ==
    ASSUME ArchiveInv, CloseZip
    PROVE  ArchiveInv' /\ reader'.kind = "country" /\ DOMAIN reader' = DOMAIN reader
<1>1. /\ reader.kind = "country" /\ reader.todo = {} /\ UNCHANGED <<certRows, crlRows, directory>>
      /\ reader' = [reader EXCEPT !.pc = IF reader.files = {} THEN "failed" ELSE "done"]
    BY DEF CloseZip
<1>2. CountryFits
    BY <1>1 DEF ArchiveInv
<1>3. /\ DOMAIN reader' = DOMAIN reader /\ reader'.kind = "country" /\ reader'.format = reader.format
      /\ reader'.todo = {} /\ reader'.before = reader.before
      /\ reader'.files = reader.files /\ reader'.lost = reader.lost
    BY <1>1, <1>2 DEF CountryFits
<1>4. \A k : Collected(k)' = Collected(k)
    BY <1>1, <1>3 DEF Collected
<1> QED
    BY <1>1, <1>2, <1>3, <1>4 DEF CountryFits, ArchiveInv, NameOf

\* The archive of a country begins with the places of its entries.
LEMMA StartFitsCountry ==
    ASSUME SearchInv, StoresHold, NEW country, NEW format, StartCountry(country, format)
    PROVE  ArchiveInv' /\ reader'.kind = "country" /\ "kind" \in DOMAIN reader'
<1> DEFINE places == getDnsByCountryAndType(country)
<1>1. /\ reader' = [kind |-> "country", format |-> format, todo |-> places, files |-> {},
                    lost |-> {}, disturbed |-> FALSE, before |-> ItemsOf("country", places),
                    pc |-> IF places = {} THEN "failed" ELSE "reading"]
      /\ UNCHANGED <<certRows, crlRows, directory>>
    BY DEF StartCountry
<1>2. places \subseteq DOMAIN directory
    BY DEF getDnsByCountryAndType, Found
<1> HIDE DEF places
<1>3. ItemsOf("country", places) = {directory[k].item : k \in places}
    BY DEF ItemsOf, ItemAt
<1>4. /\ DOMAIN reader' = {"kind", "format", "todo", "files", "lost", "disturbed", "before", "pc"}
      /\ reader'.kind = "country" /\ reader'.todo = places /\ reader'.files = {}
      /\ reader'.before = {directory[k].item : k \in places} /\ (reader'.pc # "reading" => places = {})
    BY <1>1, <1>3
<1>5. \A k \in DOMAIN directory : directory[k].item \in reader'.before => k \in places
    BY <1>2, <1>4 DEF StoresHold
<1>6. CountryFits'
    BY <1>1, <1>2, <1>4, <1>5 DEF CountryFits
<1> QED
    BY <1>4, <1>6 DEF ArchiveInv

\* The archive of everything begins with the rows that are published.
LEMMA StartFitsAll ==
    ASSUME SearchInv, StoresHold, StartExport
    PROVE  ArchiveInv' /\ reader'.kind = "all" /\ "kind" \in DOMAIN reader'
<1>1. /\ reader' = [kind |-> "all", files |-> {Entry(r.item, ExportFolder(r)) : r \in findAllForExport},
                    before |-> {r.item : r \in findAllForExport}, disturbed |-> FALSE, pc |-> "crls"]
      /\ UNCHANGED <<certRows, crlRows, directory>>
    BY DEF StartExport
<1>2. /\ DOMAIN reader' = {"kind", "files", "before", "disturbed", "pc"} /\ reader'.kind = "all"
      /\ reader'.files = {Entry(r.item, ExportFolder(r)) : r \in findAllForExport}
      /\ reader'.before = {r.item : r \in findAllForExport}
    BY <1>1
<1>3. \A x \in reader'.before : \E f \in reader'.files : f.item = x
    <2>1. \A r \in findAllForExport : Entry(r.item, ExportFolder(r)) \in reader'.files
        BY <1>2
    <2>2. \A r : Entry(r.item, ExportFolder(r)).item = r.item
        BY DEF Entry
    <2>3. ASSUME NEW x \in reader'.before PROVE \E f \in reader'.files : f.item = x
        <3>1. PICK r \in findAllForExport : x = r.item
            BY <1>2
        <3> QED
            BY <2>1, <2>2, <3>1
    <2> QED
        BY <2>3
<1>4. ASSUME NEW r \in findAllForExport PROVE InDirectory(Entry(r.item, ExportFolder(r)))
    <2>1. PICK i \in DOMAIN certRows : certRows[i] = r /\ r.stored
        BY DEF findAllForExport
    <2>2. PICK k \in DOMAIN directory : directory[k].item = r.item
        BY <2>1 DEF SearchInv, StoresAgree
    <2> DEFINE e == directory[k]
    <2>3. r \in StoreRow /\ e \in StoreEntry /\ IsClassified(r) /\ IsPlaced(r, e) /\ e \in ToSet(directory) /\ e.item = r.item
        BY <2>1, <2>2 DEF SearchInv, StoresShape, StoresAgree, ToSet
    <2> HIDE DEF e
    <2>4. ExportFolder(r) = <<e.tree, e.o>> \/ (CaseOnly(r) /\ e.o = "lc")
        BY <2>3, PlacesAgree
    <2>5. CASE ExportFolder(r) = <<e.tree, e.o>>
        <3>1. Entry(r.item, ExportFolder(r)) = e
            BY <2>3, <2>5 DEF Entry, StoreEntry
        <3> QED
            BY <2>3, <3>1 DEF InDirectory
    <2>6. CASE CaseOnly(r) /\ e.o = "lc"
        BY <2>3, <2>6 DEF InDirectory, CaseOnly, Entry
    <2> QED
        BY <2>4, <2>5, <2>6
<1>5. \A f : InDirectory(f)' = InDirectory(f)
    <2>1. directory' = directory
        BY <1>1
    <2> QED
        BY <2>1 DEF InDirectory
<1>6. AllFits'
    BY <1>2, <1>3, <1>4, <1>5 DEF AllFits
<1> QED
    BY <1>2, <1>6 DEF ArchiveInv

\* The CRLs and the lists that it reads later have their entries.
LEMMA ExportFits ==
    ASSUME SearchInv, StoresHold, ArchiveInv, ExportCrls \/ ListsFound \/ ListsNotFound
    PROVE  ArchiveInv' /\ reader'.kind = "all" /\ DOMAIN reader' = DOMAIN reader
<1>1. reader.kind = "all" /\ UNCHANGED <<certRows, crlRows, directory>>
    BY DEF ExportCrls, ListsFound, ListsNotFound, ExportLists
<1>2. AllFits
    BY <1>1 DEF ArchiveInv
<1>3. \A c \in ToSet(crlRows) : Entry(c, <<"data", "crl">>) \in ToSet(directory)
    BY DEF StoresHold, ToSet
<1>4. \E found \in SUBSET ToSet(directory), pc \in {"lists", "failed", "done"} :
          reader' = [reader EXCEPT !.files = @ \cup found, !.pc = pc]
    <2>1. CASE ExportCrls
        BY <1>3, <2>1 DEF ExportCrls
    <2>2. CASE ListsFound
        BY <2>2 DEF ListsFound, ExportLists
    <2>3. CASE ListsNotFound
        BY <2>3 DEF ListsNotFound, ExportLists
    <2> QED
        BY <2>1, <2>2, <2>3
<1>5. PICK found \in SUBSET ToSet(directory) :
          /\ DOMAIN reader' = DOMAIN reader /\ reader'.kind = "all" /\ reader'.before = reader.before
          /\ reader'.files = reader.files \cup found
    BY <1>1, <1>2, <1>4 DEF AllFits
<1>6. \A f : InDirectory(f)' = InDirectory(f)
    BY <1>1 DEF InDirectory
<1>7. \A f \in found : InDirectory(f)
    BY DEF InDirectory
<1>8. AllFits'
    BY <1>2, <1>5, <1>6, <1>7 DEF AllFits
<1> QED
    BY <1>5, <1>8 DEF ArchiveInv

\* An entry that comes is after those that are there.
LEMMA EntryComes ==
    ASSUME SearchInv, NEW e \in StoreEntry, directory' = Append(directory, e)
    PROVE  EntriesStay
<1>1. directory \in Seq(StoreEntry)
    BY DEF SearchInv, StoresShape
<1>2. /\ DOMAIN directory = 1..Len(directory) /\ Len(directory) \in Nat
      /\ DOMAIN directory' = DOMAIN directory \cup {Len(directory) + 1}
      /\ \A k \in DOMAIN directory : directory'[k] = directory[k]
    BY <1>1, Appended
<1>3. \A k \in DOMAIN directory : k < Len(directory) + 1
    BY <1>2
<1> QED
    BY <1>2, <1>3 DEF EntriesStay

\* The steps of the stores, under a reader.
LEMMA StoresChange ==
    ASSUME SearchInv, StoresHold, SearchInv', StoresHold', WalkInv, ArchiveInv,
           \/ \E c \in coming : \/ \E way \in {"ldif", "list", "file"} : InsertRow(c, way)
                                \/ StoreCrl(c) \/ StoreList(c)
           \/ \E i \in DOMAIN certRows : PublishRow(i) \/ RelayPublish(i) \/ DeleteRow(i)
           \/ \E i \in DOMAIN crlRows : DeleteCrl(i)
           \/ UNCHANGED searchVars
    PROVE  WalkInv' /\ ArchiveInv'
<1> DEFINE Fits ==
        /\ EntriesStay
        /\ reader' = reader \/ reader' = [reader EXCEPT !.disturbed = TRUE]
        /\ reader.kind \in Walks =>
               /\ CertRowsStay \/ reader'.disturbed
               /\ CrlRowsStay \/ reader'.disturbed
               /\ reader.kind = "source" /\ reader.pc = "counted" =>
                      reader'.disturbed \/ RowsFound(reader.query)' = RowsFound(reader.query)
<1>1. directory' = directory => EntriesStay
    BY DEF EntriesStay, SearchInv, StoresShape
<1>2. certRows' = certRows => CertRowsStay
    BY DEF CertRowsStay
<1>3. crlRows' = crlRows => CrlRowsStay
    BY DEF CrlRowsStay, StoresHold
<1>4. reader' = reader /\ certRows' = certRows => RowsFound(reader.query)' = RowsFound(reader.query)
    BY DEF RowsFound
<1>5. reader.kind \in Walks /\ reader' = [reader EXCEPT !.disturbed = TRUE] => reader'.disturbed
    BY DEF WalkInv, WalkFits, WalkShape
<1>6. ASSUME NEW c \in coming, NEW w \in Ways, InsertRow(c, w) PROVE Fits
    <2>1. PICK row : certRows' = Append(certRows, row)
        BY <1>6 DEF InsertRow
    <2>2. directory' = directory /\ crlRows' = crlRows
          /\ reader' = IF reader.kind = "source" /\ reader.pc = "counted" THEN [reader EXCEPT !.disturbed = TRUE] ELSE reader
        BY <1>6 DEF InsertRow
    <2>3. \A i \in DOMAIN certRows : i \in DOMAIN certRows' /\ certRows'[i] = certRows[i]
        BY <2>1 DEF SearchInv, StoresShape
    <2>4. CertRowsStay
        BY <2>3 DEF CertRowsStay
    <2> QED
        BY <1>1, <1>3, <1>5, <2>2, <2>4
<1>7. ASSUME NEW i \in DOMAIN certRows, PublishRow(i) \/ RelayPublish(i) PROVE Fits
    <2>1. EntriesStay
        BY <1>7, PublishedEntry, EntryComes
    <2>2. certRows' = [certRows EXCEPT ![i].stored = TRUE] /\ crlRows' = crlRows /\ reader' = reader
        BY <1>7 DEF PublishRow, RelayPublish
    <2>3. certRows'[i] = [certRows[i] EXCEPT !.stored = TRUE] /\ certRows[i] \in StoreRow /\ DOMAIN certRows' = DOMAIN certRows
          /\ \A j \in DOMAIN certRows : j # i => certRows'[j] = certRows[j]
        BY <2>2 DEF SearchInv, StoresShape
    <2>4. certRows'[i].item = certRows[i].item /\ certRows'[i].way = certRows[i].way /\ certRows'[i].type = certRows[i].type
        BY <2>3 DEF StoreRow
    <2>5. \A j \in DOMAIN certRows : /\ certRows'[j].item = certRows[j].item /\ certRows'[j].way = certRows[j].way
                                     /\ certRows'[j].type = certRows[j].type
        BY <2>3, <2>4
    <2>6. CertRowsStay
        BY <2>3, <2>5 DEF CertRowsStay
    <2>7. RowsFound(reader.query)' = RowsFound(reader.query)
        <3>1. PICK S : /\ S = {j \in DOMAIN certRows' :
                             /\ certRows'[j].way = reader.query.way
                             /\ reader.query.country # "" => certRows'[j].item.country = reader.query.country
                             /\ reader.query.type # "" => certRows'[j].type = reader.query.type}
                       /\ S = {j \in DOMAIN certRows :
                             /\ certRows[j].way = reader.query.way
                             /\ reader.query.country # "" => certRows[j].item.country = reader.query.country
                             /\ reader.query.type # "" => certRows[j].type = reader.query.type}
            BY <2>3, <2>5
        <3>2. RowsFound(reader.query) = {-k : k \in S}
            BY <3>1 DEF RowsFound
        <3>3. reader' = reader
            BY <2>2
        <3>4. RowsFound(reader.query)' = {-k : k \in S}
            BY ONLY <3>1, <3>3 DEF RowsFound
        <3> QED
            BY <3>2, <3>4
    <2> QED
        BY <1>3, <2>1, <2>2, <2>6, <2>7
<1>8. ASSUME NEW c \in coming, StoreCrl(c) PROVE Fits
    <2>1. certRows' = certRows /\ reader' = reader /\ crlRows' = Append(crlRows, c) /\ c \in StoreCrls
          /\ directory' = Append(directory, Entry(c, <<"data", "crl">>))
        BY <1>8 DEF StoreCrl, StoreCrls, SearchInv, StoresShape
    <2>2. Entry(c, <<"data", "crl">>) \in StoreEntry
        BY <2>1 DEF Entry, StoreEntry, StoreCrls
    <2>3. EntriesStay
        BY <2>1, <2>2, EntryComes
    <2>4. /\ crlRows' \in Seq(StoreCrls) /\ DOMAIN crlRows = 1..Len(crlRows) /\ Len(crlRows) \in Nat
          /\ DOMAIN crlRows' = DOMAIN crlRows \cup {Len(crlRows) + 1}
          /\ \A k \in DOMAIN crlRows : crlRows'[k] = crlRows[k]
        BY <2>1, Appended DEF StoresHold
    <2>5. Len(crlRows') = Len(crlRows) + 1
        BY <2>1 DEF StoresHold
    <2>6. ToSet(crlRows) \subseteq ToSet(crlRows')
        BY <2>4 DEF ToSet
    <2>7. CrlRowsStay
        BY <2>4, <2>5, <2>6 DEF CrlRowsStay
    <2> QED
        BY <1>2, <1>4, <2>1, <2>3, <2>7
<1>9. ASSUME NEW c \in coming, StoreList(c) PROVE Fits
    <2>1. certRows' = certRows /\ reader' = reader /\ crlRows' = crlRows
          /\ directory' = Append(directory, Entry(c, <<"data", "ml">>)) /\ c \in StoreItems
        BY <1>9 DEF StoreList, SearchInv, StoresShape
    <2>2. Entry(c, <<"data", "ml">>) \in StoreEntry
        BY <2>1 DEF Entry, StoreEntry
    <2> QED
        BY <1>2, <1>3, <1>4, <2>1, <2>2, EntryComes
<1>10. ASSUME NEW i, DeleteRow(i) \/ DeleteCrl(i) PROVE Fits
    <2>1. directory' = directory /\ reader' = IF reader.kind = "none" THEN reader ELSE [reader EXCEPT !.disturbed = TRUE]
        BY <1>10 DEF DeleteRow, DeleteCrl, RowsGo
    <2>2. reader.kind \in Walks => reader.kind # "none"
        BY DEF Walks
    <2> QED
        BY <1>1, <1>5, <2>1, <2>2
<1>11. ASSUME UNCHANGED searchVars PROVE Fits
    <2>1. directory' = directory /\ reader' = reader /\ certRows' = certRows /\ crlRows' = crlRows
        BY <1>11 DEF searchVars
    <2> QED
        BY <1>1, <1>2, <1>3, <1>4, <2>1
<1> HIDE DEF Fits
<1>12. Fits
    BY <1>6, <1>7, <1>8, <1>9, <1>10, <1>11 DEF Ways
<1>13. EntriesStay /\ (reader' = reader \/ reader' = [reader EXCEPT !.disturbed = TRUE])
    BY <1>12 DEF Fits
<1>14. ArchiveInv'
    BY <1>13, ArchiveStays DEF WalkInv
<1>15. WalkInv'
    BY <1>12, <1>13, WalkStays DEF Fits
<1> QED
    BY <1>14, <1>15

\* All of it.
ReadInv == SearchInv /\ StoresHold /\ WalkInv /\ ArchiveInv

\* Every step keeps the stores as they must be.
LEMMA StoresHoldStays ==
    ASSUME SearchInv, StoresHold, [SearchNext]_searchVars PROVE StoresHold'
<1>1. ASSUME NEW c \in coming, \/ \E w \in Ways : InsertRow(c, w)
                               \/ StoreCrl(c) \/ StoreList(c)
      PROVE StoresHold'
    BY <1>1, InsertRowHolds, StoreOtherHolds
<1>2. ASSUME NEW i \in DOMAIN certRows, PublishRow(i) \/ RelayPublish(i) \/ DeleteRow(i) PROVE StoresHold'
    BY <1>2, PublishHolds, DeletesHold
<1>3. ASSUME NEW i \in DOMAIN crlRows, DeleteCrl(i) PROVE StoresHold'
    BY <1>3, DeletesHold
<1>4. ASSUME NEW kind, NEW q, StartWalk(kind, q) PROVE StoresHold'
    BY <1>4, StoresStay DEF StartWalk
<1>5. CASE CountPage \/ NextPage \/ WalkFails \/ CrlsUnread
    BY <1>5, StoresStay DEF CountPage, NextPage, WalkFails, CrlsUnread
<1>6. ASSUME NEW country, NEW format, StartCountry(country, format) PROVE StoresHold'
    BY <1>6, StoresStay DEF StartCountry
<1>7. CASE ZipEntry \/ ZipEntryFails \/ NameFails \/ CloseZip
    BY <1>7, StoresStay DEF ZipEntry, ZipEntryFails, NameFails, CloseZip
<1>8. CASE StartExport \/ ExportCrls \/ ListsFound \/ ListsNotFound \/ EndJob \/ UNCHANGED searchVars
    BY <1>8, StoresStay DEF StartExport, ExportCrls, ListsFound, ListsNotFound, EndJob, searchVars
<1> QED
    BY <1>1, <1>2, <1>3, <1>4, <1>5, <1>6, <1>7, <1>8 DEF SearchNext, Ways

\* Every step keeps the invariant.
LEMMA ReadInvStays ==
    ASSUME ReadInv, [SearchNext]_searchVars PROVE ReadInv'
<1>1. SearchInv' /\ StoresHold'
    BY SearchSteps, StoresHoldStays DEF ReadInv
<1> USE DEF ReadInv
<1>2. ASSUME reader'.kind \in Walks, WalkInv' PROVE ReadInv'
    BY <1>1, <1>2 DEF ArchiveInv, Walks
<1>3. ASSUME reader'.kind \in {"none", "country", "all"}, "kind" \in DOMAIN reader', ArchiveInv' PROVE ReadInv'
    BY <1>1, <1>3 DEF WalkInv, Walks
<1>4. CASE \/ \E c \in coming : \/ \E way \in {"ldif", "list", "file"} : InsertRow(c, way)
                                \/ StoreCrl(c) \/ StoreList(c)
           \/ \E i \in DOMAIN certRows : PublishRow(i) \/ RelayPublish(i) \/ DeleteRow(i)
           \/ \E i \in DOMAIN crlRows : DeleteCrl(i)
           \/ UNCHANGED searchVars
    BY <1>1, <1>4, StoresChange
<1>5. ASSUME NEW kind \in Walks, NEW q, StartWalk(kind, q) PROVE ReadInv'
    <2>1. reader'.kind = kind
        BY <1>5 DEF StartWalk
    <2> QED
        BY <1>2, <1>5, <2>1, StartFitsWalk
<1>6. CASE CountPage \/ NextPage \/ WalkFails \/ CrlsUnread
    <2>1. reader.kind \in Walks /\ reader'.kind = reader.kind
        <3>1. reader.kind \in Walks
            BY <1>6 DEF CountPage, NextPage, WalkFails, CrlsUnread, Walks
        <3>2. DOMAIN reader = {"kind", "query", "offset", "seen", "shown", "total", "before", "disturbed", "pc"}
            BY <3>1 DEF WalkInv, WalkFits, WalkShape
        <3> QED
            BY <1>6, <3>1, <3>2 DEF CountPage, NextPage, WalkFails, CrlsUnread
    <2> QED
        BY <1>2, <1>6, <2>1, CountFits, NextFits, FailFits, UnreadFits
<1>7. ASSUME NEW country, NEW format, StartCountry(country, format) PROVE ReadInv'
    BY <1>3, <1>7, StartFitsCountry
<1>8. CASE ZipEntry \/ ZipEntryFails \/ NameFails
    BY <1>3, <1>8, EntryFits DEF WalkInv
<1>9. CASE CloseZip
    BY <1>3, <1>9, CloseFits DEF WalkInv
<1>10. CASE StartExport
    BY <1>3, <1>10, StartFitsAll
<1>11. CASE ExportCrls \/ ListsFound \/ ListsNotFound
    BY <1>3, <1>11, ExportFits DEF WalkInv
<1>12. CASE EndJob
    <2>1. "kind" \in DOMAIN reader' /\ reader'.kind = "none"
        BY <1>12 DEF EndJob, NoJob
    <2> QED
        BY <1>3, <2>1 DEF ArchiveInv
<1> QED
    BY <1>4, <1>5, <1>6, <1>7, <1>8, <1>9, <1>10, <1>11, <1>12 DEF SearchNext, Walks

\* For any stores, sizes of a page and numbers of requests, whatever comes and goes while
\* one runs: a walk over the pages shows all that was there when it began and an archive
\* has it, but for what the two properties name.
THEOREM ReadersMissNothing == SearchSpec => []ReadingIsComplete
<1>1. SearchInit => ReadInv
    <2> SUFFICES ASSUME SearchInit PROVE ReadInv
        OBVIOUS
    <2>1. SearchInv
        BY SearchAssumption DEF SearchInit, SearchInv, StoresShape, StoresAgree
    <2>2. StoresHold
        BY DEF SearchInit, StoresHold
    <2>3. WalkInv /\ ArchiveInv
        BY DEF SearchInit, NoJob, WalkInv, ArchiveInv, Walks
    <2> QED
        BY <2>1, <2>2, <2>3 DEF ReadInv
<1>2. ReadInv => WalkMissesNothing
    <2> SUFFICES ASSUME ReadInv, reader.kind \in Walks
                 PROVE  /\ reader.kind \in {"report", "search"} => Cardinality(reader.seen) = reader.shown
                        /\ \/ reader.pc # "done"
                           \/ reader.before \subseteq reader.seen
                           \/ reader.kind \in {"source", "crls"} /\ reader.disturbed
                           \/ reader.kind = "crls" /\ Len(crlRows) > ReportLimit
        BY DEF WalkMissesNothing, Walks
    <2>1. WalkFits
        BY DEF ReadInv, WalkInv
    <2>2. reader.kind \in {"report", "search"} => Cardinality(reader.seen) = reader.shown
        BY <2>1 DEF WalkFits, ShownOnce
    <2>3. Undisturbed /\ reader.pc = "done" => reader.before \subseteq reader.seen
        BY <2>1 DEF WalkFits, StillToCome
    <2>4. Len(crlRows) \in Nat /\ ReportLimit \in Nat
        BY SearchAssumption DEF ReadInv, StoresHold
    <2> QED
        BY <2>2, <2>3, <2>4 DEF Undisturbed, Walks
<1>3. ReadInv => ArchivesAreComplete
    <2> SUFFICES ASSUME ReadInv, reader.kind \in {"country", "all"}, reader.pc = "done" PROVE ArchivesAreComplete
        BY DEF ArchivesAreComplete
    <2>1. CASE reader.kind = "country"
        <3>1. CountryFits /\ reader.todo = {}
            BY <2>1 DEF ReadInv, ArchiveInv, CountryFits
        <3>2. ASSUME NEW k \in DOMAIN directory, directory[k].item \in reader.before PROVE Collected(k)
            BY <3>1, <3>2 DEF CountryFits
        <3>3. ASSUME NEW e \in ToSet(directory), e.item \in reader.before
              PROVE  \/ e.item \in {f.item : f \in reader.files} \cup reader.lost
                     \/ e.item.kind = "ml"
                     \/ e.item.kind = "crl" /\ reader.format = "pem"
                     \/ \E f \in reader.files : f.item # e.item /\ f.name = generateCertificateFilename(e)
            <4>1. PICK k \in DOMAIN directory : directory[k] = e
                BY DEF ToSet
            <4>2. Collected(k)
                BY <3>2, <3>3, <4>1
            <4> QED
                BY <4>1, <4>2 DEF Collected
        <3> QED
            BY <2>1, <3>3 DEF ArchivesAreComplete
    <2>2. CASE reader.kind = "all"
        <3>1. AllFits
            BY <2>2 DEF ReadInv, ArchiveInv
        <3>2. reader.before \subseteq {f.item : f \in reader.files}
            BY <3>1 DEF AllFits
        <3> QED
            BY <2>2, <3>1, <3>2 DEF ArchivesAreComplete, AllFits, InDirectory
    <2> QED
        BY <2>1, <2>2
<1>4. ReadInv /\ [SearchNext]_searchVars => ReadInv'
    BY ReadInvStays
<1> QED
    BY <1>1, <1>2, <1>3, <1>4, PTL DEF SearchSpec, ReadingIsComplete

=============================================================================
