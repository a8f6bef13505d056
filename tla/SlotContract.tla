---------------------------- MODULE SlotContract ----------------------------
(***************************************************************************)
(* What the processing slots of pkd-management promise: an upload has at   *)
(* most one processing thread, and at most MAX_CONCURRENT_PROCESSING       *)
(* uploads have one, whatever the handlers, retries and crashes do.        *)
(***************************************************************************)
EXTENDS Integers, FiniteSets

CONSTANTS Upload, Thread,
          Slots     \* MAX_CONCURRENT_PROCESSING

VARIABLE serves     \* the <<thread, upload>> pairs that are under way

Served == {p[2] : p \in serves}

Init == serves = {}

\* A thread starts on an upload nobody serves, while a slot is free.
Take(t, u) ==
    /\ \A p \in serves : p[1] # t /\ p[2] # u
    /\ Cardinality(serves) < Slots
    /\ serves' = serves \cup {<<t, u>>}

Give(t, u) ==
    /\ <<t, u>> \in serves
    /\ serves' = serves \ {<<t, u>>}

\* The process dies.
Lose == serves' = {}

Next == Lose \/ \E t \in Thread, u \in Upload : Take(t, u) \/ Give(t, u)

Spec == Init /\ [][Next]_serves
=============================================================================
