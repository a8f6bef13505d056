----------------------------- MODULE TrustChain -----------------------------
(***************************************************************************)
(* TrustChainBuilder of the shared validation library: from a certificate  *)
(* to a self-signed root, through link certificates.                       *)
(*                                                                         *)
(* A pki says of each certificate its subject, its issuer, the certificates*)
(* whose key verifies it (signs), when it is valid (from, until) and the   *)
(* place at which the database returns it (rank).  Names that differ in    *)
(* case or in the order of their parts are one name.                       *)
(***************************************************************************)
EXTENDS Integers

CONSTANTS Cert, Name,
          MaxTime   \* bound: the clock stops here

Pki == [subject : [Cert -> Name], issuer : [Cert -> Name], signs : SUBSET (Cert \X Cert),
        from : [Cert -> 0..MaxTime], until : [Cert -> 0..MaxTime], rank : [Cert -> Nat]]

isSelfSigned(p, c) == p.subject[c] = p.issuer[c]
isCertificateExpired(p, c, t) == p.until[c] < t
isCertificateNotYetValid(p, c, t) == p.from[c] > t

findAllCscasByIssuerDn(p, c, cscas) == {s \in cscas : p.subject[s] = p.issuer[c]}
verified(p, c, cscas) == {s \in findAllCscasByIssuerDn(p, c, cscas) : <<s, c>> \in p.signs}

First(p, S) == CHOOSE s \in S : \A o \in S : p.rank[s] <= p.rank[o]

\* The first issuer whose key verifies, and failing that the first of the right
\* name, whose signature then fails at the end.
issuerOf(p, c, cscas) ==
    First(p, IF verified(p, c, cscas) # {} THEN verified(p, c, cscas) ELSE findAllCscasByIssuerDn(p, c, cscas))

\* A root ends the walk if it signs itself.
isRoot(p, c) == isSelfSigned(p, c) /\ <<c, c>> \in p.signs

\* How far the walk has come: its certificate, the names looked up so far,
\* whether the signatures below verify, whether one of the issuers has expired.
Position == [cert : Cert, visited : SUBSET Name, ok : BOOLEAN, old : BOOLEAN]
Foot(c) == [cert |-> c, visited |-> {}, ok |-> TRUE, old |-> FALSE]

\* Mutant of Climb: the signatures of the chain are not verified at the end.
ClimbUnverified(p, x, cscas, t) ==
    LET issuer == issuerOf(p, x.cert, cscas)
    IN [cert |-> issuer, visited |-> x.visited \cup {p.issuer[x.cert]}, ok |-> x.ok,
        old |-> x.old \/ isCertificateExpired(p, issuer, t)]

Climb(p, x, cscas, t) ==
    LET issuer == issuerOf(p, x.cert, cscas)
    IN [cert |-> issuer, visited |-> x.visited \cup {p.issuer[x.cert]},
        ok |-> x.ok /\ <<issuer, x.cert>> \in p.signs,
        old |-> x.old \/ isCertificateExpired(p, issuer, t)]

\* No name is looked up twice.
isStuck(p, x, cscas) ==
    \/ isSelfSigned(p, x.cert)
    \/ p.issuer[x.cert] \in x.visited
    \/ findAllCscasByIssuerDn(p, x.cert, cscas) = {}

Chain == [valid : BOOLEAN, found : BOOLEAN, cscaExpired : BOOLEAN]
NoChain == [valid |-> FALSE, found |-> FALSE, cscaExpired |-> FALSE]

\* What the walk finds from each place if no certificate may follow, and if what
\* it finds from the next one is known.
Nowhere == [x \in Position |-> NoChain]
Level(p, cscas, t, above) ==
    [x \in Position |->
        IF isRoot(p, x.cert) THEN [valid |-> x.ok, found |-> TRUE, cscaExpired |-> x.old]
        ELSE IF isStuck(p, x, cscas) THEN NoChain
        ELSE above[Climb(p, x, cscas, t)]]

\* The same if n certificates may follow.
Walk(p, cscas, t, maxDepth) ==
    LET walk[n \in 0..maxDepth] == IF n = 0 THEN Nowhere ELSE Level(p, cscas, t, walk[n - 1])
    IN walk

\* TrustChainBuilder::build
Build(p, leaf, cscas, t, maxDepth) == Walk(p, cscas, t, maxDepth)[maxDepth][Foot(leaf)]

-----------------------------------------------------------------------------

\* What a chain is, without an algorithm. A set of certificates is closed if the
\* roots that verify with their own key are in it, and with each member of S the
\* certificates of its name's issuing that its key verifies. The anchored
\* certificates are those in every closed set.
closed(p, S, X) ==
    /\ \A c \in Cert : isRoot(p, c) => c \in X
    /\ \A i \in X \cap S, c \in Cert : p.subject[i] = p.issuer[c] /\ <<i, c>> \in p.signs => c \in X

anchored(p, S) == {c \in Cert : \A X \in SUBSET Cert : closed(p, S, X) => c \in X}
=============================================================================
