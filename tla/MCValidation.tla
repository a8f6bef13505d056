---------------------------- MODULE MCValidation ----------------------------
(***************************************************************************)
(* Validation for TLC: three certificates in two arrangements. A chain root *)
(* - link certificate - document signer whose validity ends first; and a   *)
(* root followed by a root of the same name, which signed the document     *)
(* signer and expires. The second certificate is on a master list too.     *)
(***************************************************************************)
EXTENDS Validation, TLC

CONSTANTS root, link, dsc, A, B, C

Three(a, b, c) == root :> a @@ link :> b @@ dsc :> c
Arrangement(issuer, subject, signs, until) ==
    [subject |-> subject, issuer |-> issuer, signs |-> signs, from |-> [c \in Cert |-> 0],
     until |-> until, rank |-> Three(0, 1, 2)]

MCPkis == {
    Arrangement(Three(A, A, B), Three(A, B, C), {<<root, root>>, <<root, link>>, <<link, dsc>>},
                Three(MaxTime, MaxTime, 0)),
    Arrangement(Three(A, A, A), Three(A, A, C), {<<root, root>>, <<link, link>>, <<link, dsc>>},
                Three(MaxTime, 0, MaxTime))}

\* For the runs with two revalidations: the document signer is not valid yet.
LatePkis == {[Arrangement(Three(A, A, B), Three(A, B, C), {<<root, root>>, <<root, link>>, <<link, dsc>>},
                          Three(MaxTime, MaxTime, MaxTime)) EXCEPT !.from[dsc] = 1]}
=============================================================================
