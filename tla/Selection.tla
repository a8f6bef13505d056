----------------------------- MODULE Selection -----------------------------
(***************************************************************************)
(* What a loop over a list keeps of it: for (x : s) if (...) push_back(x). *)
(***************************************************************************)
EXTENDS Integers, Sequences

Only(s, T) ==
    LET upTo[n \in 0 .. Len(s)] ==
            IF n = 0 THEN <<>> ELSE IF s[n] \in T THEN Append(upTo[n - 1], s[n]) ELSE upTo[n - 1]
    IN  upTo[Len(s)]
=============================================================================
