-------------------------- MODULE MCReconciliation --------------------------
(* Instances of Reconciliation for TLC. *)
EXTENDS Reconciliation, TLC

row(type, fp, selfSigned) ==
    [type |-> type, country |-> "KR", fp |-> fp, selfSigned |-> selfSigned]

\* Two DSCs of one country: two runs compete for them.
SameTypeAttr == 1 :> row("DSC", "f1", FALSE) @@ 2 :> row("DSC", "f2", FALSE)

\* A DSC and a CRL of one country: different phases, one country entry.
TwoAttr == 1 :> row("DSC", "f1", FALSE) @@ 2 :> row("CRL", "f2", FALSE)

\* One link certificate that is uploaded, deleted and uploaded again, and a
\* non-conformant DSC, which lives in a tree of its own.
TwinAttr == 1 :> row("CSCA", "f1", FALSE) @@ 2 :> row("CSCA", "f1", FALSE)
            @@ 3 :> row("DSC_NC", "f3", FALSE)
=============================================================================
