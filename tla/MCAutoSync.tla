----------------------------- MODULE MCAutoSync -----------------------------
(* Instances of AutoSync for TLC. *)
EXTENDS AutoSync, MCReconciliation

\* No action reads summary or log: states that differ in them alone have the
\* same futures, and the checks that use this view do not look at them.
Followed == <<store, upload, run, crashes, check, verdict>>
=============================================================================
