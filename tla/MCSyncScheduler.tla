--------------------------- MODULE MCSyncScheduler ---------------------------
(* Instances of SyncScheduler for TLC. *)
EXTENDS SyncScheduler, TLC

\* Daily sync with all its tasks, with none but the check, and switched off.
OnOff == {[enabled |-> TRUE, revalidate |-> TRUE, reconcile |-> TRUE],
          [enabled |-> TRUE, revalidate |-> FALSE, reconcile |-> FALSE],
          [enabled |-> FALSE, revalidate |-> FALSE, reconcile |-> TRUE]}
=============================================================================
