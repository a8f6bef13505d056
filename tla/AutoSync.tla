------------------------------ MODULE AutoSync ------------------------------
(***************************************************************************)
(* The daily synchronisation of pkd-relay on top of Reconciliation: a sync *)
(* check counts the rows of each type and the entries of each type, one    *)
(* query after the other, and the scheduler reconciles only if the counts  *)
(* differ.                                                                 *)
(***************************************************************************)
EXTENDS Reconciliation, Integers, Sequences

CONSTANT Scheduler   \* the daily thread, one of the runners
ASSUME SchedulerAssumption == Scheduler \in Runner

VARIABLES
    check,    \* local state of performSyncCheck
    verdict   \* the status of the latest check

autoVars == <<vars, check, verdict>>

\* The queries of getDbStats; getLdapStats then searches the two trees.
DbQueries == <<{"CSCA"}, {"MLSC"}, {"DSC", "DSC_NC"}, {"CRL"}>>

CheckPc == {"idle", "db", "data", "nc", "decide"}
Zero == [t \in RowType |-> 0]

\* still: neither store changed since the check began; failed: a query failed.
NoCheck == [pc |-> "idle", reconcile |-> FALSE, query |-> 1, db |-> Zero, ldap |-> Zero,
            still |-> TRUE, failed |-> FALSE]

\* o=csca and o=lc both count as CSCA; the nc-data tree holds DSC_NCs only.
TypeOf(dn) ==
    CASE dn[1] = "nc-data"          -> "DSC_NC"
      [] dn[3] \in {"csca", "lc"}   -> "CSCA"
      [] dn[3] = "mlsc"             -> "MLSC"
      [] dn[3] = "crl"              -> "CRL"
      [] OTHER                      -> "DSC"

Rows(t) == Cardinality({c \in Row : Live(c) /\ Attr[c].type = t})
EntriesOf(t) == Cardinality({dn \in entries : TypeOf(dn) = t})

Abs(n) == IF n < 0 THEN -n ELSE n
Discrepancy ==
    LET off(t) == Abs(check.db[t] - check.ldap[t])
    IN off("CSCA") + off("MLSC") + off("DSC") + off("DSC_NC") + off("CRL")

-----------------------------------------------------------------------------
AutoInit == Init /\ check = NoCheck /\ verdict = "NONE"

\* The first task of the day (or the check at startup) only reports; the last
\* one checks again, to decide.
StartCheck(reconcile) ==
    /\ check.pc = "idle"
    /\ run[Scheduler].pc = "idle"
    /\ check' = [NoCheck EXCEPT !.pc = "db", !.reconcile = reconcile]
    /\ UNCHANGED <<vars, verdict>>

Counted(next) == check' = next /\ UNCHANGED <<vars, verdict>>

\* Mutant of CountDb: the last query, on the crl table, is missing.
CountDbForgetsCrls ==
    LET types == DbQueries[check.query]
        last == check.query = Len(DbQueries) - 1
    IN /\ check.pc = "db"
       /\ Counted([check EXCEPT
              !.db = [t \in RowType |-> IF t \in types THEN Rows(t) ELSE check.db[t]],
              !.query = IF last THEN 1 ELSE @ + 1,
              !.pc = IF last THEN "data" ELSE "db"])

CountDb ==
    LET types == DbQueries[check.query]
        last == check.query = Len(DbQueries)
    IN /\ check.pc = "db"
       /\ Counted([check EXCEPT
              !.db = [t \in RowType |-> IF t \in types THEN Rows(t) ELSE check.db[t]],
              !.query = IF last THEN 1 ELSE @ + 1,
              !.pc = IF last THEN "data" ELSE "db"])

\* The exception is swallowed: what was not counted yet stays 0.
CountDbFails ==
    /\ check.pc = "db"
    /\ Counted([check EXCEPT !.query = 1, !.pc = "data", !.failed = TRUE])

CountData ==
    /\ check.pc = "data"
    /\ Counted([check EXCEPT
           !.ldap = [t \in RowType |-> IF t = "DSC_NC" THEN 0 ELSE EntriesOf(t)],
           !.pc = "nc"])

CountNc ==
    /\ check.pc = "nc"
    /\ Counted([check EXCEPT !.ldap["DSC_NC"] = EntriesOf("DSC_NC"), !.pc = "decide"])

\* A search fails and leaves its counts 0; with no connection both do.
CountLdapFails ==
    \/ /\ check.pc = "data"
       /\ \E l \in {"nc", "decide"} : Counted([check EXCEPT !.pc = l, !.failed = TRUE])
    \/ /\ check.pc = "nc"
       /\ Counted([check EXCEPT !.pc = "decide", !.failed = TRUE])

Conclude ==
    /\ check.pc = "decide"
    /\ verdict' = IF Discrepancy = 0 THEN "SYNCED" ELSE "DISCREPANCY"
    /\ check' = NoCheck

Report ==
    /\ Conclude
    /\ ~check.reconcile \/ Discrepancy = 0
    /\ UNCHANGED vars

\* Mutant of Reconcile: one missing entry is tolerated.
ReconcileAboveOne ==
    /\ Conclude
    /\ check.reconcile /\ Discrepancy > 0
    /\ IF Discrepancy > 1 THEN StartRun(Scheduler, FALSE) ELSE UNCHANGED vars

Reconcile ==
    /\ Conclude
    /\ check.reconcile /\ Discrepancy > 0
    /\ StartRun(Scheduler, FALSE)

\* Every other step, of the relay or of pkd-management.
Observed ==
    /\ check' = IF UNCHANGED store THEN check ELSE [check EXCEPT !.still = FALSE]
    /\ UNCHANGED verdict

Other ==
    \/ \E r \in Runner : RunStep(r) \/ RunFault(r)
    \/ \E r \in Runner \ {Scheduler} : \E dry \in BOOLEAN : StartRun(r, dry)
    \/ \E c \in Row : StartUpload(c) \/ UploadStep(c) \/ UploadFault(c) \/ DeleteUpload(c)
    \/ ManagementCrash

CheckStep == CountDb \/ CountData \/ CountNc \/ Report \/ Reconcile
CheckFault == CountDbFails \/ CountLdapFails

AutoNext ==
    \/ \E reconcile \in BOOLEAN : StartCheck(reconcile)
    \/ CheckStep \/ CheckFault
    \/ Other /\ Observed
    \/ RelayCrash /\ check' = NoCheck /\ UNCHANGED verdict

AutoSpec == AutoInit /\ [][AutoNext]_autoVars

\* The daily thread runs and checks again and again; the stores stop failing.
AutoFairness ==
    /\ \A r \in Runner : WF_autoVars(RunStep(r) /\ Observed)
    /\ \A c \in Row : WF_autoVars(UploadStep(c) /\ Observed)
    /\ WF_autoVars(CheckStep)
    /\ SF_autoVars(StartCheck(TRUE))
    /\ <>[][~(Fault \/ CheckFault)]_autoVars

AutoFairSpec == AutoSpec /\ AutoFairness

-----------------------------------------------------------------------------
(* Properties.                                                             *)

NeverDeleted == \A c \in Row : db[c] # "deleted"
Published == \A c \in Row : Live(c) => Dn(c) \in entries

\* Every variable stays within its type.
AutoTypeOK ==
    /\ TypeOK
    /\ check \in [pc : CheckPc, reconcile : BOOLEAN, query : 1..Len(DbQueries),
                  db : [RowType -> Nat], ldap : [RowType -> Nat],
                  still : BOOLEAN, failed : BOOLEAN]
    /\ verdict \in {"NONE", "SYNCED", "DISCREPANCY"}

\* Comparing counts is enough while nothing was ever deleted: a check whose
\* queries all succeeded, in stores that stood still, says SYNCED only if every
\* row has its entry (so no two rows share a DN, and the counts group DNs by
\* type the way the rows are).
SyncedIsTrue ==
    check.pc = "decide" /\ check.still /\ ~check.failed /\ NeverDeleted
        => (Discrepancy = 0 => Published)

\* The design makes the database the single source of truth and reconciles on
\* DISCREPANCY (AUTO_RECONCILE_DESIGN.md): SYNCED means that every row is
\* published, also after deletions.
SyncedMeansPublished ==
    check.pc = "decide" /\ check.still /\ ~check.failed
        => (Discrepancy = 0 => Published)

\* The status of a check is "SYNCED, DISCREPANCY, ERROR" (types.h): a check
\* that could not count is not SYNCED.
FailedIsNotSynced ==
    [][(Report \/ Reconcile) /\ check.failed => verdict' # "SYNCED"]_autoVars

\* The scheduler reconciles whenever the check says it must, so while nothing
\* is deleted every row reaches the directory in the end.
DailyPublishes == []NeverDeleted => EventuallyPublished
=============================================================================
