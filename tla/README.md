# Verification of ICAO Local PKD

TLA+ modules, TLC configurations and TLAPS proofs for the parts of ICAO Local
PKD that keep state: two stores without a common transaction, several services,
many threads. Every module is translated from the source in `src/`; the comments
in the source and the documents are only quoted where they state what the
program should do.

Contents: [the system](#the-system) ·
[hard behaviours](#what-is-hard-here) ·
[modules](#the-modules) · [runs](#the-runs) · [proofs](#the-proofs) ·
[deviations](#deviations-found) · [not modelled](#what-is-not-modelled) ·
[plan](#plan)

## The system

ICAO Local PKD keeps the certificates (CSCA, DSC, non-conformant DSC, master
list signers) and CRLs of travel-document issuers in a relational database
(PostgreSQL or Oracle) and publishes them in an LDAP directory, from which
verifiers read them.

| Component | State | Operations | Talks to |
|---|---|---|---|
| pkd-management: uploads (`upload_handler`, `upload_service`, `processing_strategy`) | `uploaded_file`; slots for processing threads | upload, trigger, retry, delete | LDIF and master list processing, progress |
| pkd-management: LDIF processing (`ldif_processor`, repositories, query executors) | `certificate`, `crl`, `validation_result`; a batch transaction; a fingerprint cache | process the entries of a file, 500 to a batch | database, LDAP publication |
| pkd-management: master lists and single certificates (`masterlist_processor`, `upload_service`) | `certificate`, `certificate_duplicates`, counts | process a list, process a certificate | database, LDAP publication |
| pkd-management: LDAP publication (`ldap_storage_service`) | country (`c=`), organisation (`o=`) and leaf entries | `saveCertificateToLdap`, `saveCrlToLdap`, `ensureCountryOuExists` | LDAP |
| pkd-management: certificate and CRL files, deviation lists (`upload_handler`, `upload_service`) | `crl`, `revoked_certificate`, `deviation_list`, `deviation_entry` | preview a file, upload it | database |
| pkd-management: searches, reports, archives (`certificate_handler`, `certificate_service`, `ldap_certificate_repository`) | none of its own | search page by page, report, export | database, LDAP |
| pkd-relay: reconciliation (`reconciliation_engine`, `ldap_operations`) | `reconciliation_summary`, `reconciliation_log` | `performReconciliation` (also as a dry run) | database, LDAP, two connection pools |
| pkd-relay: sync check (`relay_operations`) and scheduler (`sync_scheduler`) | `sync_status`; threads, flags, a mutex | check, start, stop, configure, trigger | reconciliation, revalidation |
| connection pools of `shared/lib` (PostgreSQL, LDAP, Oracle) | idle connections, a counter, a flag, a mutex and a condition variable | acquire, release, shutdown | every service |
| validation (`trust_chain_builder`, `validation_service`, `db_csca_provider`), revalidation of pkd-relay | `validation_result`, cached CSCAs | validate, revalidate | database |
| pa-service | verifications and their data groups; DSCs registered on the way | verify, register a DSC | LDAP, database |
| API access (`auth_middleware`, `api_client_handler`, `api_rate_limiter`) | `api_clients`, usage log; request windows | admit a request, create, change, replace a key | database |
| accounts (`auth_handler`, `jwt_service`) | `users`, `auth_audit_log`; tokens | log in, renew, change password, administer | database |
| progress (`progress_manager`) | cached events and callbacks behind a mutex | report, register, clean up | browser streams |
| ICAO versions (`icao_sync_service`, `icao_handler`) | `icao_pkd_versions` | check the portal, status | database, ICAO portal |
| monitoring, AI analysis, frontend | metrics, statistics, views | periodic reads | the services above |

A row carries a flag `stored_in_ldap`. pkd-management inserts the row with the
flag FALSE, publishes the entry and sets the flag; when publication fails, or
in the database-only mode, the flag stays FALSE and the reconciliation of
pkd-relay publishes the row later. Two services, several threads in each, and
two stores without a common transaction meet in that flag. It is what the
project looks at first. The second meeting place is the batch transaction of the
query executor, one for the whole process of pkd-management; the third is
`validation_result`, which four parts of the system write.

### What makes each component correct

* Publication and reconciliation: the flag is never set without the entry; a
  row that is not flagged is published some day; the audit trail and the
  verdict of a run say what happened; a dry run writes nothing.
* Sync check and scheduler: `SYNCED` means that the stores agree; a
  discrepancy leads to a reconciliation; at most one daily thread, one
  configuration under it; stop returns, triggers are served.
* Pools: never more connections than allowed, a counter that is exact, no
  connection lent twice, nobody asleep for ever or beside an idle connection.
* Uploads: one processing thread for an upload, slots that come back, a verdict
  for every upload; no row lost beyond the batch of the statement that failed,
  no duplicate skipped that is not stored, every certificate of a list accounted
  for once.
* Validation: a valid certificate has a verified chain to a root; an older answer
  does not replace a better one; expiry is noticed.
* Verification: accepted means verified, and a verdict that was given is stored.
* Reports: the numbers of an upload are those of its rows, and the summary adds up
  what it read.
* Files: what the preview showed is what the upload stores, all of it or a failure.
* Searches and archives: every reader looks for an entry where the writer put it;
  a client that asks for all pages sees everything that was there all along.
* Access: bounded rates, a key that was replaced opens nothing, a token names an
  account.
* Progress and versions: no event missed, success means stored.

### What is hard here

`PROJECT.json` lists each hazard at its line. The classes:

* **Two stores, no transaction.** Row, entry and flag are three writes by
  whichever service gets there; every one can fail, be swallowed, or be the
  last before a crash (`ldap_storage_service.cpp`, `reconciliation_engine.cpp`).
* **One batch for all.** `beginBatch` and `endBatch` work on members of one
  executor that all upload threads share; a statement of any of them may abort
  the transaction of all, and COMMIT of an aborted transaction counts as success
  (`postgresql_query_executor.cpp`). Oracle behaves differently in each respect.
* **Statements where a transaction would be needed.** Look-up and insert, read
  and write back, check and change are two statements nearly everywhere, with
  another request in between; a failed statement is often swallowed.
* **Concurrent runs.** Nothing keeps two reconciliations, or a reconciliation
  and an upload or a deletion, from working on the same rows; rows are read in
  a batch and used later.
* **Liveness by batches.** `LIMIT ... ORDER BY id` over the unflagged rows.
* **Mutexes given up in the middle.** Pools connect without the mutex, sleep
  with timeouts, wrap a `size_t`, and may throw in a destructor; the progress
  manager copies a callback under its mutex and calls it outside.
* **Threads joined, detached and replaced** by HTTP requests (`sync_scheduler.cpp`),
  or started beside one another by retries (`upload_handler.cpp`).
* **Counts in the place of sets** in the sync check, taken one query at a time.
* **Caches** of fingerprints and CSCAs that nobody tells of other writers.
* **Numbers kept beside the rows they count**: in a thread, in the upload's row, in
  the statistics, each with its own idea of what counts.
* **The same decision taken twice**: what a certificate is, and so where its entry
  is, is worked out by each way in and again by each reader.

## The modules

| Module | Models | Source |
|---|---|---|
| `PkdStore` | abstract: what database and directory promise together | |
| `Reconciliation` | the upload of a certificate or CRL, its deletion, and reconciliation runs | `reconciliation_engine.cpp`, `ldap_operations.cpp`, `ldap_storage_service.cpp`, `certificate_repository.cpp`, `upload_handler.cpp` |
| `AutoSync` | the sync check and the scheduler's decision, on top of `Reconciliation` | `relay_operations.cpp`, `main.cpp` |
| `SyncScheduler` | the scheduler's threads, mutex and HTTP requests | `sync_scheduler.cpp`, `sync_handler.cpp`, `main.cpp` |
| `PoolContract` | abstract: what a connection pool promises | |
| `ConnectionPool` | state and steps the three pools share | the three pools |
| `DbConnectionPool`, `LdapConnectionPool`, `OracleConnectionPool` | each pool | `db_connection_pool.cpp`, `ldap_connection_pool.cpp`, `oracle_connection_pool.cpp` |
| `SlotContract` | abstract: what the processing slots promise | |
| `UploadJobs` | uploads, retries, deletions, slots, processing threads, verdicts | `upload_handler.cpp`, `upload_service.cpp`, `upload_repository.cpp`, `processing_strategy.cpp` |
| `LdifBatch` | entries of LDIF files, the shared batch, the fingerprint cache | `ldif_processor.cpp`, the two query executors, the repositories |
| `UploadReports` | the counts of an upload in its thread, in its row and in the statistics; LDIF and master list files, retries, deletions | `ldif_processor.cpp`, `masterlist_processor.cpp`, `upload_handler.cpp`, `progress_manager.h`, the upload, validation and statistics repositories |
| `Selection` | what a loop with a filter keeps of a list, for the modules that read lists | `pem_parser.cpp` |
| `CertificateFiles` | the format of a file, its preview and upload; CRLs with their revoked certificates, deviation lists with their entries | `upload_service.cpp`, `upload_handler.cpp`, `dl_parser.cpp`, `cert_type_detector.cpp`, `crl_repository.cpp`, `deviation_list_repository.cpp` |
| `CertificateSearch` | searches, reports and archives over the two stores, while certificates arrive and rows are deleted | `certificate_handler.cpp`, `certificate_service.cpp`, `ldap_certificate_repository.cpp`, the repositories |
| `CertImport` | certificates of master lists and single files, duplicates and counts | `masterlist_processor.cpp`, `upload_service.cpp`, `certificate_repository.cpp` |
| `TrustChain` | the walk from a certificate to a root, and what a chain is | `trust_chain_builder.cpp` |
| `Validation` | the four writers of the validation status, the CSCA cache | `ldif_processor.cpp`, `validation_service.cpp`, `db_csca_provider.cpp`, pkd-relay's `validation_service.cpp`, pa-service's `dsc_auto_registration_service.cpp` |
| `PaVerification` | passive authentication and what it stores | `pa_verification_service.cpp`, `certificate_validation_service.cpp`, `crl_checker.cpp` |
| `RateLimiter`, `ApiAccess` | requests with a key; windows, usage, administration | `api_rate_limiter.cpp`, `auth_middleware.cpp`, `api_client_handler.cpp` |
| `Accounts` | log-in, tokens, accounts and audit rows | `auth_handler.cpp`, `jwt_service.cpp`, `user_repository.cpp` |
| `Progress` | events, callbacks, streams | `progress_manager.cpp` |
| `IcaoVersions` | checks of the ICAO portal and the status page | `icao_sync_service.cpp`, `icao_version_repository.cpp`, `icao_handler.cpp` |
| `MC...` | instances for TLC | |
| `...Proofs` | theorems and their proofs | |

Composition. `Reconciliation` implements `PkdStore`; each pool implements
`PoolContract` under `Slot` for `Handle`; `UploadJobs` implements `SlotContract`
under the pairs of a thread and its upload; `AutoSync` extends `Reconciliation`,
whose actions it composes with its own, and is proved to implement it;
`Validation` extends `TrustChain`. `UploadJobs` sees of the entries only that
there is a batch; `LdifBatch` refines that, with what each statement does to it.
`MCServices` puts nine modules that share no state into one state space: a
variable `part` names the one that moves in a behaviour while the others stay
as they are, so that the run is the union of nine checks, not their product.
`MCLdifBatch` does the same with `LdifBatch` and `UploadReports`, which look at
the same uploads, one at transactions and one at numbers. `CertificateFiles`
counts only which certificates of a file get to the stores; what happens to one
on its way is `CertImport`.

### Reconciliation

| Variable | Code |
|---|---|
| `db` | a row of `certificate`/`crl`: not yet there, `stored_in_ldap` FALSE or TRUE, deleted with its upload |
| `entries`, `containers` | leaf entries; `c=` and `o=` entries |
| `upload` | the position of a pkd-management thread in the publication of one row |
| `run` | the local variables of `performReconciliation`: phase, rows to search, rows missing, counters |
| `summary`, `log` | the latest summary of each runner and that run's log rows |

One action is one call to a store: everything between two calls is local to a
thread and belongs to the action of the call before. Every call has an action
for its failure (`...Fails`), with what the code makes of it: an empty list, a
skipped row, a `FAILED` log row, or nothing at all where the exception is
swallowed. `RelayCrash` and `ManagementCrash` lose the threads of one service
and keep both stores. Phases are the types the engine reconciles, in its order
(CSCA, DSC, CRL); rows of other types are left to pkd-management, as in the
code. A row has a type, a country, a fingerprint and, for a CSCA, whether it
is self-signed: just what its DN and the unique index depend on. Rows are
integers because the engine reads them in the order of their ids.

### AutoSync

`check` is the local state of `performSyncCheck`: four counting queries on the
database, then one search for each of the two trees, in that order, other
steps going on in between. `still` and `failed` record whether the stores
changed and a query failed during the check; they are for the properties and
no guard reads them. `Reconcile` is the scheduler's decision: it reconciles
only on a discrepancy. A crash of the relay loses the check with the run.

### SyncScheduler

An action ends where `dailyMutex_` is taken or given up, where the code reads
or writes an atomic, or where a thread starts or ends. The daily thread's
sleep is three steps (predicate, falling asleep, asleep) because `stop()`
notifies without the mutex. `starts` numbers the threads: the `g`-th `start()`
makes the daily thread `g` and the detached check `g`. Two callers joining one
`std::thread` is undefined: either one gets an exception or both return
(`JoinThrows`, `Joined`). `overlap` records that two PUTs were under way at
once; it is for the properties.

### Pools

`idle`, `held` and `total` are the queue, what callers hold and the `size_t`
counter, which wraps at `WordSize`. A thread holds up to `Depth` connections,
each under a slot of its own, since the engine holds one connection and acquires
another. What a pool does with its mutex held is one step. Health checks that
fail on the way (`dead`) are part of the step that makes them. Condition
variables may wake for no reason; that and the timeout are `WakeUp`,
`TimedOut` and `Expire`. The pools differ where the code does: PostgreSQL
checks all idle connections and creates outside the mutex, LDAP checks one per
iteration and falls from a failed creation to the wait, Oracle creates with the
mutex held and closes with `logoff()`, which throws.

### UploadJobs

`row` is the committed `status` of an `uploaded_file`, `view` what the batch's
transaction sees of it, `batch` the executor's `batchMode_` with the state of
the transaction. `processing` and `active` are the slot set and counter under
`s_processingMutex`, `worker` the threads that hold a slot, `loose` the
master list threads that hold none, `req` where each HTTP thread is between
two statements. An LDIF is triggered by the service and once more by the
handler; a retry resets the status and triggers; a deletion looks at neither.
`Abort` is a statement of anybody that fails inside the batch. `Crash` loses
threads, slots and the batch; nothing looks for half-done uploads afterwards.
`abandoned` names the uploads nobody is going to finish and why they are none
of the promise: a crash, a retry refused by the slot after the status was
reset, a thread of a master list that failed, a status written into a
transaction that was rolled back.

### LdifBatch

The entries of the LDIF files of two jobs, one statement at a time. `db` is what
is committed, `pend` what the one batch transaction adds, `mark` the savepoint,
`cache` the fingerprint cache, `ldap` the directory. `executeCommand` goes into
the batch whoever calls it; `executeQuery` (the INSERT of a certificate on
PostgreSQL) commits on a connection of its own and does not see the batch.
`dbType` chooses the executor: on PostgreSQL foreign keys are checked, a failed
statement aborts the transaction and COMMIT of an aborted one is a rollback
reported as success; on Oracle a failed statement fails alone, there are no
savepoints, and the INSERT is part of the batch. COMMIT may fail on either
without anybody being told (`CommitLost`). `lost` and `hit` are history: the
entries a row of which was not written, and those with a statement that failed
by itself.

### CertImport

`processMasterListFile` and `processSingleCertificate` outside any batch: the
look-up (in the cache while it is loaded), the insert under the unique index,
the duplicate rows and counts, publication and the flag, one statement each,
for two uploads at a time and on either database. `slipped` records which upload
lost which statement. A deletion takes an upload's certificates along on
PostgreSQL and tells no cache.

### UploadReports

`mem` is an upload's thread with its counters, `uploadRow` what `uploaded_file` says of
it, `verdicts` the `validation_result`s with their `upload_id`; `certBy` and
`crlBy` are the rows that count, with their upload. An LDIF file is read entry by
entry and a list file at once (twice in different ways: `processMasterListFile`
the first time, `processMasterListFileAsync` when it is retried). What an entry
turns out to be is an outcome of the model (`Verdicts`). `slipped` marks the
threads that lost a race or a statement, whose numbers nobody can promise.
`summary` is `getStatisticsSummary` between its statements. An upload stops only
between two entries, and every entry is a batch of its own: the 500 of the code
delay the writes of the numbers and change none.

### CertificateFiles

`up` is a request between two statements and its `uploaded_file`, `crl` and `dl`
the rows of CRLs and deviation lists, `revokedRows` and `entryRows` what belongs
to them. A file is its extension, its encoding and what is in it; the format is
guessed from the first two and parsing fails when the third does not fit. Of a
certificate only its type matters. Deviations have lengths, because `DlParser`
skips by lengths and finds the next one only where they fit (`NextDeviation`).
`turn`, `late` and `slipped` are history: which upload had a CRL or a list last,
which came second, which lost a statement.

### CertificateSearch

`directory` lists the entries in the order they were added and `certRows`,
`crlRows` the rows in that of their insertion. A listing is a set of numbers: places of
entries (a search in the directory comes back in their order), places of rows, negated
(the newest first), ids of CRLs, which stand for country and date. A page is what has
the next ranks (`Rank`, `Slice`; `matchedCount` in the code); `seen` is what a client was
shown and `shown` how often it was shown something.
Each way in (`LdifType`, `ListType`, `FileType`) classifies a certificate
and places its entry; readers look for it where the row says. `reader` is a
request between two reads. External: an LDAP server that returns entries in the
order of their insertion; a search that fails is one of `MaxReadFaults`.

### TrustChain, Validation

`Build` is `TrustChainBuilder::build` as a recursive function over the depth that
is left (`Walk`, made of `Level` and `Climb`, one level and one candidate);
`anchored` is what a chain is, without an algorithm: the least set that is closed
under "signed by". A pki is a record of
functions: names, who signed whom, validity, the order of the rows. `Validation`
has the writers of `validation_result`: LDIF uploads (with the CSCAs they loaded
when they began), the revalidation of pkd-management (with the cache of its
provider, which nobody invalidates), the daily run of pkd-relay (which writes
what it read earlier), and, without a result, master lists and pa-service.
`RelayAhead` is the difference between the clocks `mktime` makes of UTC.

### PaVerification

One verification at a time, statement by statement, while pkd-management adds
CSCAs and CRLs to the directory and days pass. What cryptography says of a
document is an outcome (`Documents`). The CRL search returns any entry of the
country and fails above `CrlLimit` of them.

### RateLimiter, ApiAccess, Accounts, Progress, IcaoVersions

* `RateLimiter`: the check is one step, under its mutex; time is ticks.
  `accepted` counts what was accepted up to each tick, for the property: a stretch
  is a difference of two of its values.
* `ApiAccess`: `apiRow` is the table, `call` and `edit` the requests of clients
  and administrators between two statements; administrators read a row and write
  it back later.
* `Accounts`: `account`, `tokens`, `audited` (accounts with an audit row, whose
  foreign key keeps them). A token is believed until it expires.
* `Progress`: `progressCache` and `sseCallbacks` change under one mutex, streams
  are written outside. `stream.got` keeps what a client received.
* `IcaoVersions`: `check` are the timer and requests between two statements;
  `columns` says which of the two schemas the table has, since PostgreSQL's lacks
  columns the query names.

## The runs

Run `tlc -config X.cfg M.tla` in this directory. "Bounds" are the constants of
the `.cfg`; all uncapped counters are capped by them.

| Run | Module, bounds | Checks |
|---|---|---|
| `ReconUpload` | `MCReconciliation`: a DSC and a CRL of one country, one runner, one upload at a time, one crash, fair | `StoredIsPublished`: the flag implies the entry; `ParentsReady`: the relay adds below existing parents; `EventuallyPublished` |
| `ReconRace` | two DSCs, two runners, rows inserted without LDAP, one crash | `LogIsTruthful`, `SummaryAgreesWithLog` |
| `ReconReupload` | a link certificate, its twin and a non-conformant DSC, one runner | `ImplementsStore`: refinement of `PkdStore` |
| `AutoSync` | `MCAutoSync`: a DSC and a CRL, the scheduler, one crash, fair | `SyncedIsTrue`, `DailyPublishes` |
| `DbPool` | `MCDbConnectionPool`: three threads, two slots each, `MaxSize` 2, fair | `ImplementsContract`, `AcquireReturns` |
| `LdapPool` | the same, symmetric | `ImplementsContract` |
| `OraclePool` | the same, symmetric | `AvailableMeansAwake`, `ImplementsContract` |
| `Sched` | `MCSyncScheduler`: two HTTP threads, main, configurations, one restart (two PUTs may begin it), fair | `SerialRestartIsSafe`, `StopReturns`, `TriggerServed` |
| `Uploads` | `MCUploadJobs`: two clients, two uploads of three kinds of file, one slot, two workers, one crash, fair | `OneThread`, `UnsettledHasActor`, `EventuallySettled`, `SlotsSpec`: refinement of `SlotContract` |
| `LdifBatch` | `MCLdifBatch`, one part at a time: the batch (two jobs, a certificate and a CRL they share, batches of two, two faults), the reports (two uploads with one of three pairs of files, three verdicts, one mishap); both databases | `NotesAreTrue`, `DoneIsComplete`; `CountsAreRows`, `VerdictsAddUp`, `SummaryAddsUp` |
| `Validation` | `MCValidation`: three certificates in two arrangements, one upload, one revalidation, one fault, fair relay | `ValidIsAnchored`, `NotTakenBack`, `ExpiryIsNoticed` |
| `Services` | `MCServices`, one part at a time: limiter (two clients), access and accounts (two requests), progress (two jobs, two streams), versions (two checks, either schema), verification (three CSCAs, three CRLs), import (two uploads of lists or certificates that overlap, either database), search (four sets of items, three queries, pages of two), files (two uploads, one fault, either database) | `RateIsBounded`, `KeyNeverReturns`, `AuditedTokenHasAccount`, `NothingMissed`, `SuccessMeansStored`, `AcceptedHasReason`, `AnswerIsStored`, `ImportAddsUp`, `ReadingIsComplete`, `PathsAgree`, `PreviewAgrees`, `ContentIsKept` |

Some of these are conjunctions: `NotesAreTrue` of `CacheIsStored` and
`FlagImpliesLdap`, `ImportAddsUp` of `EachIsAccountedFor` and `BooksBalance`,
`ReadingIsComplete` of `WalkMissesNothing` and `ArchivesAreComplete`,
`ContentIsKept` of `ListsAreWhole` and `DoneHasContent`.

The modules state more than the runs list. These hold too, under the same
constants, when they take the place of a run's; those with a star are theorems:
the `TypeOK`s (starred for `Reconciliation`, `AutoSync`, `SyncScheduler`,
`Validation`); `DryRunChangesNothing`* (`ReconRace`); `TotalIsExact`*,
`ClosedWakesAll`* (`DbPool`); `TotalIsAlwaysExact`* (`LdapPool`);
`ClosedWakesAll`*, `TotalCoversOpen`* (`OraclePool`); `OneDaily`*, `MutexHeld`*,
`ConfigSettled`* (`Sched`); `SlotsExact`*, `BatchHasThread` (`Uploads`);
`LossIsOneBatch` (`LdifBatch`); `PendingIsRetried`*, `ExpiredIsNotValid`*
(`Validation`); `RefusalIsEarned`*, `UsageAddsUp`, `EndedIsForgotten`,
`UpToDateIsTrue`, `ReportedOnce`, `ValidIsVerified`*, `FlagMeansEntry`*
(`Services`). `EventuallyDone` holds of `LdifSpec`, in an instance of `LdifBatch`
alone with `MaxFaults = 1`.
Two larger instances pass as well: `AutoSync` with `AutoSpec`, one row, a
second runner beside the scheduler, one upload and `VIEW Followed` (which leaves
out `summary` and `log`, that no action reads); and `Uploads` with one uploading
client, three workers and two slots.

### Why the bounds are enough

* Two rows meet in everything two rows can share: a batch, a country entry, an
  `o=` entry, a phase (two DSCs) or different phases (a DSC and a CRL). Twins
  (two rows, one certificate) are the only other way rows touch; `ReconReupload`
  has them. Runs share nothing but the stores, so two runners show any race
  between runs; the theorems cover any number.
* Pools: three threads are needed to have one asleep, one notified and one
  that takes the connection in between; two slots to have threads wait for
  each other; `MaxSize` 2 to have a limit that is neither first nor only.
  `WordSize` 16 is far above the counts, so that a wrap shows as a large number.
* Scheduler: two HTTP threads give every overlap of two requests; one start by
  `main` and one by a PUT, the replacement of a thread by another.
* Uploads: two clients and two uploads for one slot have every order of retry,
  trigger, verdict and release; `Worker` has one thread more than there are
  slots, so that exceeding the limit would show.
* LdifBatch: files of two and three entries with batches of two have a commit in
  the middle and one at the end; the CRL that comes twice is a duplicate within
  a batch or across two; two faults give a loss in each of two batches, or a loss
  and its repair failing.
* Validation: a chain needs a root, a link and a leaf; two roots of one name are
  needed for the choice among candidates. One tick lets a validity end.
* Reports: the three pairs of files have a certificate and a list in two uploads, a
  CRL and a link certificate twice in one, and a list without a CSCA; one mishap
  stops a thread or fails a statement, and what it leaves behind is retried.
* Search: sets of two or three items put two entries on one page boundary, below one
  name, or in two countries; files: each format guessed right and wrong once.
* Services: the windows are 5, 6 and 6 ticks with a clean-up every two accepted
  requests, so that three windows meet within one length. Versions 9 to 11 cross
  the number of digits. Three CRLs exceed nothing and a fourth the limit. Two
  callers, checks, streams or imports have any race of two; they are
  interchangeable, and one symmetry set stands for all because only one part moves.

### Fairness

* `Reconciliation!Fairness`: threads go on (weak fairness of each thread's
  steps); the scheduler starts a run again and again (strong: a runner is idle
  only between runs); and faults end some day (`<>[][~Fault]_vars`), without
  which nothing could be promised. Uploads, deletions and dry runs are not
  fair: nobody need upload.
* `AutoFairness`: the same with `StartCheck` in the place of `StartRun`.
* Pools: each thread's steps are weakly fair, its timeout included (the code
  passes a deadline to every wait); no thread need release anything.
* `SyncScheduler!FairSpec`: threads and callers go on, tasks end (their calls
  have timeouts), the scheduled time comes. Requests need not arrive.
* `UploadJobs`: a request that was accepted and a thread that runs go on; the end
  of a file is strongly fair (`Finish`), since a file is finite while its batches
  are counted as a loop. Nobody need retry or delete.
* `LdifBatch`: a job's steps are weakly fair; only `EventuallyDone` needs it.
* `Validation`: the relay's daily run goes on. Nobody need upload or revalidate.
* The other services have no liveness to promise beyond the end of a request.

`OraclePool`, `Sched`, `Uploads`, `LdifBatch`, `Validation` and `Services` allow
the system to stop: a destructor or `start()` terminates the process, `main`
ends, all uploads are used up, or a bound is reached.

### What the passing runs say

* **`StoredIsPublished`** is the invariant everything else trusts (the export,
  the search for missing rows). It survives every fault and race, since both
  services set the flag only after the directory accepted the entry and nothing
  deletes entries.
* **`EventuallyPublished`** holds only when the batch is at least the number of
  unflagged rows; see the deviations.
* **`SyncedIsTrue`** needs `NeverDeleted`: counts can stand for sets only while
  nothing was deleted.
* **`ImplementsContract`** gives the limit each pool really keeps: `MaxSize`
  for Oracle, `MaxSize + threads - 1` for the other two, which create outside
  the mutex.
* **`StopReturns`**, **`TriggerServed`**, `OneDaily` and `ConfigSettled`
  hold while PUTs come one after the other. When they overlap, each fails: a
  `stop()` may wait for a thread that a second `start()` told to go on.
* **`OneThread`** includes the threads that hold no slot: a retry of a master
  list waits for a FAILED status its thread never writes.
* **`UnsettledHasActor`** says where an upload may stay PENDING or PROCESSING for
  ever: in the cases `abandoned` names, and in no other.
* **`NotesAreTrue`**, **`DoneIsComplete`**: neither the cache nor a flag names what
  is not there, and a thread that says it is done has stored each entry or lost it
  to a fault. `LossIsOneBatch` is the real granularity of a failed statement: on PostgreSQL
  the batch, when one upload is alone (with two, the batch of both); on Oracle the
  entry. `CacheIsStored` holds because the certificate is not part of
  the batch on PostgreSQL; as a statement of the batch it would be lost with it.
* **`ValidIsAnchored`** covers the fallback of the builder to a name without a
  signature: the signatures are verified once more at the end.
* **`NotTakenBack`** needs one revalidation at a time.
* **`RateIsBounded`** says three times the limit: two windows meet in a stretch
  and the clean-up may cut one more in two.
* **`KeyNeverReturns`** holds since UPDATE leaves the key out of its columns,
  although administrators write rows back; other columns do return.
* **`AuditedTokenHasAccount`** rests on a foreign key in the audit log that was
  hardly meant for it.
* **`AcceptedHasReason`** says on what an accepted document may rest: it includes
  an older CRL than the current one.
* **`CountsAreRows`**, **`VerdictsAddUp`**: what a thread counted is what is in the
  tables under its name, as far as `slipped` and the deviations below allow; the
  totals are the sums of the statuses. **`SummaryAddsUp`** says how far
  `/statistics` may be off when uploads go on between its statements.
* **`ReadingIsComplete`**: a walk through all pages misses no certificate that was
  there before and stayed, and an archive without an error has all of them (under
  distinct names). **`PathsAgree`**: an entry is where its row's type says, whoever
  wrote it.
* **`PreviewAgrees`**: what the preview showed is what the upload stores, for the
  formats both accept. **`ContentIsKept`**: rows of a list belong to a list that is
  there, and a COMPLETED upload has them all.
* **`ImportAddsUp`**: whoever wins the race for a
  certificate, it has one row, and each list is its owner or one of its sources;
  on PostgreSQL the loser is told of an error and is neither.

Each property has a mutant: a plausible slip in the code (a result not looked
at, a missing notification, an off-by-one in the limit, a forgotten phase)
written as an operator before the definition it would replace
(`WriteFailsUnnoticed`, `TakeOneMore`, `EndBatchLeavesOpen`, `ChainValidEarly`...).
With the slip TLC refutes the property.

## The proofs

`tlapm M.tla` for each `...Proofs` module. What is proved holds for every
value of the constants that satisfies the assumptions: any set of rows (with
natural numbers for ids) and of runners, a finite set of threads, and a `size_t`
that is wide enough for the pool and its threads.

* **`ReconciliationProofs`**: `TypesHold`, `FlagsAreTrue`, `ParentsAreReady`,
  `LogsAreTruthful`, `DryRunsAreHarmless`, `ServicesImplementStore`. The
  inductive invariant `Inv` adds to `TypeOK` a statement for each runner
  (`RunnerOK`: what its position says of the stores: at `mark`, the entry of
  the row in hand is there; at `org`, its country; at `add`, both parents; the
  rows it holds were inserted; a run that is not dry and counts the row in
  hand as good has published it; a dry run is nowhere near a write; its summary
  row says whether it is dry) and one for each row
  (`RowOK`: a flagged row has its entry, an upload at `mark` has published it).
  Entries never disappear, which is why what one thread learnt about them stays
  true under every step of another. The lemmas follow the kinds of steps:
  reading, writing, reporting, crashing, uploading.
  `SummariesAgree` adds each run's ledger (`LedgerOK`): a row that is still to come
  in this phase or a later one is not in the log, and a counter that is 0 has no
  log rows; from the counters the verdict follows (`VerdictOK`).
  Every step of the daily synchronisation is a step of `Reconciliation` or leaves
  its variables alone (`AutoImplementsReconciliation`), so that its theorems carry
  over (`AutoFlagsAreTrue`). `SyncedVerdictsAreTrue` is about counts: each
  entry has a row of its own country, type and tree (`Placed`), so while nothing
  was deleted the entries of a type are at most as many as the rows, and as many
  only when all are published; what a check has counted so far are those numbers
  as long as the stores stood still (`CountsOK`).
  About `CertificateSearch`, which reads what is stored and published, the module has
  two theorems. `ReadersFindEntries` with `SearchInv`: a row is what its way in makes
  of its certificate, an entry is where its uploader or the relay put it
  (`StoresAgree`), and both ways of working out the place agree, case by case
  (`PlacesAgree`).
  `ReadersMissNothing` with `ReadInv`: what a walk has shown of the directory has a rank
  up to the offset (`ShownOnce`), and what was there and was not shown has a later one
  (`StillToCome`), as long as nothing disturbed it. Entries keep their places and
  new ones come after, so that ranks stay (`RanksGrow`); a new row or CRL may come
  before, so that ranks only grow and something may be shown twice, which is why
  nothing is claimed of that. A page shorter than was asked for, or an offset beyond
  the total, means that nothing has a later rank (`Pages`, by induction over the number
  of those before). An archive of a country has dealt with each place that is no longer
  to be read (`CountryFits`, `Collected`): a file is only replaced by one of its name,
  and each file has one of the two names of its entry. What the archive of everything
  has is in the directory because the rows say so (`AllFits`, from `PlacesAgree`).
* **`ConnectionPoolProofs`**: lemmas about the counter and the cardinalities of
  slots and threads. **`DbConnectionPoolProofs`**, **`LdapConnectionPoolProofs`**,
  **`OracleConnectionPoolProofs`**: the counter, the waking at shutdown (not
  LDAP) and the refinement of `PoolContract`. The invariant is that idle, held
  and half-created connections together stay within the limit: a thread passes
  the test only while the counter is below `MaxSize`, so at most the other
  threads' creations come on top of it. Oracle needs only that the counter covers
  what is open and stays within `MaxSize`; its `IdleMeansAwake` says that while
  threads sleep at least as many others are awake as connections lie idle
  (`EnoughAwake`), which each release, by waking one, and each thread that leaves
  with one preserve.
* **`RevalidationProofs`**, the scheduler and the validation.
  `SerialRestartsAreSafe`, `DailyIsAlone`, `ConfigIsSettled`, `TasksHoldMutex`,
  `SchedulerTypesHold`: as long as no two PUTs overlapped there is one caller
  between the join and the start, the threads of earlier starts are gone
  (`Serial`, `Fresh`), and whoever holds `dailyMutex_` is alive (`MutexOK`).
  `BuildIsSound`: a chain that `Build` finds valid is one, for any CSCAs, clocks
  and depths; the recursion over the depth has a solution, by induction, and no
  level answers "valid" below a certificate outside the closed sets of `anchored`.
  `ValidMeansAnchored` with the invariant `ValidationInv`: types, every cache was
  stored once (`CachesSeen`), every row with a good status has a chain through
  what was ever stored (`RowsEarned`), and rows belong to certificates
  (`RowsHaveCert`). `PendingAreRetried` and `ExpiredAreNotValid` add what a row
  says of itself wherever it is: in the table, computed, or read by the relay
  (`RowsTruthful`). `NothingIsTakenBack` is the action property, under the
  hypothesis that there is one revalidation at a time: what it is about to
  overwrite is still bad (`StillBad`).
* **`UploadJobsProofs`**: `SlotsAreExact`, `ThreadsAreAlone`, `JobsKeepContract`
  (the refinement of `SlotContract`). The inductive invariant says of each thread
  and request whether it holds a slot and whether the counter includes it
  (`SlotOK`), what its position says of the row (`ReqOK`, `StoreOK`), and that
  nobody is in anybody's way (`AloneInv`): a request at its last look, at the
  write of its status or about to start its thread is the only one about its
  upload; an upload without a slot that is being processed is neither FAILED nor
  in a slot, so that a retry cannot reach it; ids without a file are untouched.
  `UnsettledAreWatched`: an unsettled upload is owned by a request, a thread or a
  name in `abandoned` (`IsOwned`), in the committed row and in the batch's view, and
  a thread that has decided has written what it decided (`Decided`).
  For `LdifBatch`, `NotesStayTrue`, `UploadsAreComplete` and `OracleLosesNoMore`
  with the invariant `LdifInv`: a batch is open only while a job is between its
  ends (`BatchHasJob`), flags follow entries (`FlagsOK`), the cache names rows
  that are committed or will be (`CacheOK`), what is lost was hit or was in a batch
  with one that was (`LossAlone`); every entry that a job is past, or has in hand
  behind its insert, has been met: it has a row or is lost (`Past`, `Present`).
  For `UploadReports`, `UploadCountsItsRows`, `UploadCountsItsVerdicts` and
  `SummaryIsSum` with `BulkInv`, for any uploads, files, certificates and verdicts.
  It says of each thread (`ThreadFits`) what its numbers count. The counts of an LDIF
  file, as long as no statement failed and no certificate was a duplicate, are the
  rows of the upload among what the thread has behind it, and the one it is about
  to insert (`CertCountsFit`, `VerdictsFit`): a retry meets the rows it left there
  and then knows of a duplicate, so that the numbers are read from the tables in the end
  (`AskedCounts`). Those of a list file count only what was saved. What is in the
  tables came out of the file of its upload (`CertsCame`, `VerdictsCame`, `CrlsCame`),
  so at the end of the file its rows and what is behind it are the same
  (`AllReached`, `AllVerdictsBehind`). CRLs pass from upload to upload, and an upload
  has at most one row for each entry, and as many when no CRL comes twice
  (`CrlsFromEntries`). The sums over all uploads are those of a fold of the community
  modules, a function that calls itself on smaller sets: that it has a solution, is
  monotone and counts a set by its heaps (`Sums`, `SumsGrow`, `SumsCount`) is proved
  by induction over the subsets of a finite set (`SubsetInduction`), which is itself
  a lemma over the set of those that have the property.
* **`ServicesProofs`**: the services of `MCServices`, each by itself.
  `KeysStayReplaced`: a key belongs to one row, or to one request that is about
  to store it, or to nobody for good, and new keys are new. `AuditKeepsAccounts`:
  an audit row refers to an account, which it keeps from being deleted, and a
  token whose login was audited, or one renewed from it, refers to an audited
  account. `AcceptanceHasReason`, `AcceptanceIsVerified`, `AnswersAreTrue`: what a
  verification found (CSCAs, the outcome of the CRL) stays true of the directory
  while it goes on, because nothing is removed from the directory; the row it
  writes is the one its groups and its answer are about. `NoEventIsMissed`: every
  event a registered client is owed is on its stream, or in the cache for a
  look that is still to come, or in the hands of a thread that will call it
  (`Reaches`). `SuccessIsStored`: as long as no insert of a check has failed, each
  version of the page it read is in the table or among those it has still to
  insert (`KnowsTable`).
  `ImportsAddUp`, `ImportFlagsAreTrue` with `ImportInv`: rows are
  numbered once (`RowsNumbered`), the row a thread has in hand is the one it was
  inserted or found as while it lives (`ThreadsOK`), and each certificate
  behind a thread names its upload or has slipped (`BehindOK`); `Evolves` says what
  no step takes back. The other half of `ImportsAddUp`, the books, rests on counts
  over the places of a list (`BooksOK`): what a list has counted as new lies between
  the certificates it surely owns and those it owns, and the duplicate rows of a
  certificate with its owners are no more than its places that threads have passed;
  a list may name a certificate twice, and is then owner and source.
  `RatesAreBounded`, `RefusalsAreEarned` with `LimiterInv`: the
  record only grows (`RecordGrows`); a window has counted what was accepted since
  it began, at most its limit. The stretch before it had at most the limit too, if
  it followed a window that ended; or, if the client was new or forgotten when it
  began, at most twice the limit, and then its day began with it or later
  (`IsWindow`, `QuietBefore`). A client is forgotten when its day is over, and has
  by then used at most twice its limit of the shorter windows (`IsForgotten`), so
  that the cuts lie more than a day apart and a stretch meets one of them.
  `ContentStays` with `FilesInv`: each upload of a CRL or a deviation list takes one
  turn, when its row is claimed, inserted or saved (`TurnsOK`). The row is there, as
  the latest turn left it, unless an upload whose turn was not earlier was deleted
  (`DlIsKept`, `CrlIsKept`); behind a deviation list stand the entries its thread has
  passed (`EntriesOK`), behind a CRL each entry as often as threads with that row have
  passed it (`RevokedOK`). It assumes what the model says of names, that
  files of one name have the same list in them (`NamesAssumption`), and that no
  upload is the mark for none (`NoUploadAssumption`). What the parser of deviation
  lists returns is defined by a function that calls itself, in the order of the
  file; that it is a sequence without repetitions which begins with those of the first
  certificate (`DeviationsAreRead`) is proved over the set of the places at which it is
  one (`Induction`), with the next place always later (`NextIsLater`).
  `PreviewsAgree` with `PreviewInv`: at each place of its work a thread has stored the
  beginning of the list that the preview of its file shows, of the types the preview
  gives them. The list is what a loop keeps of the file; `OnlyRounds` and
  `OnlyPlaces` say which elements those are and where.

Only model-checked:

* liveness (`EventuallyPublished`, `DailyPublishes`, `AcquireReturns`,
  `StopReturns`, `TriggerServed`, `EventuallySettled`, `ExpiryIsNoticed`), which is
  out of the prover's reach. Every safety property of the runs is a theorem.

## Deviations found

TLC refutes the following in the same models: what a comment, a document or
another part of the code says is not what the code does. No run of the list
repeats them. The properties stand in the modules beside the others, each with
the sentence it states; to see the trace, put the property in the place of the
run's properties and change the constants named. For `Services`, set `Parts` to
the part named.

| Property | Run, changes | What happens |
|---|---|---|
| `CountryHasOrgs` (action) | `ReconUpload`: `Spec`, no crash | a country found without its `o=` entries is reported ready and the add is refused (`ldap_storage_service.cpp:336`; `.h:93` "Ensure country organizational unit and sub-OUs exist") |
| `EventuallyPublished` | `ReconUpload`: `SameTypeAttr`, `BatchSize = 1`, no crash | the engine drops rows whose entry it finds without flagging them; a full batch of them hides all rows behind it in every run (`reconciliation_engine.cpp:80`) |
| `SyncedMeansPublished` | `AutoSync`: `AutoSpec`, `SameTypeAttr`, one upload, no crash | entries outlive deleted rows; one offsets a row that was never published, and the scheduler does not reconcile (`relay_operations.cpp:323`) |
| `FailedIsNotSynced` (action) | the same | all counts fail, stay 0, and compare equal; `types.h:49` knows a status ERROR that nobody sets |
| `NeverAboveMax` | `DbPool`: `Spec`, `Depth = 1` | two threads pass the limit test before either counts (`db_connection_pool.cpp:125`; `.h:129` "Maximum number of connections allowed") |
| `AvailableMeansAwake` | `DbPool`: `Spec`, `Depth = MaxSize = 1` | a thread notified after its deadline takes the notification with it (`:141`) |
| `ClosedWakesAll` | `LdapPool`: `Depth = MaxSize = 1`, two threads | a failed creation goes on to the wait in a closed pool (`ldap_connection_pool.cpp:118`) |
| `AvailableMeansAwake` | the same | the same, beside a connection returned meanwhile |
| `DeadMakesRoom` (action) | `OraclePool`, no symmetry | `logoff()` throws before the count goes down: a slot is lost (`oracle_connection_pool.cpp:234`) |
| `ReleaseIsSafe` | `OraclePool` | `logoff()` throws in a destructor (`:298`) |
| `RestartIsSafe` | `Sched`: `Spec`, `MaxStarts = 3` | two PUTs pass `stop()`; the second `start()` assigns to a joinable `std::thread` and the relay ends (`sync_scheduler.cpp:104`) |
| `TriggerRuns` | `Sched`, one handler | a trigger with the daily sync disabled is never served (`:169`; `pkd-relay-service.yaml:260`) |
| `StopJoinsThreads` | `Sched`: `Spec`, one handler | the detached check outlives `stop()` and the services (`:100`; `.h:63` "Stop the scheduler and join threads") |
| `StopWakesDaily` | the same | the notification of `stop()` is lost between predicate and sleep (`:161`) |
| `CompletedIsFinal` (action) | `Uploads`: an LDIF file, one client, upload and worker, no crash | the handler triggers again what the service triggered; after the first processing ended the file is processed a second time (`upload_handler.cpp:1707`) |
| `NothingLostWithoutFault` | `LdifBatch` with `DbTypes = {"postgres"}` | rows of one upload refer to rows that wait in a transaction of another, or are inserted where they cannot be seen, and are refused. With Oracle alone it holds |
| `SavepointIsolates` | the same | repositories swallow the exception, so that nobody rolls back to the savepoint and the whole batch is lost (`ldif_processor.cpp:878` "Create SAVEPOINT before each entry for PostgreSQL error recovery"). With Oracle alone it holds |
| `CscaIsNoticed` | `Validation`: `RevalSpec`, no fault | the provider's cache of CSCAs is never invalidated |
| `ExpiryIsInformational` (action) | `Validation`, no fault | the relay's daily run makes INVALID of VALID; `trust_chain_builder.h:10` says "informational only" |
| `LinksAreIssuers` | `Validation`, no fault | a link certificate of an LDIF file is stored as a DSC, since `validateCscaCertificate` returns first (`ldif_processor.cpp:98`) |
| `RegisteredIsValidated` | `Validation`, no fault | pa-service and master lists store certificates without a result, and an LDIF upload skips them as duplicates |
| `NotTakenBack` | `Validation`: two revalidations, `LatePkis`, no fault | the revalidation that read first may write last |
| `WindowSlides`, `TwiceAtMost` | `Services`, limiter | `api_rate_limiter.h:5` "sliding window"; the windows are fixed, and the clean-up forgets a client whose minute still counts |
| `DeactivationSticks` | `Services`, access | an update of another field that read the row before writes `is_active` back |
| `ShownKeyWorks` | the same | the result of `updateKeyHash` is not looked at (`api_client_handler.cpp:469`) |
| `OthersCanBeDeleted` | `Services`, accounts | an audit row keeps the account; the answer is 404 |
| `ProvedIsReplaced` (action) | `Services`, accounts, two sessions | two changes checked against the first password replace one another |
| `RegisteredIsCalled` | `Services`, progress | one callback per upload: a second client replaces the first (`progress_manager.h:450`) |
| `LastIsNewest` | the same | the cached event is sent outside the mutex and may come after a newer one |
| `CallbackHasEntry` | the same | a client that connects after the end leaves a callback that no clean-up finds |
| `LatestIsNewest` | `Services`, icao | `file_version` is text: 9 comes after 10 |
| `SavedIsReported` | the same | when one insert fails, or two checks divide the versions, nobody reports what was saved |
| `NothingNewIsSuccess` | `Services`, icao, one check, no symmetry | without the columns every version is new to every check and the inserts fail |
| `NotUploadedIsTrue` | `Services`, icao, two uploads | a single certificate uploaded later hides the collection |
| `RevokedIsRefused` | `Services`, pa | the first CRL entry decides; an older one, or too many, hide the current one (`ldap_crl_repository.cpp:29`) |
| `FailureLeavesNothing` | the same | the verification is inserted first and stays when a group is not |
| `RaceIsDuplicate` | `Services`, import | the comment at `certificate_repository.cpp:1299` calls the Oracle path equivalent to ON CONFLICT DO NOTHING, which this INSERT on PostgreSQL does not have: the loser fails |
| `CacheIsCurrent` | the same | a deletion tells no cache: the fingerprint names a row that is gone |
| `OverCanBeDeleted` | the same | `last_seen_upload_id` refers to the upload without ON DELETE (`01-core-schema.sql:103`) |
| `OverIsSettled` | the same | a master list that fails stays PENDING; the failure goes to the browser only |

The following were met while modelling and show in the definitions, as what the
properties have to except; no trace is needed to see them.

* Reports. `updateUploadStatistics` writes COMPLETED first and sets the counts of
  lists and their signers to 0 until the last statement: a crash in between leaves
  a COMPLETED upload with stale numbers that nobody retries. Expired-valid has no
  column in the upload's row, while `/statistics` counts it as valid; the row's
  invalid chains are the INVALID ones, the endpoint's include the PENDING. The
  recount after a stop does not restore the counts of expired certificates, and
  `trust_chain_valid = TRUE` in it may fail on Oracle. Certificates of lists
  have no `validation_result` and count as valid only without a recount. A list
  file that is retried stores signers as CSCA when the list is empty, and counts
  only the CSCA that are new since. Duplicate signers count nowhere, a CRL that
  comes twice counts twice, `trackCertificateDuplicate` of lists in LDIF
  files records new certificates too, and on PostgreSQL losing the race of two
  inserts leaves the counts too high.
* Files. A CRL is never recognised by its content: as PEM it is read as
  certificates, as DER as a certificate, and fails; so do a `.cer` in PEM and
  PKCS #7 in PEM. `DlParser` skips, after the deviations of a certificate, as many
  bytes again as they take (`dl_parser.cpp:549`), and loses those that follow. The
  preview of a deviation list in which nothing is found is a success, its upload a
  failure. FAILED uploads count as duplicates of a new one, and a hash query that
  fails lets a duplicate through. After ON CONFLICT DO NOTHING the id that is
  returned is nobody's. Revoked certificates get a row for each upload of the same
  CRL, whose `upload_id` moves to the last one, with which the CRL is deleted.
  PostgreSQL cascades; Oracle has no foreign keys there. A comment says that
  `revoked_certificate` is PostgreSQL's alone; Oracle's schema has it
  (`03-core-schema.sql:200`). `CertTypeDetector` knows the signer of master lists
  as 2.23.136.1.1.9, the checklist as 2.23.136.1.1.3.
* Searches. The count and the page are two statements. `CrlRepository::findAll` answers
  an exception with an empty list, so that the report of CRLs of a database that fails
  is a success without CRLs (`crl_repository.cpp:298`). Namesakes replace one
  another's files in an archive; CRLs are left out of it as PEM. The checklist and
  the search for the CSCAs of a country do not look below `o=lc`; the relay
  reconciles only CSCAs, DSCs and CRLs. The total of a search for link
  certificates is the size of the page.
* `validateLinkCertificate` selects a column `certificate_binary` that the table
  `certificate` does not have (`lc_validator.cpp:452`), so that it always stops
  there; `CrlValidator::checkRevocation` is called from nowhere else.

## What is not modelled

* Within modelled components: `saveMasterListToLdap`; the configuration handlers
  that only read; the health checks' own timing. `saveMasterList`,
  `updateMasterListLdapStatus` and `updateCscaExtractionStats` are stubs,
  `cleanupPartialData` and `APIRateLimiter::cleanup` are never called, and
  `handleParse` needs `uploaded_file.file_path`, which no code sets. The pool of
  `pa-service` is an older copy of the LDAP pool; the services of this commit
  create the Oracle pool but run their statements through the executor's own
  sessions.
* pkd-relay's `ReconciliationService` and `SyncService` with their repositories:
  a second layer over the same tables that only reads; the engine writes its SQL
  itself (`Reconciliation`).
* Of single files the publication in the directory (`LDAP publication` is in
  `Reconciliation` and `CertImport`), and the bytes of what `DlParser` reads.
* `LinkCertificateValidator` and `CrlValidator`: one request without a state of
  its own, which stops at a column that does not exist. `cert_validator.cpp` is
  used nowhere.
* The fingerprint cache is taken to be read and written atomically; the code has
  no mutex around it, so that the runs say nothing of a torn map.
* Pure data: ASN.1, SOD, data group and deviation list parsers, cryptography,
  the checklist of Doc 9303, link certificate validation on request, and the
  algorithm and extension checks. They keep no state; where their outcome
  matters it is a choice of the model (`PaVerification`, `TrustChain`).
* Handlers that only read beyond the searches, reports and archives of
  `CertificateSearch` and the summary of `UploadReports`; HTTP formatting,
  monitoring, AI analysis.
* The frontend, a React client whose state the services do not depend on.
* OTL (`otlv4.h`), a vendored header.

Hazards beyond the list of `PROJECT.json`, which names those that matter most:
the search for an upload of the same hash and its insert are two statements
(`upload_repository.cpp:342`); the early return of a run without LDAP leaves its
summary IN_PROGRESS (`reconciliation_engine.cpp:268`); an Oracle connection
closed on release wakes nobody (`oracle_connection_pool.cpp:300`); a request is
counted in all windows or none (`api_rate_limiter.cpp:46`, `RefusalIsEarned`);
concurrent requests count their use (`api_client_repository.cpp:390`,
`UsageAddsUp`); a client connects while its upload ends (`upload_handler.cpp:422`,
`EndedIsForgotten`); two checks find one version new
(`icao_version_repository.cpp:27`, `ReportedOnce`); a certificate without a chain
stays PENDING (`validation_service.cpp:67`, `PendingIsRetried`); a CSCA of the
right name that does not verify (`certificate_validation_service.cpp:169`,
`ValidIsVerified`).

## Plan

1. *Done*: `PkdStore`, `Reconciliation`, `AutoSync`, their runs and proofs.
2. *Done*: `PoolContract`, the three pools, their runs and proofs.
3. *Done*: `SyncScheduler` and its run.
4. *Done*: `SlotContract`, `UploadJobs`, `LdifBatch` on both databases, `CertImport`.
5. *Done*: `TrustChain`, `Validation`, `PaVerification`.
6. *Done*: `RateLimiter`, `ApiAccess`, `Accounts`, `Progress`, `IcaoVersions`.
7. *Done*: `UploadReports`, `CertificateSearch`, `CertificateFiles`.
8. *Done*: the proofs above.
9. Next, a module: the checklist of Doc 9303 with the statistics of compliance
    that `progress_manager.cpp` keeps of it.
