# TLA+ models of aspool and tdxman

`src/src/aspool` keeps a local pool of A-share market data: daily facts in
Parquet under a DuckDB catalog, and canonical SQLite stores. `src/src/tdxman`
is the client of the market-data servers that feeds it. This directory models
what must survive failing processes and failing connections: the commit
protocol of the daily domain, the publication protocol of the SQLite stores,
their mirror and their maintenance, the application of replicas, the
computation of limit events and its remediation, and the connections to the
servers. The modules are checked with TLC on small instances; for all instances,
the main safety properties of each of them are also proved with TLAPS.

## The system

| Component | State it keeps | Operations | What is hard | What makes it correct |
|---|---|---|---|---|
| Daily-domain commit (`change_protocol.py`, `pool.py`, `daily_storage.py`) | `change-state/{preparing,pending,applied}`, Parquet targets, catalog tables (revisions, changes, coverage, runs, stale days), the directory lock | publish a file, change catalog rows, recover, finish a run, read | exits and exceptions between a dozen durable steps; a lock that is let go between the stages of one run; repeated recovery | readers see committed data only; every commit is atomic, recorded once and builds on its predecessor; nothing blocks recovery |
| Canonical publication (`sqlite_canonical.py`, `sqlite_publication.py`, `storage_verify.py`, `factor_lineage.py`) | three WAL databases, `pending-publication.json`, the change journal of the connection | begin, change, savepoints, commit, recover | WAL commits are atomic per file only; nested savepoints; recovery that fails again | the pool changes by whole publications; revisions identify rows; stores never stay incoherent |
| Stock snapshots (`sqlite_stock_store.py`, `sqlite_read_api.py`) | three pinned SQLite snapshots per reader | open, query, close | the lock is let go while the snapshot is used | one snapshot is one publication |
| Canonical calculators (`sqlite_daily_update.py`, `sqlite_daily_derived.py`, `sqlite_market_summary.py`, `sqlite_reference_factors.py`, ...) | rows of the canonical stores | recompute features, factors, summaries, boards | dependency propagation over dates | an incremental update equals a full recomputation |
| Synchronisation (`sqlite_daily_sync.py`, `sqlite_update_cli.py`, `tdx_online.py`, `enrichment.py`, `fundamentals.py`) | run summaries, directories | fetch, normalise, publish, retry | partial failure of a batch; a failing stage between succeeding ones | a failing job neither hides nor loses what others committed |
| Replica (`base_delta.py`) | `pending-replica.json`, phases | apply, resume | crash between committed phases; writers that waited for the lock | packages take effect whole, on the rows they were made for only, and are derived from |
| Storage migration (`storage_migration.py`) | `pending-migration.json`, a verified recovery point | consolidate, restore | crash in the middle of both; writers between the recovery point and the first commit; a repair that writes the same marker | the pool is either layout 2 or layout 3, never read in between; the way back loses nothing |
| History audit (`qfq_audit*.py`) | a maintenance marker, a stage database, per-day transactions | audit, repair, resume | two repairs started together; what a dead process knew; an ordinary publication left pending | an open pool has nothing left that waits for a repair |
| Layout 2 mirror (`platform_v2.py`) | `feature_state` DIRTY or READY, three revisions | mirror, prepare, reconcile, activate, roll back | three commits to two files; a reader that pins three files without a lock | an accepted mirror is a copy, a snapshot is of one revision |
| Limit events (`limit_events.py`, `limit_api.py`) | publication batches, stale days, streaks | compute, publish, read | a streak depends on every earlier day; failure in the middle of a suffix | no unmarked stale result; a suffix recomputation equals a full one |
| Remediation (`remediation*.py`) | two checkpoints | plan, execute, continue | a kill between a day, the catalog's checkpoint and the external one; other computations in between | a plan can always be taken up again and ends as one computation of its days would |
| Index and ETF pools (`sqlite_index_*.py`, `sqlite_etf_*.py`, `index_pool.py`) | one SQLite file each, catalog rows | sync, read | the file and the catalog are written apart | the catalog never promises rows the file lacks |
| Securities and universe (`securities.py`, `universe.py`, ...) | catalog rows | refresh, classify | through `catalog_rows()` | see the commit protocol |
| TDX transport (`transport/sync.py`, `transport/async_.py`) | one socket, a heartbeat thread | connect, execute, close | a timeout racing a late answer; cancellation; a heartbeat on the same socket | an answer belongs to its request; a call ends |
| TDX clients, commands, codecs, offline readers | none | page, decode | boundaries of pages and of integers | decoding is exact |
| Provider for tick-stock-panel (`adapters/tick_stock_panel`) | connections, routes | fetch, reconnect, route | failover in the middle of a request | see transport |
| Command lines, scripts, DG03 candidate | none | dispatch, benchmark | - | - |

The components meet in three places: the pool lock (`pool_lock()`, `flock` on
the root directory, shared for readers and exclusive for writers), the gates
that every entry passes under it (`change_protocol.assert_readable()`,
`sqlite_publication.assert_published()`, `base_delta.assert_replica_complete()`),
and the revisions in the catalog and in the stores that tell one whether
another has moved.

## Modules

| Module | Content |
|---|---|
| `AtomicPool` | what the daily domain promises: objects that change one at a time, atomically with their revision and stale days, and readers in between |
| `ChangeProtocol` | the commit and recovery protocol step by step |
| `PublishedPool` | what the canonical stores promise: content that changes by whole publications, snapshots that stay |
| `Publication` | the transaction, the intent, the commits of three files, the recovery and the readers |
| `ChangeJournal` | the journal of changed rows under nested savepoints, on which `Publication` relies for `Changed` |
| `ReplicatedPool` | what a replica promises: packages that take effect whole, on the rows they were made for, with maintenance writes and readers in between |
| `Replica` | the phases of a package's application, its recovery, the gate and the other users of the pool |
| `HistoryRepair` | the repair of the forward-adjusted history: its marker, its receipts, its stage, the event baseline and the ordinary updates it meets |
| `Maintenance` | `HistoryRepair` composed with the storage migration and its restoration, which share the marker and the lock |
| `PlatformMirror` | the mirror of a layout-2 pool: its writers, its rebuilding, the switch of layouts and the readers |
| `LimitEvents` | what a day publishes of a security's limit events, computed by suffixes, with marks of staleness and changes of the data |
| `Remediation` | `LimitEvents` composed with a remediation plan and its two checkpoints |
| `Transport` | connections, retries, reconnections, heartbeats and the download workers |
| `MC...` | their small instances |
| `ChangeProtocolProofs`, `PublicationProofs`, `ChangeJournalProofs`, `ReplicaProofs`, `MaintenanceProofs`, `PlatformMirrorProofs`, `RemediationProofs`, `TransportProofs` | the TLAPS proofs |

### ChangeProtocol

An invocation (`Invocations`) is one outermost maintenance call with its
`run_id`. It enters under `writer` (`AcquireWrite`), recovers what is pending
(`TakePending`, then the steps of `_apply`), and then publishes files
(`BeginPublish` to `PublishDone`) or catalog rows (`CatalogRows`); it may let
the lock go and take it again for the next stage (`EndStage`), and writes its
summary under a lock of its own (`FinishRun`). A step of the model is one
durable step of the code: the redo file, the manifest, the rename to
`pending/`, the hard link and rename over the target, the catalog transaction,
the mark, the release of the redo file, the archive. Exceptions (`Raised`,
`Caught`) and exits (`Crash`) may fall between any two.

`place`, `plan`, `manifest`, `redo` and `intact` are the directory of an
operation; `target` is the Parquet file; `revision`, `applied`, `cover`,
`total`, `runState` and `stale` are catalog rows; `pc`, `cur`, `recovering`
and `outcome` are the memory of an invocation; `view` is what a reader has read
under its lock. A file is named by the operation that wrote it, so the digests
that `_apply()` compares become equality of operations.

### Publication and ChangeJournal

`disk` is the committed content of `stocks.sqlite`, `features.sqlite` and
`adjustments.sqlite`. Tables that the protocol treats alike are one cell; the
two revisions in the state tables and the two that the features carry are cells
of their own. Revisions count from the one the migration leaves. `work` is what
the open transaction sees, `intent` is `pending-publication.json`, `next` is
the file to commit next. The write lock covers a transaction from BEGIN to the
end of `commit()` or `rollback()`, so one holder has one phase. `Stop` is both
an exception and an exit: the open transaction goes, the lock goes, files
already committed and the intent stay. `snapshot` and `pinning` are the three
file snapshots of a reader, which it pins under the shared lock in the order in
which `assert_coherent()` reads them, and keeps after it lets the lock go.

SQLite's commit over several WAL databases is modelled from how the code uses
it (`CommitFile`): each file is atomic, the transaction is not.

`Execute` takes any change of the rows and lets a calculator of the daily
update move the raw revision itself, as `apply_daily_changes()` does when its
counts say that some row changed; a changed row differs at least in
`updated_at`, so such a transaction has a changed row.

`ChangeJournal` models `_record_change`, the savepoint stack of Python beside
that of SQLite, failing statements and the rollback that SQLite decides by
itself. `JournalIsExact` is the fact that lets `Publication` define `Changed` by
value, and `SavepointsAgree` says that the two stacks mean the same savepoints
and that each remembers the journal of its time.

A BEGIN that fails gives the lock back even if a transaction is open
(`BeginFails`, `sqlite_canonical.py:320`): the transaction, its savepoints and
its journal stay, without the lock. As long as SQLite has the transaction nobody
else can commit, so the journal stays exact. It does not if SQLite rolls the
transaction back by itself, the failing BEGIN lets the lock go, and another
writer commits before this connection begins again without `rollback()`: the
journal of the lost transaction is still there and names rows of a content that
has passed. The ghost `overtaken` marks this case, which both properties except.
`Publication` leaves nested BEGINs out: its writers open one transaction under
one lock.

### Replica

`base` is the receiving pool, one cell for the rows that a data set changes in
one transaction; `package` is the exported file with the images before and
after, and `names` are the data sets that it names, those of which no row differs
among them; `intent` is `pending-replica.json` with the package and the recorded
results. A process begins under the lock after all rows were checked (`Begin`,
`SaveIntent`), then commits the data sets in `Order`, one transaction each or,
for the evidence files, one per row (`StartDataset`, `CommitRows`), and records
each in the intent (`SaveResults`); then come the stock data with what follows
from them (`ApplyStock`, `SaveStock`), the verification and the end of the
intent (`Complete`). `Stop` is an exception or an exit between any two, and
`Recover` starts from the intent with the same checks. `derived` holds the
inputs from which the derived data were last computed; a stock row that is
published alone renews its own part of them only. The publication of the stock
data is one step here: `Publication` shows it atomic, and the recovery of a
replica rolls a pending one forward before it reads.

Other users: a writer looks at the gate (`Arrive`) and waits for the lock. A
canonical operation looks again under it (`Publish`); the index
synchronisation and the listing dates do not (`WriteRow`). `Maintained` are the
cells that either changes, and `ReplicatedPool` lets no other cell change but by
a package. Readers of the stock
data look again under the shared lock (`EnterRead`). The readers of an index or
ETF file take no lock and read one file; they are not modelled. Packages that
name the board source state name the snapshots too, which the export leaves to
its caller (`ConstantsAssumption`).

### HistoryRepair and Maintenance

A task (`Tasks`) is a report directory with a window of sessions; running its
command again continues it. `Check` reads the gate before the lock, as
`run()` does; `RollForward`, `Lock`, `WriteMarker` and `Connect` are the steps
before the first day; `RepairDay`, `DayPublished`, `Record` and `NextDay` are
one day; then come the dependents of the corrected symbols, the market
summaries that are due, and `Finish`, which removes the marker. `wrong` are the
rows whose price differs from what the source observed, `stale` the features
that do not follow from the prices, `due` the days whose summary does not follow
from the features. A publication is prepared in one step and visible in the
next, which is what `Publication` shows of it. `mem` is what the process
knows, `seen` what its stage database has. A process killed loses `mem`. The
ghost `forgotten` collects the rows and days whose only record was lost that
way: `OpenPoolIsFinished` says that an open pool has nothing stale besides
these, and the run `dependents_follow` says that there are some.

`UpdateInterrupted` is an ordinary update that dies with its intent written,
`Recover` the explicit recovery, `InstallBaseline` and `RebuildFactors` the
event baseline and what follows from it. `Maintenance` adds `files`, the layout
of the content of each file, and `saved`, the files that still are what the
recovery point holds. `Move` commits one file; the core tables are one
transaction over several attached files, which may stop between any two of
them, while the catalog that names the layout is written last. `Restore` puts
the catalog back first. Ordinary writers of the layout-2 pool (`Drift`) may
commit until the marker is there.

Left out: importing the seed of a task, the ages and the memory of streaks,
rounding, the creation of schemas, listing dates, and two processes of one
task. Observed while modelling: a repair of a layout-2 pool fails at
`PRAGMA features.cache_size` after it wrote its marker, and the pool stays shut
until a migration is restored or the marker is removed; a repair that passed
the gate before a migration wrote its marker overwrites that marker
(`Check` and `WriteMarker` are two steps), after which
`restore_migration()` refuses. An installed baseline keeps the marker for good:
`enriched_status=requires_rebuild` is never reset by the repair
(`docs/ops/event_baseline.md:34`).

### PlatformMirror

`stocks` is the authority; `mirror` is `features.sqlite` with its
`feature_state` and `migration_state`, `adjust` is `adjustments.sqlite`. The
content of a row is the revision at which it was last changed, or 0 for none,
so that equality of contents is what a copy means. `Sync` and `RepairSummary`
commit to `stocks` under the lock after `require_current_mirror()` and go on,
in the same call, with the three commits of `_mirror_platform_v2()`:
`MirrorDirty`, `MirrorFactors`, `MirrorEnd`. `Reconcile...` and `Prepare...`
are the two ways back, commit by commit, the copy of `prepare` in batches.
`Activate` and `Rollback` switch the layout. `Stop` is an exception or an exit
between two commits. A reader pins the three files one after the other,
without the lock (`OpenStocks`, `OpenFeatures`, `OpenFactors`), and is refused
when `Matches` says so.

`prepare_platform_v2()` asks neither for the layout nor for the state of the
mirror (`PrepareFactors` has no guard but the lock), and the tests call it on a
mirror that is READY and on one that is activated. When the revision has moved
since the last copy, it deletes the rows of the features and copies them again
in several commits, while `feature_state` stays READY. The ghost `torn` says
that this has begun and that neither a prepare nor a reconcile has certified the
mirror since; `MirrorIsCurrent` and `SnapshotIsOneRevision` except it, and the
run `slice_certifies` shows what comes of it. A `features.sqlite` that was made
without its tables must be prepared again: reconcile refuses it
(`ReconcileRefused`), so `MirrorRecovers` asks for the schema. `RepairSummary`
takes a day whose summary lacks a part, with a change or without one, and one day
per lock.

Left out: deleted rows, the ETF factors and the indexes, which are copied like
the others.

### LimitEvents and Remediation

One security is modelled; the others trade on `market` days. A day's publication
follows from the day's kind (`Kinds`: what `_price_state` and the limit rules
make of its bar), the dated facts, the calendar, and the state of the previous
session (`After`, `Row`). `Plan` is the beginning of a computation: the days
it covers, the marks, the state it begins with, which is reloaded from what was
published (`Loaded`); `PublishDay` is one commit. `ReplaceFile` and `Record`,
`PublishFact` and `PublishCalendar` are the changes of the data, with the marks
they set. `Complete` is the reference: the days of one computation of everything.

`Remediation` adds a plan of days that is fixed once (`Order`), the catalog's
row of it (`ledger`, `previous`), the external checkpoint (`file`), and the steps
of `execute()`: accept, mark all the days, and per day announce it, publish it,
and complete it, first in the catalog and then in the file. It runs beside the
computations and changes of `LimitEvents`, under the same lock.

Abstracted into `Kinds`: prices, limits, rules, lifecycles and touched flags, and
the lower limit, whose branches mirror those of the upper one. What the
properties assume is stated in them. A suspension that only a bar tells of, and a
gap in the calendar, give an unknown streak when the state is reloaded, which a
complete computation knows: `PiecesMakeTheWhole` asks for neither. An execution
marks the days of its plan only: while a plan is open, and if days after its last
one were published beside it, their unknown streaks are not marked;
`PiecesOfThePlan` excepts both. Not
modelled: the approval document and the implementation watermark of a plan, and
`remediation_repair.py`. Of the latter: a step that covers two yearly files and
dies between them leaves a watermark that later runs refuse.

### Transport

A connection is the sequence of answers nobody has read (`unread`): servers
answer in order, and no answer names its request. `Send`, `Receive` and
`LoseAnswer` are one attempt of `execute()` by the user or the heartbeat,
`Reconnect`, `GivesUp` and `Raise` the loop around it, with the differences between
threads and tasks; `Cancel` is `asyncio.wait_for()` around an operation of a
worker, `Replace` its retry on a private client, or the failure of the item if
there is no `retry_factory`. `Wake` and `Beat` are the heartbeat thread, whose
decision precedes the lock. `GoAway` and `ComeBack` are the server.

Between its calls the user may connect again and close. `connect()` of a
connection of threads takes no lock and replaces the socket it has
(`sync.py:150`): the heartbeat of the former socket goes on, in `late` on the stop
event of the new one, in `astray` in a read of the old socket, after which it reads
`self._sock` again and finds the new one (`Stray`). `stop_heartbeat()` waits for
two seconds only (`sync.py:237`), so `Close` too may leave such heartbeats behind.
`connect()` of an asynchronous client cancels its heartbeat wherever it is
(`ConnectAsync`, `ConnectAgain`), in a reconnection also.

`left` says why answers were left unread or the connection was touched: a late
handshake, a request that was given up, one that was cancelled, a heartbeat of a
former socket (`stray`). The properties say that nothing else makes an answer
meet a wrong request, and that what it says happens: `AnswersMatch` is refuted by
a worker in `transport_match`.

Observed: in `_execute()` a `connect()` that fails ends the retries that
`client.py:313` promises, and the synchronous client keeps the socket whose
answer it gave up waiting for after its last retry.

## Runs

| Run | Bounds | Shows |
|---|---|---|
| `commit` | one failing and one sound invocation, 2 files, a fact table, a reader, 2 operations, one published day, preparations that are damaged and repaired | `TypeOK`, `ReadersSeeCommitted`, `RedoUntilCommitted`, `PendingRecoverable`, `RevisionChain`, `CountedOnce`, `SummaryTellsOfPending`, `PlaceTellsTheTruth`, `DamagedIsKept`, the refinement of `AtomicPool`, `RecoveryEnds` |
| `publish` | one failing and one sound process, a reader, revisions up to 3 | `TypeOK`, `NeverWedged`, `RecoverableCommit`, `SameRevisionSameRows`, the refinement of `PublishedPool`, `PublicationEnds` |
| `journal` | 2 rows of 2 values, no statement on a journal of 3 changes, 3 savepoints of 2 names | `JournalIsExact`, `SavepointsAgree` |
| `replica` | boards, an evidence data set that commits row by row, securities and stock rows of 2 or 3 values, named with and without rows, one failing and one sound process, a writer, a reader | `SourceHasSnapshot`, `ForeignRowsKept`, `RecordedChangesAreDerived`, the refinement of `ReplicatedPool`, `ReplicaEnds` |
| `transport` | 20 kinds of clients, 2 calls, a server that goes away once, 2 retries, at most 3 heartbeats in a row and 2 heartbeats alive at a time | `CleanLinkAnswersMatch`, `MismatchFollowsFailure`, `CallsEnd` |
| `maintenance` | two tasks, one of 2 days and one of the first of them, 1 symbol, a migration and its restoration, 1 ordinary commit to layout 2, 1 crash | `MaintenanceTypeOK`, `OpenPoolIsFinished`, `OpenPoolIsWhole`, `RestoreLosesNothing`, `HalfMovedIsUntouched` |
| `limits` | 3 histories of 4 days, 4 ranges to compute and 2 to plan, executions of 2 days, 1 change of the data, 1 kill | `KnownStreaksAreRight`, `PiecesOfThePlan`, `CheckpointIsKnown`, `CompletedDaysStand`, `SuffixIsRedone` |
| `mirror` | 2 symbols, 1 day, 2 commits to the stocks, one failing and one sound process, a reader | `MirrorIsCurrent`, `SnapshotIsOneRevision`, `MirrorRecovers` |
| `replica_derived`, `transport_match`, `dependents_follow`, `slice_certifies` | a failing process; the asynchronous workers; one task of 2 days and 1 crash; 2 symbols, 1 day, 3 commits and a failing process | the findings below |

Bounds. The commit protocol works on one operation at a time under the lock, so
an invocation that fails again and again, in its own work and in its recoveries,
and one that does not are enough for each to meet what the other left; two
operations let one follow the other on its file. That a third invocation adds
nothing is not left to the bound: the theorems hold for any number of them.
Publications, replicas and mirrors change by value and processes start again
after they failed, so these modules are finite without a bound on crashes: only
`MaxRevision` ends them. Three revisions let a snapshot outlive two
publications; two commits after an empty store let a mirror be copied, fall
behind and be copied anew. Row values 0 and 1 suffice: the protocol only compares them.
Rows of a replica need three: the image before, the image after, and what
somebody else wrote since; a snapshot or a piece of evidence is there or not.
Savepoints three deep with two names let a name hide one of the same name.
Two tasks let one continue what the other left; two days let a correction have
a dependent; the lock keeps maintenance apart, so that one crash leaves all the
states of the marker and one more symbol only multiplies them. Four days hold
a streak, an interruption, and a day after it to be taken up from, and the three
histories hold each kind of day. Two calls let an answer be left by one call and
taken by the next. Two heartbeats let one of a former socket meet that of the
present one and both meet a call. One mirrored day suffices, for dates
only select rows, as symbols do.

Symmetry. Savepoint names are compared for equality only and are interchangeable
(`journal`); no other run uses symmetry, for most of them check liveness.

Fairness. `RecoveryEnds` assumes that an invocation that does not fail goes on
(weak fairness of its steps: it is one thread of straight code).
`PublicationEnds` assumes that a process under the lock ends, by success or
failure; that readers let the shared lock go; and that the explicit recovery
(`aspool ... recover`, the audit repair, a replica) is called again until it
gets the lock (strong fairness of `Recover` for a sound process: it blocks in
`flock`, while faulty processes take and drop the lock). `ReplicaEnds` assumes
the same of `replica recover`, and claims the end of the application only if no
foreign write is in its way. `MirrorRecovers` assumes that a process goes on
between its commits, and that a sound process repeats the command that
`DERIVED_NOT_READY` names, reconcile, until it gets the lock. `CallsEnd` assumes
that a caller goes on, whose lock is passed on by the heartbeat again and again
(strong fairness of the user's attempts), and that a wait ends by its timeout;
it assumes nothing of the server. The modules of limit events and of maintenance
claim no liveness: their computations end unless they are killed, and nothing
starts them again but an operator. Deadlock is not checked in `replica`, since a
foreign write may make a recovery impossible, nor in `commit` and
`transport_match`, where the calls are used up.

### Findings

`replica_derived`. `docs/ops/base_data_incremental_sync.md:10` says that changes
of the directory, the calendar and the board source trigger the stock
computation ("目录/日历/板块来源变化也触发相关股票计算"). A process exits after the
commit of such a data set and before `save()` (`base_delta.py:939`); the resumed
phase finds nothing to change, records no change, and the replica completes
without the computation. `RecordedChangesAreDerived` is what the code does keep:
a change that was recorded is derived from, wherever the attempts end, if the
package names no stock data set.

`transport_match`. `docs/design/aspool_index_design.md:30` says of the download
workers that requests are serial within a connection to keep answers from being
mismatched ("各连接内部串行，避免响应错配"). `fetch_async()` (`fetch.py:96`) cancels
an operation that takes too long; the connection stays open with the answer
unread, the worker's next item uses it, and gets that answer.

`dependents_follow`. `docs/ops/qfq_history_audit.md:65` says that what depends on
a corrected price is updated by its dependencies, and line 45 that an
interrupted repair can go on. A repair that dies after a day's publication and
before it notes the corrected prices in its stage (`qfq_audit_repair.py:699`)
finds no difference when it goes on, and opens the pool with the features of the
corrected prices stale.

`slice_certifies`. `platform_v2.py:565` says that a failed mirror must be
recovered explicitly and that a later, unrelated slice cannot certify its missing
rows. A `prepare` on a mirror that is READY empties it (`platform_v2.py:184`) and
is interrupted; `require_current_mirror()` finds nothing to object to, and the next
change mirrors its own rows and certifies the rest.

Not refuted by a run, but seen in the code while it was modelled: a recovery that
dies between archiving an operation and reconciling the row of its run leaves
that run `running`, and a run that failed writes its summary over the note of
an invocation that has recovered its operation meanwhile
(`change_protocol.py:428` and `:881`, against
`docs/achievements/dg01_implementation.md:67`: "恢复注明原准备 run 与恢复 run").
The loop of `enrichment._publish()` goes on after a failure without recovering,
so that a run may leave several operations pending; `_reconcile_recovered_run()`
calls it recovered after the first of them, while the others wait or are refused
(`change_protocol.py:428`, `:475`); `SummaryTellsOfPending` excepts such a row.
A writer of index rows or listing dates that passed the gate of `pool_lock()`
before a replica's intent was durable writes after it
(`pool.py:69`, against `base_data_incremental_sync.md:59`). If the row is in the
package, the recovery refuses it from then on; `ReplicaEnds` excepts it.
An export names every data set it was asked for, also those of which no row
differs. With such a stock data set an attempt that recorded no change of an input
still runs the stock phase and records it (`base_delta.py:943`); a later attempt
that does record one finds `previous` set and does not compute the stock data
again, which is why `RecordedChangesAreDerived` asks for packages without one. A
heartbeat that `connect()` left behind, or that `close()` did not wait for, may
read from the socket of a later connection or close it (`sync.py:262`).

## Proofs

`ChangeProtocolProofs` proves, for any number of invocations, readers, files,
tables and operations: type correctness, `ReadersSeeCommitted`,
`RedoUntilCommitted`, `PendingRecoverable`, `PlaceTellsTheTruth`,
`DamagedIsKept`, `RevisionChain`, `CountedOnce`, `SummaryTellsOfPending` and the
refinement of `AtomicPool`. Only the named assumption
on the constants is used. The inductive invariant `ProtocolInvariant` has a part
for each thing a later step relies on: who holds the lock (`LockInvariant`),
that a manifest's plan is complete once written (`PlanInvariant`), what each
phase of an invocation knows about its operation (`PhaseInvariant`), that a
pending unapplied operation is based on the committed content and the current
revision of its object (`PendingInvariant`), and that a target is the committed
file or that of a pending operation (`TargetInvariant`). The safety properties
alone are not inductive: a step of `_apply()` keeps `RedoUntilCommitted` only
because the phase remembers what was validated. `RevisionChain` and `CountedOnce`
need more: that the coverage names the last operation of the chain, and that a
pending operation was prepared from it (`HistoryInvariant`). `SummaryTellsOfPending`
needs that an invocation prepares operations of its own run (`RunInvariant`).

`PublicationProofs` proves the type invariant, `NeverWedged`,
`RecoverableCommit`, `SameRevisionSameRows` and the refinement of
`PublishedPool` for any number of processes and readers, any natural row values
and any bound on revisions. Its inductive invariant says for each phase what `work`,
`disk` and `intent` have in common: before the intent is durable the files are
the published content; from then on the published content is the transaction's,
and the files before `next` already hold it; a snapshot is a prefix of the files
while its reader holds the lock, and an ancestor (`Follows`) of the published
content afterwards. `SameRevisionSameRows` alone is not inductive, `Follows` is.
Besides the named assumption on the constants it uses that the two markers of
absence are not contents.

`ChangeJournalProofs` proves `JournalIsExact` and `SavepointsAgree` for any rows,
values, names, lengths and depths, failing BEGINs included. `JournalInvariant`
adds to them what a rollback to any savepoint will need: the journal of a key that has an entry
begins with what the row was at the beginning (`FirstIsBegun`), a key without
one is as it was (`CoveredBy`), and the same is true of the table of every
savepoint of SQLite at the length that Python's savepoint of the same position
counted from the top remembers (`StacksInvariant`). That a nonempty set of
positions has a first and a last member is proved from the well-foundedness of
the natural numbers.

`ReplicaProofs` proves `SourceHasSnapshot`, `ForeignRowsKept`,
`RecordedChangesAreDerived` and the refinement of `ReplicatedPool` for any
processes, writers, readers, contents and packages over the eight kinds of cells.
A recovery starts from nothing but the intent, so the invariant says what an
intent in force owes the pool. A package adds immutable rows and never removes
one, and if it selects a source state it brings its snapshots or the pool has them
(`Installable`); whoever is past `Begin` holds the lock and works on the durable
intent itself (`HolderInvariant`); what was checked is still so, and the data
sets before `at` hold their images after (`RowsInvariant`); once the stock phase
of a package without a stock data set is behind or recorded, the derived data are
those of the package's inputs (`DerivedInvariant`). In the refinement the abstract
pool is what the package will have made of the base once the intent is durable
(`Effective`). Besides the named assumption on
the constants it uses that no intent is the marker of absence
(`AbsenceAssumption`).

`MaintenanceProofs` proves, for any tasks, windows, symbols, days and crashes:
type correctness, `OpenPoolIsWhole`, `RestoreLosesNothing`,
`HalfMovedIsUntouched` and `OpenPoolIsFinished`. `SharedInvariant` is what the
two kinds of maintenance owe each other: the files agree whenever the marker is
gone, the marker is its owner's for as long as it works under the lock, nothing
is published under the marker of a migration, and the recovery point is complete
from that marker on. `OpenPoolIsFinished` looks at the pool only when the marker
is gone; `RecordInvariant` says how it got there. As long as the marker of a task
stands, every stale row depends on a correction that this task knows of: from the
receipts of its run, from an intent it rolled forward, or from its stage, which a
run that found the marker pending looks up (`StaleInvariant`, `Known`). The
exception is `Kept`, a marker that no run removes because factors of a baseline
await their features. A run over the whole window has the symbols of all such
rows still to do, or their features prepared (`TodoInvariant`), and every day
that is due is one whose summary some run will compute (`DueInvariant`).
`RecordInvariant` was checked by TLC on the instance of `maintenance` first.
`DependentsFollowUnlessKilled` puts a bound to the finding of `dependents_follow`:
with one task, nobody killed and no new factors, the promise of the documentation
holds.

`PlatformMirrorProofs` proves type correctness, `MirrorIsCurrent` and
`SnapshotIsOneRevision` for any symbols, days, stores, processes, readers and
changes; `prepare` may be called at any time. Only the named assumption on the
constants is used. What a mirror is compared by is its revision and the newest of its
factors, so `MirrorIsCurrent` alone is not inductive: a mirror that stayed
behind may be caught up with, and a reader pins a content that has passed. The
inductive invariant says of every content the stocks once had and somebody
still holds (`Remembered`) that its revision and its newest factor stand for it
alone, and that copies which claim its revision are its rows (`Describes`).
`PhaseInvariant` adds which rows a slice in hand has left to write,
`CopyInvariant` how far a first copy has come. That the largest of a bounded set
of numbers exists is proved from the well-foundedness of the natural numbers.

`RemediationProofs` proves `CheckpointIsKnown`, `CompletedDaysStand`,
`SuffixIsRedone`, `KnownStreaksAreRight` and `PiecesOfThePlan` for any days,
histories, ranges, changes and failures. The first two are not inductive: a day
may be counted because the worker's phase tells that it has just been published
(`WorkerInvariant`), and counting adds only that day because the pending day is
the smallest that is not counted (`LedgerInvariant`, `NextDayCompletes`); the
two checkpoints differ between the two writes of a save only. `SuffixIsRedone`
rests on what is still marked of the suffix being still in the plan of the
computation (`SuffixInvariant`).

The other two compare what is published with the recursive function `Complete`,
the computation of all days in one go. That the daily step is monotone in what
is known (`Within`: the same, or unknown) lets an invariant relate the two from
day to day: `StreakInvariant` says it of every published day that is not marked
and of the state that a computation carries. A computation also reloads its
state from the tables, which have no row of a suspended security: that the last
row stands for the state of the day before is an induction over the days between,
proved with the smallest day on which it would fail (`SuspensionsKeep`). `PiecesOfThePlan` wants
equality and needs to know what a plan may have left unmarked behind it:
`WholeIn` says it of the days that no remaining day of the plan comes before
(`Covered`), `PlanInvariant` that a plan has all sessions between its first and
its last and that an execution works on the data it was made for, and
`CarriedIsExact` that the state it carries is that of the complete computation.
Without plans every day is covered: `SuffixesMakeTheWhole`. The proofs use the
assumption on `Histories` that nothing is traded on a day that the calendar knows
to be closed; the guards of `ReplaceFile` and `PublishCalendar` keep it so.

`TransportProofs` proves type correctness, `MismatchFollowsFailure` and
`CleanLinkAnswersMatch` for any kinds of clients and any numbers of calls,
retries, heartbeats and outages; of the clients it assumes that a worker's client
runs no heartbeat, as `fetch.py` makes them. Whoever reads or writes holds the
lock, on a former socket too, and a task keeps it through its reconnections
(`LockInvariant`); on a
living connection with nothing in `left`, at most the answer of the request in
hand is unread (`LinkInvariant`). `MismatchFollowsFailure` is not inductive: what
an attempt left unread must be gone with its connection before the next attempt,
or its call must have failed before its user (`KeptInvariant`).

Only model-checked are the five liveness properties, `RecoveryEnds`,
`PublicationEnds`, `ReplicaEnds`, `CallsEnd` and `MirrorRecovers`: fairness is
out of the prover's reach. Every other property of a passing run is proved.

## Not modelled, and what is left

Not modelled on purpose: the values of rows and how they are computed, fetched or
decoded (the calculators, codecs, price rules and offline readers are stateless
functions of large inputs), the SQL routing, budgets and digests, the cost and
range fields of a run, command lines, benchmarks and one-off scripts, the
storage candidate DG03 that the pool does not run, the single-file stores of
indexes and ETFs beyond what a replica writes into them, and the provider, which
keeps no state. Durability of a completed step (fsync) is assumed, power loss is
an exit.

What would add most next: `remediation_repair.py` with its watermarks, and the
propagation of factors and features over dates as a function checked against its
definition.
