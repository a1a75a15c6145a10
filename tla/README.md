# A specification of Zentinull

Zentinull pulls device records from several systems (SharePoint, ManageEngine,
FortiGate, Zabbix, Active Directory, ServiceDesk Plus), keeps the raw answers in
one SQLite file per system, resolves which records describe the same device with
Splink, and serves the result, `data/mesh.duckdb`, through a FastAPI server.

This directory holds TLA+ models of the program, the TLC runs that check them on
small instances, and TLAPS proofs for every value of the constants. Paths are
relative to `src/`; most of the code is in `src/src/zentinull/`, written `Z/` below.

1. [Inventory](#1-inventory) 2. [What is modelled](#2-what-is-modelled)
3. [Checks](#3-checks) 4. [Proofs](#4-proofs) 5. [Not modelled](#5-not-modelled)
6. [Facts found on the way](#6-facts-found-on-the-way)

## 1. Inventory

| Part | Code | State it keeps | Operations | Module |
|---|---|---|---|---|
| Pipeline lock | `Z/cli/pipeline.py` | `data/pipeline.lock`: name, inode, flock | open, flock, write pid, close, unlink | `PipelineLock` |
| Raw store, ingest runner | `Z/ingestors/base.py`, `Z/ingest/runner.py` | `data/<system>.sqlite`: a table per feed, `field_history` | full run, incremental run | `RawStore` |
| Mesh pipeline | `Z/cli/pipeline.py` | `clusters.csv`, `cluster_annotations.csv`, `mesh.duckdb.tmp`, `mesh.duckdb` | splink, validate, load, valentine, attach | `MeshPipeline` |
| Incremental load | `Z/cli/pipeline.py` | `source_records`, `devices` | upsert of CSV files, rebuild | `IncrementalLoad`, `ClusterRegistry` |
| Worker scheduler | `Z/worker.py` | `WorkerState`: last runs, running, should_stop | loop, sync, full pipeline | `Service` |
| API server | `Z/api/server.py`, `router.py` | `app.state.db`, one pipeline thread | start-up, shutdown, requests, trigger | `Service` |
| Subprocess streaming | `Z/cli/streaming.py` | child, pipe, reader thread | run_streaming | `Streaming` |
| Status file | `Z/cli/status.py` | `status.json` and its flock | record_*, get_* | `StatusFile`, `StatusRegister` |
| Authentication | `Z/ingestors/auth.py` | tokens, token file | load, refresh, save, get_headers | `OAuthToken` |
| Backup | `Z/cli/backup.py` | copies, `manifest.json` | create_backup | `Backup` |
| Fetch strategies | `Z/ingest/strategies/` | none (paging cursors) | fetch | `FetchStrategies` |
| Manifest | `Z/manifest/`, `projects/default/manifest.py` | cached manifest | load, validate | `Manifest` |
| Export, normalisation | `Z/export_for_splink.py`, `Z/normalizer.py`, `Z/manifest/walker.py` | `devices.csv`, its tmp file | walk, normalise, swap | `Export` |
| Cluster validation, source of truth | `Z/resolve/validate.py`, `sot.py`, `Z/api/schema.py` | none | validate_clusters, sot_resolve, devices SQL | `Clusters` |
| Attachments | `Z/resolve/attach.py` | none | keyspace, resolve | `Attachments` |
| Mesh queries | `Z/api/db.py` | none | lookup, search, pages, reports, trace, history, metrics | `MeshQueries` |
| Entity resolution | `Z/resolve/splink_runner.py` | `clusters.csv` | run | its effect on files |
| Schema matching | `Z/valentine.py` | views of the mesh | match | its place in the pipeline |

**How the parts interact.** The command line, the API's `/pipeline/run` and the
worker call `run_pipeline` or `run_incremental_sync`, in processes or threads of
their own. They coordinate through `pipeline.lock` alone; the worker's own full
pipeline (`Z/worker.py:85-94`) does not even do that. The stages hand data to one
another through files: SQLite stores to CSV files, those to `clusters.csv`, that
to `mesh.duckdb`. The API reads the mesh by name and opens a new
connection for every lookup and every query, several for some requests, so a swap takes
effect at once. A server may run the scheduler's loop on
its own event loop. Systems are reached over HTTP and LDAP; Splink runs in a
subprocess. `status.json` and the token files are shared by all of these.

**What is hard.** The lock works on an inode and is released by name. A raw table
is written in one connection that is sometimes in a transaction and sometimes
commits each statement. The mesh is replaced by rename, and written in place
afterwards by stages that may work on the wrong file. The incremental load commits
every statement. Handlers that query without an await share the event loop with the
scheduler, and DuckDB refuses connections across them. Any stage can raise, and any
process can die between any two steps. Every hazard that was found is listed at
its line in `PROJECT.json`.

**What makes each part correct**

- Lock: one run at a time; a leftover file takes a fault and never blocks anybody; a run
  is refused only by a live one.
- Raw store: the change log explains the content; no incremental run loses a
  record; an empty answer changes nothing; a failed feed writes nothing; the swap
  is atomic.
- Mesh: what is served is finished, whole and consistent in its references, never
  disappears and never gets older; a quiet mesh has been through every stage.
- Incremental load: cluster ids survive; every record is there once; records are
  never merged without Splink; a load reported done rebuilt the devices.
- Scheduler and server: every system is synced again and again; a stop is obeyed
  and leaves neither lock nor file taken; every request is answered, over one connection
  from one mesh.
- Streaming: the call ends; then the child is gone and no output line is lost.
- Status file: it is one register, whatever is interleaved or torn.
- Authentication: a token in use is not expired; a rotated token is not lost.
- Backup: what it lists as copied is whole if nobody wrote it.
- Fetch strategies: all pages in order, or nothing; details only add.
- Manifest: what passes the validation fails nowhere later.
- Export: Splink reads the newest whole export, with a value in every field that has one.
- Clusters, attachments, queries: answers that are computed in several ways agree,
  and a link has a value behind it.

## 2. What is modelled

The modules up to `ClusterRegistry` are the pipeline itself, those up to `Export` the
processes and files around it, the last six functions without state of their own.

### PipelineLock

One action per system call of the protocol, which `run_pipeline` (885-971) and
`run_incremental_sync` (809-879) share word for word.

| Model | Code |
|---|---|
| `path`, `fd`, `holder` | the inode named `pipeline.lock`, the inode a run has open, the flock on an inode |
| `OpenLockFile` | `open(lock_path, "w")` |
| `Flock`, `FlockRefused` | `_try_flock` |
| `WritePid`, `WritePidFails` | `write(str(os.getpid()))` with its flush, and their `OSError`: the pid stays in the file object's buffer, and the `close` of `finally` tries to write it again. Where that fails too, `close` raises outside the `suppress`, the unlink is skipped, and the file stays (`unclean`) |
| `ReportRefusal` | the handler that raises `RuntimeError`, and `finally` without the lock |
| `CloseLockFile`, `UnlinkLockFile` | `finally` with the lock: two steps |
| `Crash` | death of the process: the kernel closes the file |

The names of the specification have the prefix `Lock` (`LockInit`, `LockNext`), since one
run checks it next to `Service`. Abstracted: the pid in the file, which only words the refusal; the work between
lock and unlock. POSIX is assumed (`_try_flock` does nothing on Windows).
`SIGKILL` of a run that has the lock is `Crash`; the worker's threads are runs
like any other, since flock belongs to the open file and not to the process.

### RawStore

`run_system` over the feeds of one system, with the writers of `base.py`.

| Model | Code |
|---|---|
| `disk`, `work`, `inTxn` | what is committed, what the connection sees, `conn.in_transaction` |
| `Ddl`, `Dml` | a statement that commits on its own outside a transaction; one that opens a transaction |
| `FetchNothing`, `FetchRows` | `strategy_fn` raised or empty; returned rows (`LastWins` deduplicates) |
| `DropTable`, `RenameTmp`, `InsertRows` | `create_raw_store`, `insert_raw_rows` |
| `EnsureTable`, `PurgeAndPrefetch`, `SkipRow`, `UpdateRow`, `InsertRow`, `UpsertDone` | `ensure_raw_store`, `upsert_raw_rows` |
| `HistoryOf` | `capture_field_history` with `_fh_clean` |
| `CommitFeed` | `conn.commit()` after the feed |
| `WriteBusy`, `UniqueViolation`, `Abandon` | the `except` around the write, without rollback |
| `CloseConnection`, `Crash` | `conn.close()`, death of the process |

Abstracted: a record has one data field, so its content is one value, and SHA-256
is injective, so the hash of a content is the content. The order of the deduplicated
rows, which their ids are not affected by, is left open. The retention cutoff is
any batch so far, which time could have made it. `run_feed` has no caller and is not modelled.

### MeshPipeline

The files from `clusters.csv` to `mesh.duckdb` and three kinds of runs over them.
A database file is an inode that holds *generations*: generation *g* is the *g*-th
`clusters.csv`, and no two share a cluster id. That is all the properties need to
tell whether references resolve.

| Model | Code |
|---|---|
| `lock` | `pipeline.lock`, as if it excluded |
| `csv`, `notes` | `clusters.csv`, `cluster_annotations.csv` |
| `mesh`, `tmp`, `file` | the names `mesh.duckdb` and `mesh.duckdb.tmp`, and the contents of inodes |
| `BeginClusters`, `EndClusters` | the Splink subprocess, which rewrites `clusters.csv` in place |
| `OrphanBegins`, `OrphanEnds` | the same of a run that has died: nothing ties the subprocess to it (streaming.py:70-78), so it goes on without a lock |
| `alone`, `own` | whether a run is the only writer of `clusters.csv` since its own Splink began, and whether the mesh it loads is thus its own |
| `Validate` | `validate_clusters` |
| `UnlinkStaleTmp`, `ConnectTmp`, `LoadRecords`, `LoadAnnotations`, `Replace` | `run_load` |
| `OpenForViews`, `CreateViews` | `run_valentine_stage` |
| `ResolveLinks`, `SkipAttach`, `OpenForLinks`, `WriteLinks` | `run_attach`, one turn per feed |
| `OpenMesh`, `Upsert` | `run_incremental_load` |
| `StageFails`, `Crash` | an exception in a stage; death of the process |

Assumptions: the lock excludes (what it really does is `PipelineLock`'s matter, and
the two are kept apart so that a defect of the lock does not hide one of the
pipeline); every run is a process of its own, so that DuckDB refuses a second
writer. What two writers of `clusters.csv` make of it at a time is broken, or by chance that
of the last. Ingest and export do not touch
these files. `ConnectTmp` waits for the tmp name to be free: if it is there again,
the load of the code fails, which `StageFails` covers.

### IncrementalLoad and ClusterRegistry

`run_incremental_load` statement by statement. The connection is in autocommit
mode, so `Delete` and `Insert` are steps that a crash can separate. A row is a
key (source and source id), a cluster and a content. An empty id is `EmptyId` in a
CSV file and `NullId` in a table that `read_csv_auto` made.

`ClusterRegistry` is the abstract specification: only which clusters a key is
listed in. Splink may assign anything (`Resolve`); a sync may give an unknown key
a cluster nobody has (`Add`), or settle a key on one of the clusters it has, a
resolved one if there is any (`Settle`); a crash may cost one key its cluster.
`IncrementalLoad` implements it under the mapping `Owner`, which lists a key
between its DELETE and its INSERT where it is going to be inserted.

Assumptions: the eight hex digits of a temporary id are never drawn twice; no full load
runs next to a sync (the lock). Old meshes may hold several rows of a key, which
the comment at `pipeline.py:738` and `tests/cli/test_pipeline.py:935` say earlier
versions left behind.

### Service

One process, as server (with the scheduler's loop on its event loop) or as
`python -m zentinull.worker`. It also covers the connections that the two threads
and the handlers make to the mesh in the same process.

| Model | Code |
|---|---|
| `StartUp`, `Signal`, `Shutdown`, `Exit`, `Killed`, `Restart` | `lifespan` (server.py:34-60), `loop` of the worker. A worker, and a server that stops for a SIGINT, end as interpreters do and wait for the executors' threads (`Exit`). A server that stops for a SIGTERM does not: uvicorn raises the signal again with its default action after the lifespan, and a run dies in the middle (`Killed`, `Committing`) |
| `TopOfPass`, `StartTask`, `SkipTask`, `TaskDone`, `TaskFailed`, `Wake` | `loop` (worker.py:97-143): `should_stop` at the top only, one task awaited after the other, the failure of one swallowed, a sleep of ten seconds |
| `Elapse` | the interval of a task passes |
| `SyncTakesLock` ... `SyncWrites`, `FullRuns` | the worker's thread in `_run_sync` or `_run_full_pipeline`; each refusal and failure is an action |
| `TriggerStarts` ... `TriggerEnds` | a run that `/pipeline/run` put into the one-thread executor |
| `Arrive`, `HandleRun`, `HandleWithoutDb`, `HandleQuery`, `OpenConnection`, `OpenFails`, `ReadAndClose`, `NotFound`, `Finish`, `Depart` | the request middleware and handlers; `Free` says that a handler holds the event loop. `Kinds` tells requests apart by their connections (`Connects`): one for most; two for the timeline, attachments, history and metric-summary; three for metrics and stats; any number for a trace |
| `OtherTakesLock`, `OtherReplaces`, `OtherFails` | another process with the lock |

The mesh is a version number that every commit and every replacement changes, so
that two reads of an answer can be told apart. Abstracted: intervals (a task is
due or not), what is in the mesh, the stages inside a load (`MeshPipeline`).

### Streaming

`run_streaming`: `Popen`, `StartReader`, `WaitReturns`, `WaitExpires`, `Kill`,
`Reap`, `JoinReturns` and `Interrupt` are the caller; `ReadLine`, `ReadFails`
and `ReadEnds` the reader thread; `WriteLine`, `StartHelper`, `ChildExits` and
`HelperExits` the outside. The helper is a process of the child's that inherits
the pipe: `proc.kill()` does not reach it, and `reader.join()` waits for it. Lines
are counted, which tells a lost one from one that was not written.

### StatusFile and StatusRegister

`StatusFile` has an action per system call of `_read` and `_lock_and_update`:
`OpenFile`, `Flock`, `ReadForUpdate`, `ReadForGet`, `Write`, `WriteFails`,
`Truncate`, `Unlock`, `CloseFile`, and `Crash` between any two. A write over a
longer text leaves its tail until `Truncate`, which is what a crash can make last;
a file that does not parse reads as the default structure (`Parse`).

`StatusRegister` is the promise: one register, each call taking effect once,
between its call and its return. A process that dies in a call leaves the register
as it was, as the call would have left it, or empty. `StatusFile` implements it
under the mapping `Committed`: while an update is between its write and its
truncate the register has the old value, and if the process dies there it has
what a reader then finds.

### OAuthToken

`OAuth2RefreshAuth` of several processes over one token file: `LoadToken`,
`Expired`, `RefreshFails`, `Grant` (the provider decides), `Reply` or `ReplyLost`,
`OpenTmp`, `WriteTmp`, `ReplaceFile`, `SaveFails`, `Restart`. The clock (`Tick`)
moves between any two, but a reply arrives within `MaxDelay`. Whether the provider
rotates refresh tokens is decided at the start. Two history variables name the
excuses: `mishap` (a rotated token was lost with a reply, a save or a process) and
`overlap` (two saves under way at once, which share one temporary name).

### Backup

`create_backup` next to writers: a database is pages and a log, a checkpoint moves
the log into the pages, a copy takes page after page. `OpenWriter`, `Commit`,
`MovePage`, `CloseWriter` and `CrashWriter` are SQLite and DuckDB as the code uses
them; `Start`, `Checkpoint`, `BeginCopies`, `CopyPage`, `EndCopy`, `CopyFails` and
`WriteManifest` the backup.

### Export

The walker (`ExtractField`, `SourceId`, `ExtraAttributes`, `WalkFeed`), the transforms
and `normalize_record` over texts that are sequences of tokens of a `Vocabulary`, with all
fields of the specs of all anchor feeds as the manifest gives them; `Lower` is
`str.lower` of a path. Then `export()` (`ReadTables`, `OpenCsvTmp`, `WriteRows`, `UnlinkCsv`, `RenameTmp`,
`SwapRefused`, `End`, `ExportCrash`) and the choice of file in `run_splink.py`
(`SplinkReads`). A sync's `export_source` writes the same rows without a swap.

`SplinkSeesEveryField` looks at a row in both directions: each column has what its
transform makes of the first value of its field (`Filled`; a serial number may lose its
prefix, `Trimmed`), the id and the extra attributes are there, and no column has a word
that is not at one of the paths of its field, or of the field that the manifest says it is
derived from (`Authentic`). Of the values of later paths nothing is said (section 6).

### FetchStrategies, Manifest, Clusters, Attachments, MeshQueries, Questions

Operators, no variables: each is a function of its arguments in the code too.

- `FetchStrategies`: a server is a sequence of replies (a page, an empty body, an
  error status, no answer, an object in place of a list); each strategy is what it
  returns of it. A server without an end is left out (section 6). A row of a list with
  details, or its location, may be no object, which raises (`Raised`).
- `Manifest`: the default manifest as a record, `_normalize_feed_specs` and
  `_validate` (`LoadManifest`), and in `Failures` what the later stages look up in
  a manifest and would fail on.
- `Clusters`: for one field of one cluster, the column of the devices table, the
  source of truth of a story, the drift, and the annotations of the validation.
  The Python and the SQL side are translated each from its own code.
- `Attachments`: keyspace, scope, reject lists, tokens, the three strategies.
- `MeshQueries`: the queries of `MeshDB` over one mesh; where SQL leaves a choice
  (a `LIMIT 1` among equals, an order with ties) the answer is the set of what may
  come back. A trace takes two meshes, since it opens several connections.
- `Questions` asks them: the one variable `question` holds what is asked, and
  `Asking(Q)` are the behaviours that ask one question of the set Q. The sets
  (`FetchQuestion`, `DetailQuestion`, `ClusterQuestion`, `LinkQuestion`,
  `MeshQuestion`) are what the code can be asked, of any size: any sequence of replies,
  any mesh, any records, items or changes. What is promised of the answers is an
  invariant of these behaviours, so the theorems of section 4 are about them.

### How they are put together

`MCService` extends `Service`, `Streaming` and `PipelineLock`; `MCData` extends `StatusFile`,
`OAuthToken`, `Backup`, `Export` and `Questions` (modules extended together have
prefixes, as in `StatusInit`). The
parts of one such module share no state, so a behaviour belongs to one part, which
the variable `part` names, and the others stand still: exploring them together would
multiply states and add no interleaving the code has. In the part `questions` a step
chooses one of many small questions, and an invariant compares what the operators
make of it; an `ASSUME` says that every one of them is a question in the sense of
`Questions`.

## 3. Checks

| Run | Instance | What it shows |
|---|---|---|
| `lock_exclusion` (violated) | 2 runs, 3 inodes, no crash | two runs at once: close, then a waiter locks the old inode, then unlink, then a newcomer creates and locks a new one |
| `rawstore` | 2 feeds, an id and no id, a content that counts as data and one that does not, fetches of up to 2 rows, 3 runs | the change log is a chain and complete, records and tables survive |
| `rawstore_failed` (violated) | the same constants | rows of a feed reported as failed are committed by the next feed |
| `mesh` | 2 full runs, 1 sync, 5 inodes, generations and faults as in the `.cfg` | the served mesh is finished, consistent, current |
| `mesh_unlocked` (violated) | 1 full run, 1 worker run | a half-built file is renamed to `mesh.duckdb` |
| `incload` | 1 system with 2 sources, files and tables of 2 rows | the refinement, and the four invariants of section 2 |
| `incload_twins` (violated) | the same system | a record without id has two rows after a full load and a sync |
| `service` | 2 systems and Splink, 1 request at a time, 1 queued trigger, another process, fairness; a child, a helper, a pipe of 1 line; 3 runs over the lock file, 4 inodes, 2 crashes | every task comes round again, stops end and leave nothing taken, requests are answered, over one connection from one mesh; a streamed call ends with all of its output; runs overlap only through an unlinked inode, the lock file stays only after a crash or a pid that could not be written, refusals come only from a live owner, and the lock never jams |
| `service_mixed` (violated) | the same constants | a request that looks up a device over one connection and reads about it over the next is answered from two meshes |
| `data` | 2 processes for `status.json` and the token file, 1 SQLite file and the mesh for the backup, one raw record at a time and 2 exports, and tens of thousands of questions | the status file is a register, tokens are good and kept, a quiet backup is complete, Splink reads the newest whole export and has a value for every field; fetches are whole, a loaded manifest runs, the views of a cluster, the API's queries and the attachments agree and have a value behind them; the default manifest itself loads and fails nowhere (an `ASSUME`) |
| `data_primary` (violated) | the questions about clusters | a field whose primary source is `me` has another source's value, though ManageEngine has one |
| `data_links` (violated) | the questions about links | a record is attached by a value that its cluster has in another column than the link's `on` |

The runs that are violated each check one sentence of a docstring or comment; the
sentence and the line that breaks it are under `findings`. The exact constants are
in the `.cfg` files and `MC*.tla`.

**Bounds.** An overlap takes a holder that ends, a waiter and a newcomer; the third can be
the first run started again, which is why two runs are enough for the violation.
The inodes are one per run and one for the name. Two feeds are
a feed that fails and one that commits after it; three runs write, change and
change back. Two full runs and a sync are the pairs of runs that can interfere, a
run being able to start again; the generations bound how often. Two rows are the
two records that can be confused, or twice the same. One resolved cluster is enough to
tell resolved from temporary; with two the run finds the same in 3.3 million
states and several minutes, and the proof is about any number.

In `service`, two systems are one that fails and one that must come after it, and
`Splink` is the third task of a pass; two versions of the mesh tell "the same"
from "another"; two connections are the least that a trace can mix; one queued
trigger next to a running one is the full queue of the executor's thread.
Three runs over the lock file are the holder, the waiter and the newcomer, each of which
may start again, and two crashes hit two of them. One
request at a time is no bound but the code: a handler holds the event loop. A pipe
of one line blocks its writer, two lines are one read and one waiting, and two
interrupts hit the wait and the kill.
In `data`, two processes are a reader or writer and the one it races; three calls
are one that tears the file, one that repairs it and one that reads; a life of 2, a
margin of 1 and a delay of 1 are the proportions of 3600, 60 and 45 seconds in
which the order of events can differ, and a clock up to 2 sees a token from its grant
to its end; three grants are a save that is overtaken twice; two pages are the least that can be torn, two exports the least that can be
confused. Fetches are up to three replies with pages of 0 to 2 rows (a full one, a
short one, none); meshes have up to four rows, which makes ties, and clusters of
three; manifests are the default one with each thing wrong that a check or a stage
looks at. The proofs do not depend on these bounds.

Counters that only count (`crashes`, `faults`, `batch`, `gens`, `news`, `calls`,
`now`, `granted`, `commits`, `export`, `alarms`, `written`) are bounded in the guards
of the actions; nothing else is. `CHECK_DEADLOCK FALSE` is there where these bounds
end a behaviour, a process may exit for good, or a question has been answered.
Symmetry is declared only for safety runs, over sets whose members the model does
not tell apart.

**Fairness.** `service` checks liveness. `PipelineLock` assumes weak fairness of the steps
of each run: the protocol never blocks (`LOCK_NB`), runs are started again and
again by cron and by the worker's ten-second loop, and started ones are scheduled.
Nothing is assumed of crashes or failing writes, and the property asks for some
run to get the lock, not for each.

`Service` assumes that threads run, handlers end and time passes (weak fairness of
`Job`, `Trigger`, `Handle \/ Depart`, `StartUp \/ Exit`, each `Elapse`), and strong
fairness of `Loop`: a request can take the event loop away from the scheduler again
and again, but asyncio runs callbacks in the order they became ready, so the loop
has its turn in between. Nothing is assumed of requests, signals, restarts, the
other process or of any failure. `Streaming` assumes that the caller and the reader
are scheduled and that the limit runs out; nothing of the child or its helper.

**Mutants.** Each property of a passing run has a mutated definition next to the
original ("Mutant:" comments), a plausible slip such as a missing reset or a
dropped guard, under which the property fails in the same run.

## 4. Proofs

| Module | Theorems | Inductive invariant |
|---|---|---|
| `PipelineLock_proofs` | types, `OverlapOnlyOnUnlinkedFile`, `LeftoverNeedsFault`, `RefusedOnlyByOwner`; `MutualExclusion` while nobody unlinks an open file | flocks sit on inodes that their owner has open, owners hold their flock, and without a fault since the last unlink (`unclean`) a name stands only for a file somebody has open or is about to unlink; for the exclusion, every open file is the named one (`OneFile`) |
| `RawStore_proofs` | types, `HistoryIsChain`, `ChangesAreLogged`, `IncrementalKeepsRecords`, `EmptyFetchKeepsTable`; how `FailedFeedWritesNothing` and `SwapIsAtomic` fail | the chain holds of what the connection sees as well as of the disk, the pre-fetched contents agree with the rows still to be written, and every change of the transaction is in its log; for the swap, between feeds an open transaction holds writes of failed feeds only (`LeftOpen`), and a table that is dropped has rows to come (`Filling`) |
| `MeshPipeline_proofs` | types; all five properties of `mesh` for `WorkerRuns = {}`; `MeshIsFinished` and `MeshNeverGoesBack` for any worker runs that keep apart | `IInv`: only the owner of the lock is inside (`Locked`), the inputs of each stage are those of its run unless an orphan has been at them (`Inputs`, `Undisturbed`), the tmp file of a load in progress is the loader's and unserved (`Building`), the served file is finished (`Served`), writers and resolvers look at it (`Writing`), and views are there after their stage (`Viewed`); with worker runs, what is left of it when no two loads overlap (`LoadInv`), and that nobody reads an old `clusters.csv` when no two makings do (`MakeInv`) |
| `IncrementalLoad_proofs` | types, `EveryRowUpserted`, `NoMergeWithoutSplink`, `DoneMeansRebuilt`, `ImplementsRegistry`; `OneRowPerRecord` without NULL ids | `IInv`: the clusters in memory are those of the mesh (`Memory`), deleted rows are gone until inserted (`Deleted`), temporary ids are used once (`Fresh`, `Unshared`), the lines read so far are upserted (`Upserted`), and a rebuilt devices table stays so (`Rebuilt`); a key that was read has one row (`OneRow`) |
| `StatusToken_proofs` | types of `StatusFile`, `ImplementsRegister`, the whole refinement | `StatusInv`: a process is where its lock and its descriptor say, an update under way started from what is in the file, and a file that is not there reads as the default |
| | types of `OAuthToken`, `BelievedTokenIsValid`, `RefreshTokenKept` | `SureInv`: whatever claims to be valid until a time, in memory, in the file or in the tmp file, is; `Kept`: without mishap or overlap one save is under way at most, and the newest refresh token is in the file or with that save, one case each for a provider that has cut us off (`NoToken`), does not rotate (`Static`) or does (`Rotating`) |
| `Service_proofs` | types, `AnswerOfOneMesh`, `ExitLeavesNothing` | `IInv`: lock and writer are with the thread that is where it needs them (`Held`), a thread at work has a process it lives in (`Owned`), and what a handler with one connection has seen is one version (`Once`) |
| | types of `Streaming`, `EndMeansDone` | `StreamInv`: every line is in the pipe or read (`Counted`), an ended call has waited for the child (`Waited`), and the reader ends only when nobody is left to write (`Drained`, `Joined`) |
| `BackupExport_proofs` | types of `Backup`, `QuietBackupIsComplete` | `BackupInv`: a file with an empty log has its last commit in every page (`Contents`), nobody has a quiet file open and its log is empty once its checkpoint is past (`Quiet`), and what is copied of it is of that commit (`Copied`) |
| | `SplinkSeesEveryField` | `RowsAreRaw`: what the export has read, written or left in a file is a raw record that the table has held; the rest is in the operators |
| | types of `Export`, `SplinkReadsNewest` | `ExportInv`: a whole tmp file is the newest export and a torn one is newer (`Tmp`), `devices.csv` is whole, and the newest where there is no tmp file (`Csv`), and each step of the swap has the file it works on (`Exporting`) |
| `Questions_proofs` | `FetchIsWholeOrNothing`, `LoadedManifestRuns`, `ClusterViewsAgree`, `QueriesAgree`, `LinksAreJustified` | none: a question has one step, and the work is in the operators |

The properties are not inductive as they stand. That the served mesh is
finished, for instance, needs that the file about to be renamed is finished, which
needs that nobody else has touched the tmp name since, which needs the lock; this
chain is what `IInv` spells out. The proof of each component has a lemma per
action, each with a step per conjunct that the action can disturb; temporal
steps only combine them. In the refinement of the status
register each step of `StatusFile` maps to one step of `StatusRegister` or to none;
the step that counts is the `ftruncate`, and a process that dies before it leaves the
old value, the new one or the default, as the write did.

**The operators.** `Questions_proofs` proves each promise for every question of its
kind, of whatever size, and the argument is the program's own.

- *Fetches* (`StrategiesAreWhole`, `DetailsAreAdded`): the least request that ends a
  loop exists, and what was returned before it is what the server had; each strategy is
  a lemma, since each ends for other reasons. Details keep every row and value, or lose all.
- *Manifest* (`ManifestTheorem`): for any manifest that `_validate` lets through,
  each later failure is one of those it does not look at; the stages (ingest, export,
  attach) are a lemma each.
- *Clusters* (`ViewsTheorem`): table and story have a value if some record has one (the story
  none of a derived field), and the same where records are of the first source of the
  priority and have just one, though one is SQL and the other Python; a conflict or a
  mismatch is drift, and a serial in two clusters a split identity.
- *Attachments* (`JustifiedTheorem`, `DocumentsTheorem`): a key of the keyspace is held
  by a row of its cluster; a value that one cluster has, in the field joined on and in the
  scope, and no other cluster in any key, goes there; a document goes where the employee
  is whom it names.
- *Queries*: whatever a record has in a field of the lookup is found, an exact column
  of a device first, and nothing that the text is not in; of the two fields that only the
  search looks at nothing is said (`LookupTheorem`, step by step through the cascade); the
  three reports count every device and record once and alike (`CountersTheorem`); a walk
  through the pages sees every cluster once that has no twin in the order
  (`PagesTheorem`); a trace has no device twice and an edge to each of its nodes, whatever
  happens to the mesh meanwhile, and in one mesh devices are linked both ways
  (`TraceTheorem`); a device's history has no change of another device, and all changes of
  the feeds whose key is their source (`HistoryTheorem`); a metric is in one cluster, and
  summary, stats and list over one table agree (`MetricsTheorem`).

The rows of the export are proved in `BackupExport_proofs`, for any record with any values
at any paths, and any spec that extracts fields as the default manifest's do (`IsFeed`):

- *Joining*: `Join` is a recursive function. That it has the value its recursion says is
  shown by the least prefix without a solution (`JoinExists`), and that it has the words
  of the texts and no others by the least prefix that has not (`JoinWords`). A
  join is all that a list, a field of several paths and an id are.
- *Extracting*: dropping what came before loses no word (`DistinctTexts`), so a field has,
  before its transform, exactly the words at its paths (`ExtractedWords`), and it begins with
  the first value found (`ExtractedBegins`).
- *Normalising*: each normaliser and transform takes words away and adds none (`Part`,
  `NormalizeParts`, `TransformParts`), and what it makes of a longer text has what it
  makes of its beginning (`MacBegins`, `TransformBegins`).
- *The row*: column by column (`RowColumns`); a column has what its transform makes of the
  first value (`FieldsAreFilled`), a path that nothing excludes is in the extra attributes
  (`ExtrasAreKept`), and each column has the words of its own field (`Origins`,
  `RowsAreAuthentic`).
- *The feeds*: that the eight specs of the manifest are such is a lemma each.

The other lemmas are about minima and maxima of sets of naturals (`NatMin`,
`NatMax`, from the well-founded order of the naturals), cardinalities of classes
(`Classes`, `Interval`), and sequences that list a set once (`EachOnce`, `BothOnce`).

**Assumptions.** The theorems hold for any sets of runs, feeds, keys, clusters, files,
pages, replies and texts that satisfy the modules' assumptions, which TLC evaluates on
every run. Most say that a bound is a natural number. Those that say more: a page has at least one row
(`FetchAssumption`; `row_count` is 100); a text that counts as a token has a length, and the
empty text is no document's URL (`AttachAssumption`); nothing lies within the empty text
(`QueryAssumption`); the margin covers the delay of a reply and is less than a life
(`OAuthAssumption`: 45, 60 and 3600 s); the comma is a token, and a raw record has texts at
its paths and is of an anchor feed (`ExportAssumption`). A host sends finitely many items.
The links of a feed read different fields, as those of the manifest do. Five theorems of `MeshPipeline_proofs` carry the condition
`WorkerRuns = {}`, and the run `mesh_unlocked` shows that it cannot go; for
`QuietMeshIsComplete` one worker run is enough (section 6).

**What the violated statements lack.** A counterexample shows one way in which a statement
fails; these theorems say what would be enough, or that there is no other way.

- `ExclusionTheorem`: while no run unlinks a file that another has open, the lock is
  exclusive, whatever crashes, refusals and leftover files there are. Leaving the file where it
  is would be enough.
- `ApartFinishedTheorem`, `ApartProgressTheorem`: with any runs of the worker, which take no
  lock, the served mesh is finished as long as no two loads overlap, and never goes back as
  long as no two runs are between Splink's writing and the rename. `LockKeepsApart`: without
  worker runs this is so. Nothing else that the lock does is needed for the two.
- `FailedCommitTheorem`: rows of a failed feed are committed by another feed of the run,
  never by the close or a crash; a run without such a commit keeps what it reports
  (`FailedTheorem`). A rollback in the `except` would be enough.
- `SwapTheorem`: a full run takes or empties a committed table with its own DROP outside a
  transaction, or with the commit of a later feed after its swap failed half-way in the
  transaction that an earlier failure left open. The second takes three feeds, one more than
  `rawstore` has; the attempt to prove the first alone found it.
- `OnlyNullDoublesTheorem`: where no row of the mesh has a NULL id, a file that was read
  leaves one row per record, also where an older version had left several.

**What the attempts found.** No property turned out wrong, but some definitions were looser
than they looked. `CASE`s whose arms overlapped left the choice open where the code
takes the first: `Column`, `Normalized`, `Resolve`, `NormalizeSerial` and the loop of
`paging.next` have exclusive arms now. A set difference
after a `UNION` in the failures of the attachments bound more tightly than was meant. That
a document goes to its employee needed the empty text not to be a URL, and that a
lookup is a search needed the empty text to hold nothing; neither had been written down.
What Splink sees is two properties, since which file it reads does not depend on what
is in it. The second, `SplinkSeesEveryField`, has taken several attempts. A row had
only the fields that others derive from; it has every field of its spec now, and the run
has records that use them. The proof showed a loss that no record of the run had met: of a
spec for `source_id` with several paths only the id is read (section 6). It also showed
that the property spoke of one direction alone; `Authentic` is the other.

**Only model-checked.**

- The liveness properties (`LockNeverJams`, `EveryTaskTriedAgain`, `StopEnds`,
  `RequestsAnswered`, `CallEnds`): beyond the prover.
- The violated statements as they stand, by their nature.

The other way round, the types of the parts of `MCData` and of `Streaming` are in no run but
only proved (`StatusTypeOK`, `TokenTypeOK`, `BackupTypeOK`, `ExportTypeOK`, `StreamTypeOK`).

## 5. Not modelled

- The statistics of Splink and the Valentine matcher: third-party numbers. When they
  run, and on which files, is in `MeshPipeline` and `Export`; the views that Valentine
  makes, and the queries over them (enriched and unmapped fields), are left out.
- `Z/api/metrics.py`: counters and buckets added to under one lock, one statement each.
- Configuration, logging, rendering, the command line, dashboard, scripts,
  benchmarks and demo data: they format text or read settings, and keep no state
  that a correctness property would be about.
- Code without a caller: `run_feed`, `create_table`, `insert` and `insert_raw` of the
  raw store.
- `Z/resolve/classifier.py` (a lookup of the kind of a feed), the tables of words that
  give an OS family, `export_source`'s own writing.
- The authenticators without state (basic, NTLM, API key, header) and the thread pool
  of `Z/ingest_adapter.py`, whose threads share neither a store nor a token file.
- `list`, `vacuum` and `check` of `Z/cli/db_mgmt.py`, single calls of SQLite.
- `MeshPipeline` over the real lock: the two are apart on purpose, since the lock's
  defect (`lock_exclusion`) would hide everything the pipeline does right.
- Windows, where `_try_flock` and the status file's lock do nothing.

## 6. Facts found on the way

**Shown by a run.** Seven statements of docstrings and comments are false, and a violated
run each shows how (`findings` in `PROJECT.json` quotes them): the lock (`lock_exclusion`),
the rows of a failed feed (`rawstore_failed`), the tmp file of the mesh (`mesh_unlocked`),
one row per record (`incload_twins`), a single connection per request (`service_mixed`),
the primary source `me` (`data_primary`), and the field a link joins on (`data_links`).

**Disagreements on which no property takes a side.** Where a comment or a document says one
thing and the code does another, a passing property would pass over it or take one side.
Beside the seven above, these are the cases; the models do what the code does, and the
properties are silent on them.

| What is said | What the code does | Silent on it |
|---|---|---|
| first non-empty value wins (`types.py:67`); fallback paths (`manifest/__init__.py:43,55`) | the values of all paths are joined (`walker.py:44-50`) | `SplinkSeesEveryField`: only the first value |
| `detail_max`: max detail calls per run (`paged_json_detail.py:34`) | it limits the locations (75-112) | `FetchIsWholeOrNothing` |
| `[]` on error (`paged_json.py:122`) | a refused request on a later page keeps the pages before it (line 37) | `FetchIsWholeOrNothing`: an exception by name |
| a lookup works with asset tags (`router.py:126`) | they are not among its fields (`db.py:157-170`) | `QueriesAgree`: answers of the other fields |
| changes of `zbx` and `sp` reach a history (`DATA_CORRELATION.md:395-408`, 433) | `field_history` names the feed, the mesh the mapped source, so only `me_ec`, `me_mdm` and `fg_dhcp` meet | `QueriesAgree`: nothing on other feeds but that no change is shown to another device |
| a scope per link (`types.py:85`), a keyspace that is 1:1 (`attach.py:206`) | the first link's scope is used for all (`attach.py:263`), the last row of a key wins (`attach.py:92`) | `LinksAreJustified`: links with the first's scope, values of one cluster |
| one best-effort rule for table and story (`PLAN_SENTINEL_PORT.md:200-205`) | the table takes the least value, the story that of the highest coverage | `ClusterViewsAgree`: clusters with a value of the first source |
| the swap of a raw table is atomic (`base.py:121`) | three statements that commit one by one (`base.py:135`) | no run; `SwapTheorem` says in which two ways a table goes |
| the worker runs the full pipeline (`worker.py:19`, `pipeline.py:891`) | export, splink and load: the mesh it leaves has no views, no links and an older clusters.csv's annotations (`worker.py:85-94`) | `QuietMeshIsComplete` is checked and proved without worker runs |

Some properties hold because what goes wrong is named as an exception in them, which is
said here so that nobody takes them for more. `DoneMeansRebuilt` does not say that a stage
that failed is shown as failed: some stay "running". `RequestsAnswered` counts 503 as an
answer. `RefreshTokenKept` excuses two refreshes that overlap, and `QuietBackupIsComplete`
a file that somebody writes to. `ReferencesResolve` and `MeshNeverGoesBack` excuse a mesh
into whose `clusters.csv` the Splink of a crashed run wrote. The views of a device's metrics
agree over one table; that one answer is of one table is not claimed, and `service_mixed`
shows that it need not be.

**Other facts.** The following were met while translating; the models have them as the code
does, none is silently repaired.

*Ingest and manifest*

- A request that is refused, or an empty body, in the middle of a page list ends it as if
  it were whole, and a full run then replaces the table (`paged_json.py:37`). Two of the
  paging loops have no bound if a server never ends. `rest_json` does not check the
  status, so without a path the body of an error becomes a row.
- A row of a list with details that is no object, or a location reply that is a list, raises
  an `AttributeError` that nothing catches (`paged_json_detail.py:113-122`): the whole list is
  lost and counts as an empty fetch.
- `_validate` does not look at the kind of an auth, the comparisons of a profile, the
  name `device` that export looks for, the strategy of a link, or two stores of one name.
  A SharePoint system with auth kind `none` fetches without a token.
- A spec that is a pair whose second path is the name of a transform is taken for a path
  and its transform. The manifest's docstring counts 23 feeds and 6 attachments; there
  are 24 and 7.

*Export*

- The paths of a spec for `source_id` other than the feed's id are read for no column, since
  `walk_feed` overwrites the field (`walker.py:215`), and are kept out of the extra attributes all
  the same (`walker.py:154`): `RESOURCEID` and `DEVICEID` are lost. The exclusion ignores case
  and covers the columns of the raw store, so a raw `ID` that is no id is lost as well.
- A crash while `devices.csv.tmp` is written leaves a torn file that is newer than
  `devices.csv`, and `run_splink.py:12` prefers it.
- `normalize_serial` strips one prefix per call and is applied several times on the way.
  The pattern for invented MACs (`_ME_FAKE_MAC_RE`) matches nothing that it is given.

*Mesh and attachments*

- The freshness bridge reads a table that no store has and swaps two columns
  (`pipeline.py:533`); `record_freshness` stays empty, and the zombies of the anomalies
  report are always none.
- The second scope of `sp_accountinfo` is the only one that the default manifest loses. The
  confidence 0.7 cannot occur.
- A source of truth for `name` has no column; `os_family` never has one in a story.
- The Splink of a run that dies goes on and rewrites `clusters.csv` next to whatever run has
  the lock by then (`streaming.py:70-78`, `splink_runner.py:239`).
- A run that cannot write its pid, and cannot when it closes the file either, leaves
  `pipeline.lock` behind without having crashed (`pipeline.py:823-828`, 871-877).

*API*

- The dashboard counts `(unnamed)` as a name. A blank lookup finds a device without
  serial, and none finds ids with capitals. Several addresses joined into one
  text match no VLAN, and two VLANs of one name become one node twice.
- A server that starts before there is a mesh answers 503 until it is started again,
  and the deadline of 30 s fires only after the query it is for. One that is stopped by
  SIGTERM kills a pipeline run in the middle, since uvicorn raises the signal again after
  the lifespan without waiting for the executors' threads (`server.py:54-60`).
