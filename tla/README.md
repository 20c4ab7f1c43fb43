# Streaming-Lakehouse in TLA+

TLA+ models of the Streaming-Lakehouse repository, the TLC runs that check them
on small instances, and proofs of the theorems that matter most for every value
of the constants. Line numbers refer to the repository's own files.

## 1. The system

| Part | State it keeps | Operations | Hard part |
|------|----------------|------------|-----------|
| mini-iceberg **catalog** (`miniiceberg/catalog.py`, `io.py`, `metadata.py`) | `version-hint.text`, `v<N>.metadata.json`, and the version and metadata in each caller's `Table` object | `create_table`, `load_table`, `commit`, `drop_table` | no lock: check and write are separate requests; writers stall, die, or get no reply |
| mini-iceberg **table** (`table.py`, `manifest.py`, `types.py`) | data files, manifests, manifest lists, snapshots in the metadata | `append`, `overwrite`, `add_column`, `scan` | five kinds of files written in order before the commit; snapshot ids are milliseconds |
| mini-iceberg **transforms**, **statistics** | none | `identity`, `bucket[N]`, `truncate[W]`, min/max | nulls and boundaries |
| **producer** (`producer/produce.py`) | the last 5000 orders it produced, Kafka's send buffer | new order, status update, delivery callback, flush | lost deliveries, equal timestamps, order lifecycle |
| **streaming job** (`jobs/streaming/stream_to_hudi.py`) | Kafka offsets in the checkpoint, two Hudi tables | `build_stream`, `for_each`, `write_to_hudi` | a batch reaches one table and not the other, and is replayed |
| **Hudi services** (options in `stream_to_hudi.py`; `jobs/clean_test`, `timetravel_test`, `partition_test_mor`, `raw_read_test`, `verify_hudi.py`) | timeline, base files and logs, what a query has read | upsert, roll-back, compaction, clean, archival; snapshot, read-optimized and time-travel queries | the cleaner removes what a reader may still ask for; compactions and writes overlap |
| **stack** (`docker-compose.yml`, `Makefile`) | running and healthy containers | start-up in dependency order | a failed initialisation that reports success |

The producer sends order events to Kafka; the streaming job reads them in
micro-batches and upserts each batch into a copy-on-write and then a
merge-on-read Hudi table, which Trino and `verify_hudi.py` read. mini-iceberg is
independent of these: a library that keeps tables as files, used by several
processes that share nothing but the warehouse. It is where most of the
repository's own protocol code is, so it is modelled first and proved about.

What makes each part correct:

* catalog: a committed change is never lost or replaced; the hint always names a
  readable file; a dropped table does not come back; a table keeps its identity.
* table: a scan at a snapshot returns for ever what its writer put there; an
  append keeps what was live, an overwrite nothing; nothing committed is missing
  from storage; snapshots form one chain.
* partitions: every row is in one file, in the partition its value belongs to;
  filters and statistics never hide a row that matches.
* producer: its memory does not run away from the topic; the versions of an order
  arrive in order; the process ends.
* streaming: each table always is what a prefix of the topic amounts to, and both
  end with the newest version of every order, whatever was replayed or removed.
* Hudi services: a query sees whole writes and nothing else, whatever is compacted,
  cleaned, archived or rolled back while it runs, and fails only outside the
  retention window.
* stack: every service eventually runs, and none before what it needs.

## 2. Modules

| Module | What it is |
|--------|------------|
| `TableHistory` | abstract: no table, or an identity and a log of changes that only grows |
| `Catalog` | the catalog at the grain of file operations; refines `TableHistory` |
| `CatalogProofs` | theorems about `Catalog` |
| `TimeTravelTable` | abstract: the list of views a reader can scan |
| `IcebergTable` | writes and scans, composed with `Catalog`; refines `TimeTravelTable` |
| `IcebergProofs` | theorems about `IcebergTable` |
| `PartitionedTable` | rows, partition specs, transforms, statistics, filters; refines `TimeTravelTable` row by row |
| `PartitionProofs` | theorems about `PartitionedTable` |
| `OrderProducer` | the producer and its Kafka client |
| `ProducerProofs` | theorems about `OrderProducer` |
| `MaterializedView` | abstract: what a table that follows the topic shows |
| `StreamIngest` | the streaming job, both Hudi tables; each refines `MaterializedView` |
| `StreamProofs` | theorems about `StreamIngest` |
| `Pipeline` | `OrderProducer` and `StreamIngest` joined by the topic |
| `PipelineProofs` | theorems about `Pipeline`, from those of its parts |
| `AtomicUpserts` | abstract: a table that changes by whole batches of upserts and deletes |
| `HudiTable` | one Hudi table with its services and a reader; refines `AtomicUpserts` |
| `HudiProofs` | theorems about `HudiTable` |
| `FiniteBounds` | lemmas: a bounded set of integers has a least and a greatest element, a finite set a least one in any total order, and one at each position |
| `MCCatalog`, `MCIcebergTable`, `MCPartitionedTable`, `MCStreamIngest`, `MCPipeline`, `MCHudiTable` | symmetry sets and values of constants for TLC |

### Catalog

One table identifier. A *client* is one `Table` object and the call made on it;
two variables of one program that loaded the same table are two clients, as in
`tests/test_table.py:84-86`.

| Variable | In the code |
|----------|-------------|
| `hint` | content of `version-hint.text`, 0 when it does not exist |
| `vfile[n]` | content of `v<n>.metadata.json`: metadata, or `None`, `Truncated`, `Garbled` |
| `handle[c]` | `Table.version` and `Table.metadata` |
| `pc[c]`, `work[c]`, `doomed[c]` | where a call is between two file operations and its local variables |
| `born` | uuids generated so far (`metadata.py:39`) |

Metadata is an identity and the sequence of changes made to it; what a change is
comes with the constant `Changes`. Actions follow the file operations:
`CreateTable` and `CommitCheck` are the existence check and the version check
(`catalog.py:66`, `135`), `Put` and `Fill` the writing of the metadata file
(`io.py:58-62`; one step on an object store, an open that truncates and a write
on a local disk), `Point` the replacement of the hint (`io.py:82-97`). A check
that fails raises and changes nothing, so it is not a step. `LoadHint` and
`LoadMeta` are the two reads of `load_table`. `DropCheck`, `UnlinkHint`,
`ListFiles`, `RemoveFile`, `RemoveRaises`, `SkipFile` and `PurgeReturns` are
`drop_table`, with its second, forgiving pass. `Crash` kills the process between
two operations; `Raise` is a storage error, after which the caller still has its
`Table`; `PointReplyLost` is an update that happened and was reported as failed.

Constants choose the situation: `ObjectStore` (S3 or a local directory),
`SingleWriter` (callers take turns: the comment at `io.py:88` says "single-writer
is fine here"), `StorageErrors`, `PurgeArgs` (which drops callers make).

### IcebergTable

`EXTENDS` nothing of the project; it INSTANCEs `Catalog` as `Cat` with
`Changes <- TableChanges`, shares its variables, and adds

| Variable | In the code |
|----------|-------------|
| `clock` | `int(time.time() * 1000)` |
| `files` | data files and manifests on storage (both have uuid names) |
| `mlist[id]` | content of `snap-<id>.manifest-list.json` |
| `job[c]` | the `_write` call of `c` and its local variables |
| `failures` | only a counter for the bound `MaxFailures` |

`_write` (`table.py:118-186`) is, step by step, `StartWrite`, `WriteParquet` for
each partition value, `Stamp`, `ReadLive`, `WriteManifest`, `WriteList` (and
`FillList` on a local disk), and `CommitWrite` or `CommitRejected`; then the
catalog's `Put` and `Point` follow. A manifest is identified with what is in it,
since its name is unique. Each snapshot carries a history field `shows`, the files
its writer meant it to have, which scans are compared with.

`UniqueMillis` says whether two writes may be stamped in one millisecond; time
passes at a stamp, or not.

### PartitionedTable

The same `append`, `overwrite` and `add_column`, at another grain: each call is one
step, and what is kept is the rows. `IcebergTable` says that concurrent callers and
crashes do not change what a snapshot has; here the question is whether the right
rows are in it.

| Variable | In the code |
|----------|-------------|
| `spec`, `schema` | `TableMetadata.partition_spec()` and the names in `schema()` |
| `snapshots[i]` | operation and live data files of the i-th snapshot |
| `stored` | data files: partition values, rows, columns, column statistics |
| `meant[i]` | history: the rows callers expect in the i-th snapshot |
| `writes`, `failures` | number the calls, so that equal rows of two calls differ; bound |

`Write` is a call that succeeds: `ToArrow` is `_rows_to_arrow` (columns the schema
has, `None` where a dict has no value), `PartitionKey` and `PartitionGroups` are
`_partition_groups` with the transforms of `transforms.py`, `WriteParquet` and
`ComputeStats` are `_write_parquet` and `stats.py`, `PartitionMatches` is
`Scan._partition_matches`. `WriteRaises` is a call that raises after it has written
files: an error of storage, a `date` or `timestamp` partition value that
`json.dump` refuses, a column that `add_column` added under a name the schema
already has. A string is the sequence of its characters, a value of another type
its place in the order of the type (a date its day, a boolean 0 or 1, as which `truncate` takes it too; NaN, which has no
place, is left out); the bits of murmur3 are the constant `Hash`.

### OrderProducer

| Variable | In the code |
|----------|-------------|
| `seen`, `nextId`, `sent` | the local variables of `main` (`produce.py:111-114`); an order in `seen` is its last event |
| `queue[p]` | events the Kafka client holds for partition `p` |
| `topic[p]` | what partition `p` got |
| `phase` | in the loop, in `flush(15)`, or ended |
| `clock` | `int(time.time() * 1000)`; it does not go back |
| `dropped` | history: orders of this run that lost an event |

`NewOrder` and `UpdateOrder` are one pass of the loop, with the copy in memory and
`produce`; `QueueOverflows` is the `BufferError` nobody catches; `LeaveLoop` the end
of the loop or a signal; `Flushed` the return of `flush`, on time or not. `Deliver`
and `GiveUp` are the client's thread: idempotence keeps the order within a
partition, `delivery_callback` ignores what it is told. `RunAgain` is a second
`make produce`, which begins with order 1 again. Bursts and pacing only choose when
steps happen, so they have no state.

### StreamIngest

| Variable | In the code |
|----------|-------------|
| `planned`, `committed` | the offset log and the commit log in `--checkpoint` |
| `pc`, `batch` | where the query is, and the cached `batch_df` |
| `table["cow"]`, `table["mor"]` | the rows of the two Hudi tables |
| `expired[p]` | how far Kafka has removed partition `p` |
| `origin`, `shown[t]`, `missed[t]` | history: where the first batch began, how far each table got, what it passed without having it |

A trigger is `PlanBatch` (the rate limit is shared out by `Share`), `ReadBatch`
(`build_stream`, `persist` and `isEmpty`: removed offsets are skipped, records that
do not parse are filtered out), `WriteTable("cow")`, `WriteTable("mor")` and
`CommitBatch`. `Crash` is anything that ends the query, an exception in a save
included; `Restart` runs a batch that was planned and not committed again, with the
same offsets, which may have been removed by then. Spark, Kafka and Hudi are not in
the repository: they are modelled by what the job configures (checkpoint,
`failOnDataLoss`, `maxOffsetsPerTrigger`, upsert with a precombine field, one
writer). A Hudi save is one atomic commit. Among records with the same precombine
value any may be kept.

`Pipeline` EXTENDS `OrderProducer` and INSTANCEs `StreamIngest` on the same topic,
without Kafka's retention, which `stream_replays` covers.

### HudiTable

`StreamIngest` takes a Hudi save to be one atomic commit and its tables to be
readable at any time. `HudiTable` says what that rests on: a table made of files,
with the services that the options of the jobs turn on.

| Variable | In the code |
|----------|-------------|
| `config` | an option set: the streaming job's for each table type (`stream_to_hudi.py:61-123`), or that of an experiment under `jobs/` |
| `last`, `done`, `archived` | the timeline: requested, completed and archived instants |
| `files` | base files and logs; each names its instant, its slice and its rows |
| `routes[i]` | the record index: which file group the write at instant `i` put each key into |
| `upsert`, `compaction`, `cleaning` | the write, compaction and clean in progress; a crash leaves them pending |
| `cleaned` | the earliest instant that completed cleans retained |
| `query` | one reader: the commits it has listed, the files it needs, what it has read |
| `batches[i]` | history: what the write at instant `i` does |

`StartUpsert`, `WriteFile` and `CompleteUpsert` are one `save` with what the options
put before and behind it (asynchronous or synchronous clean, archival, inline or
asynchronous compaction); `RollBack` is what the next write does about one that
died; `ScheduleByCall` is `CALL run_compaction` of the experiments. `ListCommits`,
`TimeTravel`, `StartQuery` and `ReadPartition` are the queries of `verify_hudi.py`
and of the experiments: the list of commits first, the instant from it later, the
files after that, partition by partition. Hudi itself is not in the repository: the
model follows the options, and what the experiments and their notes say they saw.

A file group is named by its partition and the write that made it. An update goes to
the file group the record index names (`Location`), a new key to a small file group of
its partition or to one that this write makes (`InsertGroups`; which one is
nondeterministic). Neither the record index nor a bloom index covers logs, so in a
merge-on-read table new keys come in base files: the file groups of that partition
that can get one are written anew with all their rows (`Rebased`), the others get a
log, and a file group with logs or a pending compaction takes no new keys
(`Paddable`). That is what `RUN_LOG.md` of the job recorded: five delta commits and no
compaction, log files beside base files, and as many read-optimized rows (13757) as
snapshot rows after a first batch of 13745 orders. Its note 6 expects the snapshot
to have more rows than the read-optimized query when volumes grow; by the model it has
not, since only updates and deletes wait in logs.

## 3. Runs

Runs that pass:

| Run | Situation | Shows |
|-----|-----------|-------|
| `catalog_one_writer` | 3 clients taking turns, local disk, crashes, errors, a drop, versions up to 4 | refines `TableHistory`; `PointerReadable`, `SameVersionSameState`, `LoadedVersionsStay` |
| `catalog_races` | 2 clients, no turns, object store, every operation against every other: errors, lost replies, purges that fail half-way, a table dropped and created again under a stalled writer | `VersionCountsChanges`, `PurgeLeavesOnlyNew`, `TypeOK` |
| `table_one_writer` | 2 clients taking turns, local disk, writes to one or two partitions, one crash or storage error anywhere, schema changes, a drop | refines `TimeTravelTable`; `NothingDangles` |
| `table_racing_writers` | 2 clients, no turns, object store, commits applied although the writer sees an exception, 3 writes with distinct ids | `SnapshotsImmutable`, `LineageOrdered`, `NothingDangles`, `TypeOK` |
| `partitioned_scans` | 7 partition specs over integers on both sides of zero, booleans, strings, dates and nulls; filters on any of the partition columns; 3 calls of up to 2 rows, one of which may raise half-way; added columns, one of them twice | refines `TimeTravelTable` by rows; `ScanReturnsMeant`, `FilterSelects`, `StatsBoundRows`, `TruncateHoldsRange`, `TypeOK` |
| `stream_replays` | 2 partitions, read from the latest offset on; the query ends anywhere and starts again; Kafka removes events at any time, some do not parse | both tables refine `MaterializedView`; `BothNewest`, `NeverOlder`, `EveryEventCommitted`, `TypeOK` |
| `pipeline_end_to_end` | producer and job together: 2 runs of the producer, late and failed deliveries, a full queue, a crash of the job | `TablesMatchMemory`, `MemoryMatchesTopic`, `Exits`, `TypeOK` |
| `hudi_services` | 7 different option sets of the jobs, 2 partitions, 3 orders, 4 instants, one crash of the driver anywhere, one query of any kind, as slow as it likes | refines `AtomicUpserts`; `QueriesReadCommits`, `ReadOptimizedLags`, `FailsOutsideWindow`, `TypeOK` |

Runs that find a disagreement between the code and what is said about it:

| Run | Violated | What happens |
|-----|----------|--------------|
| `catalog_clash` | `SameVersionSameState` | both writers pass the check at `catalog.py:136` before either writes; both are told they committed the same version; one commit is gone. `README.md:52` of mini-iceberg promises a `RuntimeError` |
| `catalog_recreated` | `TableUuidFixed` | without any race: a `Table` kept across a drop and a create matches the new table by number and replaces it with the dropped one |
| `table_same_millisecond` | `SnapshotsImmutable` | a writer whose commit is refused has already replaced the manifest list of the one that succeeded in the same millisecond |
| `partitioned_hidden` | `HiddenPartitioning` | in the bucketed table of `examples/04_partitioned.py` a filter on the source column ("the user just queries `user_id = 42`") finds no row: filters are looked up among the names of partition columns only (`table.py:49`) |

**Bounds.** `MaxVersion`, `MaxClock`, `MaxFiles`, `MaxFailures`, `MaxLog`,
`MaxCrashes`, `MaxRuns`, `MaxWrites`, `MaxRows`, `MaxColumns` and `MaxInstants` stop
a behaviour where the program would go on, so runs do not check deadlock.

* Catalog: two identities are what a drop and a create need; two changes tell two
  committers apart; three clients let a third read or write between two stalled
  ones. Two versions are enough for a race: a commit on a version that somebody
  replaced. Longer histories are in `catalog_one_writer`, and the theorems hold for
  all of them.
* Table: three writes give a table that was written, written again by somebody who
  saw that, and once more by somebody who did not; three files a write to two
  partitions and one to a third file. One failure cuts each call short at each step; where
  writers race, two of them and three writes fill the five minutes of a run, so crashes
  and errors other than lost replies are left to `table_one_writer` and the theorems.
* Partitions: three calls give two snapshots after one that failed; two rows are
  enough for two to share a partition or not. There is a column for each kind of value
  the transforms tell apart, and one that is added later or again.
* Stream: two milliseconds give older, equal and newer versions, two events a batch
  that holds several versions of an order and one that follows another; one crash
  cuts a batch short at every point. A client queue of one event is the smallest that
  can be full; two runs of two events each make a new order, a late update and a
  reused order number. In a queue of one event nothing can be overtaken; that the
  versions of an order arrive in order is proved for queues of any length and not run
  (`ProducerFeedsStream`).
* Hudi: `Retained` 1, `DeltaCommits` 2 and `KeepMin`/`KeepMax` 2 stand for 10, 5 and
  20/30 in the same order. Four instants reach two writes, a compaction of them and a
  write beside it; or four writes, with a clean that removes what came before the last
  ones and archival past that. A clean after a compaction takes a fifth: the theorems
  cover it. Two orders of one country and one of another can share a file group, be in
  two, and be in two partitions; the batches update some keys and not others, and delete
  one that comes back.

Clients, changes and partitions are symmetric: the models never compare them. Every run
ends within four minutes.

**Fairness.** mini-iceberg and the Hudi reader retry and wait for nothing: no
fairness, no liveness. The streaming query has weak fairness of its own steps
(`JobStep`): Spark fires a trigger every 20 seconds and `foreachBatch` runs to its end
unless the query ends. Restarting is up to an operator and not fair, so
`EveryEventCommitted` promises something only while the query runs. The producer has
weak fairness of its loop and of `flush`, which has a timeout; the broker and the
client's thread have none.

Each property of a passing run has a *faulty variant* in its module, an operator
that repeats an action with a plausible mistake (a check dropped, a file not
written, the hint moved first), with which the run finds the property violated.

## 4. Proofs

Seven modules of theorems, one for each model. They hold for all
sets of clients, partitions, orders, rows and files and for every bound; the
assumptions are those of the modules' `ASSUME`s (bounds are numbers, switches are
Booleans, marks such as `None` are not data), which TLC evaluates in every run.
Where an operator takes the largest or the first element of a set, `FiniteBounds`
shows that there is one: in a bounded set of integers, and in a finite set for any
total order. Induction over the size of a set is not at hand, so `LeastElement` takes
an element with the fewest elements below it, and `RankReached`, which finds the n-th
of a finite set of integers, the smallest with at least n elements up to it.

**`CatalogProofs`**

* `TypeCorrect`: `TypeOK`. Inductive together with `PhaseOK`, which says what a
  client works on in each phase: complete metadata while it writes, only a version
  while it loads.
* `VersionsCount`: `VersionCountsChanges`, without any condition: races, crashes,
  drops and purges included. Inductive together with the same fact about metadata
  not yet written.
* `PointerSafeOnObjectStore`: `PointerReadable` if the storage is an object store
  and nobody purges. `PointerInv` adds that a client about to move the hint has
  stored the file, and files are never removed or truncated. On a local disk a late
  writer's `open(..., "wb")` empties the file the hint already names, and a purge
  that dies between two files leaves the hint naming a removed one: both conditions
  are needed.
* `CatalogRefinesHistory`, `LoadedVersionsSafe`, `OneWinnerPerVersion`: under
  `OneLife` (callers take turns, no purge, a dropped name is not reused) the
  catalog implements `TableHistory`, never overwrites a loaded version and has one
  winner per version, on both kinds of storage. `HistoryInv` is the invariant: at
  most one client is in a mutating call; the version it builds is the current one
  plus one change under the next number (`BuildsNext`); what anybody holds is on
  storage as it was (`HandlesStored`); before the first commit nobody holds
  anything, after a drop nobody writes (`BornOnce`). `catalog_clash` and
  `catalog_recreated` show that turns and no reuse are needed.

* `PurgesAreThorough`: `PurgeLeavesOnlyNew`, whoever writes, crashes or purges at the
  same time. What is there during a purge is on the list of what it still removes or
  was written or skipped since it listed (`PurgeInv`).

**`IcebergProofs`** takes the steps of the catalog from `CatalogProofs` through an
INSTANCE: every step of a table that touches the catalog's variables is one of its
steps (`SameSteps`), so their types need no second proof.

* `TypeCorrect` and `NoDanglingFiles`: `TypeOK` and `NothingDangles`, unconditionally.
  `StorageInv` adds that every readable manifest list names a stored manifest whose
  live files are stored (`ListsOK`), and that a write has uploaded everything its
  later steps refer to (`JobsOK`). The second is what the order of the uploads in
  `_write` gives, and what makes the first one inductive.
* `SnapshotsKeepTheirFiles` and `LineageIsAChain`: `SnapshotsImmutable` and
  `LineageOrdered`, if no two writes are stamped in one millisecond and however
  commits race. `SnapshotInv` looks at all metadata there is (`Held`): in a `Table`
  object, about to be written, or written, since any of it may become the table.
  Each snapshot in it is older than the clock, has a list that says what its writer
  meant, and has the one before it as its parent (`MetaOK`); the id of a write that
  is stamped and not committed is nobody else's (`JobIdsOK`), so no list that a
  snapshot refers to is written again. `table_same_millisecond` shows that the
  condition is needed.
* `WritesRefineTimeTravel`: under the same condition and `OneLife` (as for the catalog)
  the module implements `TimeTravelTable`, through crashes, errors and lost replies, on
  both kinds of storage. `ViewsInv` joins `SnapshotInv` and the catalog's `HistoryInv`
  with what a write knows (`Knows`): its new files are in no snapshot, and its manifest
  has them, in an append together with the files of the last snapshot of the `Table`
  object it started from; while it is at work nobody else is (`OneWriter`), so that is
  still the table when it commits. New files are new because their names count
  (`NamesOK`; in the code they are uuids). What is then built is the current table with
  a change that may follow it (`BuildsOn`, `Continues`), and moving the hint adds its
  view and no other (`ViewsGrow`). The views are the snapshots of the metadata in order,
  the n-th found by its position (`Nth`), not by a recursive filter.

**`PartitionProofs`**: `TypeCorrect`, `ScansReturnRows` (`ScanReturnsMeant`),
`FiltersSelect` (`FilterSelects`), `StatsHoldForRows` (`StatsBoundRows`),
`TruncationHoldsRange` (`TruncateHoldsRange`) and `PartitionedRefinesTimeTravel`, for
any partition spec and hash function. The
invariant says of each data file that its rows are of one call and have the
partition value the file is filed under, and that it has every column in which one
of them has a value (`FileOK`); and of each snapshot that its files are disjoint and
add up to what callers expect (`HistoryOK`). The lemma about `PartitionGroups`, that
grouping by a key splits a set without loss or overlap, carries the rest. For the
statistics, `StringsCompare` and `StringsChain` show that strings of any lengths are
totally ordered by their first difference, so that the values of a column in a file
have a first and a last one. A call is given finitely many rows.

**`StreamProofs`**: `TypeCorrect`, `TablesUpToDate` (`BothNewest`), `RowsNeverOlder`
(`NeverOlder`), `CowTableIsView` and `MorTableIsView` (the refinements of
`MaterializedView`), for any number of partitions and orders, any limit and any
number of crashes. The invariant's parts: offsets are in order (`OffsetsOK`); each
table is at the committed or at the planned offsets, depending on the phase
(`ControlOK`); the batch is what can be read of the planned offsets, and with an
event it has the later ones of the same partition (`BatchOK`); a table missed only
what was gone (`MissedOK`); and each row is a newest version of what the table has
seen (`RowsOK`). The step that is not obvious is a replay after Kafka has removed
some of the batch: `KeptIsNewest` shows that an upsert of what is left still ends at
the newest version, because the versions of one order are in one partition in the
order of their times (`LogOK`, which the producer guarantees: `FeedsStream`).

**`ProducerProofs`**: `MemoryStaysCurrent` (`MemoryMatchesTopic`), for any number of
partitions, orders, events and runs, and whatever the Kafka client delays or gives up.
The invariant looks at `Sent(p)`, the delivered events followed by the queued ones: a
delivery does not change it, a new event is added at its end, a lost one is taken out
of it (`Without`). It has only the keys of its partition, in the order of their times
(`Ordered`), and the last event of an order in it is the copy in memory (`MemoryOK`),
which needs that an order is in memory once (`SeenOK`). `ProducerTypeCorrect` (`TypeOK`)
adds the limits of the memory and of the client's queue (`LimitsOK`), also across a
`BufferError`, a flush that gives up and a new start.

**`PipelineProofs`** joins the two. `ProducerFeedsStream` (`FeedsStream`): a delivery of
this producer is an arrival that `StreamIngest` allows. So the steps of the pipeline keep
the invariant of the job as `StreamProofs` has it (through an INSTANCE), next to the
producer's, and nothing has to be added: `TablesHoldMemory` (`TablesMatchMemory`) follows
from the two. The one assumption between them is that the bound on the topic is not
reached, `(MaxRuns + 1) * Total <= MaxLog`.

**`HudiProofs`**: `TableTypeCorrect` (`TypeOK`), `ReadersSeeCommits`
(`QueriesReadCommits`), `ReadOptimizedShowsPast` (`ReadOptimizedLags`),
`WindowIsRetention` (`FailsOutsideWindow`) and `FilesAreAtomicUpserts` (the refinement of
`AtomicUpserts`), for every option set of the jobs, any keys, batches and partitions, any
choice among small file groups and however long the timeline is; Hudi does what the
model takes it to do. What the options contribute is that the retained commits are fewer
than those kept in the active timeline (`Retained < KeepMin`, 10 and 20 in
`stream_to_hudi.py`). `TableInvariant` proves the inductive invariant:

* the clock of the timeline: what is under way is later than what is archived, and a
  write is the latest instant (`ClockOK`, `UpsertOK`, `CompactionOK`);
* the record index and the batches agree (`Agree`, part of `ClockOK`): up to any instant
  a key has its row in the one file group the index names and in no other, and where
  the batches left no row there is none. This turns facts about file groups into facts
  about the table;
* what the listed files hold: a log the rows of its write, a base file all rows up to
  its instant (`Content`); every completed write is in a file of its own or in a base
  file that a clean left (`Complete`); file slices do not overlap (`Disjoint`); a log
  has a base file below it or belongs to the pending compaction (`SliceHasBase`). From
  these follows that merging the newest slice of a file group gives its rows;
* for readers of base files: a key that is new in a file group went to a base file
  (`InsertsBased`), and so did what was written before a completed compaction
  (`Compacted`). So the newest base file has each of its rows as it was at some instant
  since then (`Lagging`);
* a clean removes whole slices, and none without a later base file from before the
  retained commits (`PlanOK`); so what a pending compaction reads stays (`SourceKept`),
  and merges to what was written before it (`PendingOK`);
* an open query has listed files that merge to what it may see, and each of them is
  still listed unless a commit the query does not include has left the retained ones
  (`NeedOK`). This is what connects a slow reader to the cleaner.

Instants in any of these facts are compared with the cleaner's bound, so the proof has
one step for each action and, below it, one for each part of the table it can disturb.

**Only model-checked**: liveness (`EveryEventCommitted`, `Exits`), which is beyond the
prover. Every other property that a passing run checks is the subject of a theorem.

## 5. Not modelled

* **Start-up of the stack** (`docker-compose.yml`, `Makefile`) and the smoke test:
  declarations that Docker and Make interpret, and shell around HTTP and SQL clients.
  No code of the repository reacts to a start.
* **What is lost on purpose**: events whose delivery failed, which the producer only
  prints; offsets that Kafka removed, which `failOnDataLoss=false` skips; files that the
  second pass of a purge could not remove. The properties leave these out, and the list
  of hazards says so. Nor does any property say which of two versions of an order with
  the same timestamp wins.
* **The temporary file of a local `atomic_replace`** (`io.py:93`), which threads of one
  process share: nothing in the repository uses a catalog from two threads. The
  replacement is one step here.
* **A clock that is set back** (`produce.py:56`): the version with the larger time
  wins by design of the precombine field, and nothing promises otherwise.
* **Moves between partitions**: an order keeps its country within a run of the
  producer. The experiments `partition_test_cow` and `partition_test_mor` move rows with
  SQL to see what Hudi's index does about it, which is Hudi's own behaviour.
* **Inside Hudi, Spark and Kafka**: clustering, files that reach their maximal size, the
  files of the record index (its content is in the model), column statistics,
  Hive sync, schema reconciliation, incremental queries, executors that are lost and
  read a cached batch again. The raw parquet reads of `raw_read_test` bypass the
  timeline on purpose, so there is no promise to check.
* In mini-iceberg: `list_tables` (it only reads directories), path handling, JSON
  layout, purging data files (the catalog's own files are purged), the bits of
  murmur3, two equal rows in one call (the model tells rows apart by call and value),
  and `append(arrow_table=...)`, which skips `_rows_to_arrow` and so takes columns the
  schema does not have.

Three things the code does and no property forbids. `CANCELLED` is not in `STATUSES`, so
the next update of a cancelled order makes it `PAID` (`produce.py:80`), and its deleted
row returns to both tables. Two creates of one name that race both return a `Table`, and
the second replaces the first (`catalog.py:67`), which is the state `catalog_recreated`
gets to by turns. And `verify_hudi.py:94` travels to the
first of the commits it lists. The timeline keeps 20 to 30 of them, the cleaner the
files of 10, so on a table that has run for a while that instant is outside the
window and the query is refused or fails; `FailsOutsideWindow` says that it fails for
no other reason.
