------------------------------- MODULE HudiTable -------------------------------
(***************************************************************************)
(* One Hudi table with the table services that the options of the jobs in  *)
(* jobs/ turn on: upserts into copy-on-write and merge-on-read tables,     *)
(* roll-back of failed writes, compaction, cleaning, archival, and the     *)
(* queries of verify_hudi.py while all of that goes on.                    *)
(*                                                                         *)
(* Hudi is a library: what its services do is modelled from the options    *)
(* the jobs give it and from what the experiments in jobs/ and their notes *)
(* say they saw.  The table stays below hoodie.parquet.small.file.limit,   *)
(* so new keys go to a file group there is, if it can take them.           *)
(***************************************************************************)
EXTENDS Integers, FiniteSets

CONSTANTS
    Keys, Partitions,
    PartitionOf,        \* country: fixed for each key
    Batches,            \* writes: "u" or "d" for some of the keys
    Retained,           \* hoodie.cleaner.commits.retained of the streaming job
    DeltaCommits,       \* hoodie.compact.inline.max.delta.commits of the streaming job
    KeepMin, KeepMax,   \* hoodie.keep.min.commits and max.commits
    Queries,            \* what readers ask for
    None,               \* no row, no operation
    MaxInstants,        \* bound: instants on the timeline
    MaxCrashes          \* bound: times the driver dies

VARIABLES
    config,     \* the options of this table
    last,       \* the newest instant that was requested
    done,       \* the completed instants
    archived,   \* instants up to this one have left the active timeline
    files,      \* the base and log files on storage
    upsert,     \* the write that is inflight, None between writes
    routes,     \* routes[i]: what the write at instant i put where, as the record index has it
    compaction, \* the compaction that is scheduled or inflight
    cleaning,   \* the clean that is inflight
    cleaned,    \* the earliest instant that completed cleans retained
    query,      \* one query of a reader, None before it
    crashes,    \* only for the bound MaxCrashes
    batches     \* history: batches[i] is what the write at instant i does

tableVars == <<last, done, archived, files, upsert, routes, compaction, cleaning, cleaned, crashes, batches>>
vars == <<config, tableVars, query>>

Instants == 1 .. MaxInstants

\* A file group is named by its partition and the write that made it.
Groups == [part : Partitions, from : Instants]

\* Files: the slice of a log is that of the base file it belongs to.  A row is the
\* instant it was written at; None is a deleted record in a log, and no row in a base.
Rows == UNION {[ks -> Instants \cup {None}] : ks \in SUBSET Keys}
Files == [group : Groups, kind : {"base", "log"}, slice : Instants, at : Instants, rows : Rows]
Routes == UNION {[ks -> [op : {"u", "d"}, group : Groups]] : ks \in SUBSET Keys}

\* What is under way: file groups are to do until their file is written, a base file
\* for those in bases.
Upserts == [at : Instants, todo : SUBSET Groups, bases : SUBSET Groups, alive : BOOLEAN]
Compactions == [at : Instants, todo : SUBSET Groups,
                state : {"scheduled", "running", "crashed"}, source : SUBSET Files]
Cleanings == [earliest : 0 .. MaxInstants, plan : SUBSET Files, running : BOOLEAN]

\* stream_to_hudi.py leaves more commits on the timeline (20 to 30) than the cleaner
\* retains (10).
ASSUME HudiAssumption ==
    /\ PartitionOf \in [Keys -> Partitions]
    /\ \A b \in Batches : DOMAIN b \subseteq Keys /\ \A k \in DOMAIN b : b[k] \in {"u", "d"}
    /\ Retained \in Nat \ {0} /\ DeltaCommits \in Nat \ {0}
    /\ KeepMin \in Nat /\ KeepMax \in Nat /\ KeepMin <= KeepMax
    /\ Retained < KeepMin /\ 1 < KeepMin
    /\ Queries \subseteq {"snapshot", "read_optimized", "time_travel"}
    /\ MaxInstants \in Nat /\ MaxCrashes \in Nat

\* None is told from an instant, a write, a file group and an operation.
ASSUME NoneAssumption ==
    /\ None \notin Instants /\ None \notin Batches /\ None \notin Routes /\ None \notin Groups
    /\ None \notin Upserts /\ None \notin Compactions /\ None \notin Cleanings

-----------------------------------------------------------------------------
(* The options of the jobs, as far as the services depend on them.          *)

\* stream_to_hudi.py: cleaning beside the writes; for merge-on-read, compactions that
\* a commit schedules and that run beside the writes.
StreamOptions(type) ==
    [type |-> type, clean |-> "async", retained |-> Retained, deltas |-> DeltaCommits,
     compact |-> IF type = "MERGE_ON_READ" THEN "async" ELSE "none"]

\* _clean_test.py: a clean after every commit.
CleanTestOptions ==
    [type |-> "COPY_ON_WRITE", clean |-> "sync", retained |-> 1, deltas |-> 1, compact |-> "none"]

\* _tt_clean_test.py: the same.
TimeTravelTestOptions == CleanTestOptions

\* _test_compaction.py: every delta commit is compacted before the next write.  The
\* cleaner is left at its default, which retains 10 commits: more than the script makes.
CompactionTestOptions ==
    [type |-> "MERGE_ON_READ", clean |-> "off", retained |-> 1, deltas |-> 1, compact |-> "inline"]

\* _standalone_compaction.py: a compaction is what a call asks for.
StandaloneCompactionOptions == [CompactionTestOptions EXCEPT !.compact = "call"]

\* _raw_read_test.py: no service at all.
RawReadTestOptions(type) ==
    [type |-> type, clean |-> "off", retained |-> 1, deltas |-> 1, compact |-> "none"]

Configs == {StreamOptions("COPY_ON_WRITE"), StreamOptions("MERGE_ON_READ"),
            CleanTestOptions, TimeTravelTestOptions,
            CompactionTestOptions, StandaloneCompactionOptions,
            RawReadTestOptions("COPY_ON_WRITE"), RawReadTestOptions("MERGE_ON_READ")}

-----------------------------------------------------------------------------

KeysOf(p) == {k \in Keys : PartitionOf[k] = p}
Newest(s) == CHOOSE i \in s : \A j \in s : j <= i
Oldest(s) == CHOOSE i \in s : \A j \in s : i <= j

-----------------------------------------------------------------------------
(* Reading files.                                                           *)

\* Instants whose files a reader believes: completed ones, and everything from
\* before the active timeline.
Visible == {i \in 1 .. last : i \in done \/ i <= archived}

\* The listing in Hudi's metadata table: a clean takes files out of it when it completes.
Listing == files \cup (IF cleaning = None THEN {} ELSE cleaning.plan)

BasesOf(g, in, seen) == {f \in in : f.group = g /\ f.kind = "base" /\ f.at \in seen}

\* The newest base file of each file group and the logs written since, also those that
\* wait for a compaction which has not finished.
Slices(in, seen) ==
    {f \in in : /\ f.at \in seen
                /\ \A x \in in : x.group = f.group /\ x.kind = "base" /\ x.at \in seen => x.at <= f.slice}
SliceFiles(g, in, seen) == {f \in Slices(in, seen) : f.group = g}

\* The rows a file slice has when it is merged: the last write of a key counts.
Merged(g, slice) ==
    [k \in KeysOf(g.part) |->
        LET with == {f \in slice : k \in DOMAIN f.rows}
        IN  IF with = {} THEN None
            ELSE (CHOOSE f \in with : \A x \in with : x.at <= f.at).rows[k]]

LiveRows(table) == {[key |-> k, from |-> table[k]] : k \in {x \in DOMAIN table : table[x] # None}}

\* The rows of some file slices: each file group is merged by itself, and a key that is
\* in two of them is there twice.
RowsIn(slices) ==
    UNION {LiveRows(Merged(g, {f \in slices : f.group = g})) : g \in {f.group : f \in slices}}

-----------------------------------------------------------------------------
(* Table services.                                                          *)

\* KEEP_LATEST_COMMITS: the oldest of the last config.retained commits, 0 when
\* there are not more than that.
EarliestRetained(commits) ==
    IF Cardinality(commits) <= config.retained THEN 0
    ELSE CHOOSE i \in commits : Cardinality({j \in commits : j >= i}) = config.retained

SliceStarts(g) == {f.slice : f \in {x \in files : x.group = g}}

\* A faulty variant, not part of Spec: the version before the window goes as well.
CleanableBeforeWindow(g, commits) ==
    {s \in SliceStarts(g) :
        /\ s < EarliestRetained(commits)
        /\ \E x \in SliceStarts(g) : s < x}

\* File slices the cleaner may remove: older than the retained commits, except the
\* newest of these and the one a scheduled compaction reads.
Cleanable(g, commits) ==
    {s \in SliceStarts(g) :
        /\ \E x \in SliceStarts(g) : s < x /\ x < EarliestRetained(commits)
        /\ compaction = None \/ \A f \in compaction.source : f.group = g => f.slice # s}

CleanPlan(commits) ==
    {f \in files : f.slice \in Cleanable(f.group, commits)}

\* What cleaning is after a clean was asked for: an interrupted one goes on first.
CleaningAfter(commits) ==
    IF cleaning # None THEN [cleaning EXCEPT !.running = TRUE]
    ELSE IF CleanPlan(commits) = {} THEN None
    ELSE [earliest |-> EarliestRetained(commits), plan |-> CleanPlan(commits), running |-> TRUE]

\* Where archival brings the active timeline: to the last KeepMin commits once there
\* are more than KeepMax, but not past anything pending.
ArchivedAfter(commits) ==
    LET active == {i \in commits : i > archived}
        pending == IF compaction = None THEN {} ELSE {compaction.at}
    IN  IF Cardinality(active) <= KeepMax THEN archived
        ELSE Newest({archived} \cup {i \in active : /\ Cardinality({j \in active : j > i}) >= KeepMin
                                                    /\ \A j \in pending : i < j})

\* The newest slice of a file group, which a compaction merges.
Source(g, commits) == SliceFiles(g, files, commits)

\* A compaction plan at the next instant.
CompactionPlan(commits) ==
    LET logged == {g \in {f.group : f \in files} : \E f \in Source(g, commits) : f.kind = "log"}
    IN  [at |-> last + 1, todo |-> logged, state |-> "scheduled",
         source |-> UNION {Source(g, commits) : g \in logged}]

\* hoodie.compact.inline.max.delta.commits commits since the last compaction.
CompactionDue(commits) ==
    LET compacted == {i \in commits : batches[i] = None}
        deltas == {i \in commits : batches[i] # None /\ \A c \in compacted : c < i}
    IN  /\ config.type = "MERGE_ON_READ" /\ config.compact \in {"inline", "async"}
        /\ compaction = None
        /\ Cardinality(deltas) >= config.deltas
        /\ CompactionPlan(commits).todo # {}
        /\ last < MaxInstants

-----------------------------------------------------------------------------
(* Writing.                                                                 *)

CleanRuns == cleaning # None /\ cleaning.running
CompactionRuns == compaction # None /\ compaction.state = "running"

\* A write waits for the services the options make part of the write before it.
ServicesDone ==
    /\ ~(config.clean = "sync" /\ CleanRuns)
    /\ ~(config.compact = "inline" /\ compaction # None /\ compaction.state # "crashed")
    /\ ~(config.compact = "call" /\ CompactionRuns)

\* The file group that has a row of k, None if there is no such row.
Location(k) ==
    LET is == {i \in done : routes[i] # None /\ k \in DOMAIN routes[i]}
    IN  IF is = {} \/ routes[Newest(is)][k].op = "d" THEN None ELSE routes[Newest(is)][k].group

InCompaction(g) == compaction # None /\ \E f \in compaction.source : f.group = g

\* Neither record index nor bloom filters know what is in logs: new keys go to base
\* files.  A file group that has logs, or is to be compacted, cannot get a new one.
Paddable(g) ==
    /\ \A f \in SliceFiles(g, files, Visible) : f.kind = "base"
    /\ ~InCompaction(g)

\* Where new keys of p may go: to a small file group, or to one this write makes.
InsertGroups(p) ==
    LET small == {g \in {f.group : f \in files} :
                    g.part = p /\ BasesOf(g, files, Visible) # {} /\ Paddable(g)}
    IN  IF small = {} THEN {[part |-> p, from |-> last + 1]} ELSE small

Targets == {t \in [Partitions -> UNION {InsertGroups(p) : p \in Partitions}] :
                \A p \in Partitions : t[p] \in InsertGroups(p)}

\* A record goes where its key is; a delete of a key that is not there is dropped.
Routed(b, target) ==
    [k \in {x \in DOMAIN b : b[x] = "u" \/ Location(x) # None} |->
        [op |-> b[k], group |-> IF Location(k) # None THEN Location(k) ELSE target[PartitionOf[k]]]]

RoutedTo(route) == {route[k].group : k \in DOMAIN route}

\* A faulty variant, not part of Spec: new keys go to the logs of a file group.
NewGroupsOnly(route) ==
    IF config.type = "COPY_ON_WRITE" THEN RoutedTo(route)
    ELSE {g \in RoutedTo(route) : BasesOf(g, files, Visible) = {}}

\* Which file groups get a new base file: for merge-on-read, those that can when new
\* keys come to their partition.  The others get a log.
Rebased(route) ==
    IF config.type = "COPY_ON_WRITE" THEN RoutedTo(route)
    ELSE {g \in RoutedTo(route) :
            /\ Paddable(g)
            /\ \E k \in DOMAIN route : Location(k) = None /\ route[k].group.part = g.part}

\* An asynchronous clean starts with the write and goes on beside it.
StartUpsert(b, target) ==
    LET route == Routed(b, target) IN
    /\ upsert = None /\ ServicesDone
    /\ last < MaxInstants
    /\ last' = last + 1
    /\ upsert' = [at |-> last + 1, todo |-> RoutedTo(route), bases |-> Rebased(route), alive |-> TRUE]
    /\ routes' = [routes EXCEPT ![last + 1] = route]
    /\ batches' = [batches EXCEPT ![last + 1] = b]
    /\ cleaning' = IF config.clean = "async" THEN CleaningAfter(done) ELSE cleaning
    /\ UNCHANGED <<config, done, archived, files, compaction, cleaned, query, crashes>>

Changed(g) ==
    LET route == routes[upsert.at]
    IN  [k \in {x \in DOMAIN route : route[x].group = g} |->
            IF route[k].op = "d" THEN None ELSE upsert.at]

\* A faulty variant, not part of Spec: logs stay with the newest base file, although
\* a compaction of it has been planned.
LogSliceOfBase(g) == Newest({f.at : f \in BasesOf(g, files, Visible)})

\* The slice new logs belong to: that of a planned compaction, if there is one.
LogSlice(g) ==
    LET bases == {f.at : f \in BasesOf(g, files, Visible)}
    IN  Newest(bases \cup (IF InCompaction(g) THEN {compaction.at} ELSE {}))

\* A base file has all the rows of its file group, a log those of the write.
NewFile(g) ==
    LET old == Merged(g, SliceFiles(g, files, Visible))
        new == Changed(g)
    IN  IF g \in upsert.bases
        THEN [group |-> g, kind |-> "base", slice |-> upsert.at, at |-> upsert.at,
              rows |-> [k \in KeysOf(g.part) |-> IF k \in DOMAIN new THEN new[k] ELSE old[k]]]
        ELSE [group |-> g, kind |-> "log", slice |-> LogSlice(g), at |-> upsert.at, rows |-> new]

WriteFile(g) ==
    /\ upsert # None /\ upsert.alive
    /\ g \in upsert.todo
    /\ files' = files \cup {NewFile(g)}
    /\ upsert' = [upsert EXCEPT !.todo = @ \ {g}]
    /\ UNCHANGED <<config, last, done, archived, routes, compaction, cleaning, cleaned, query, crashes, batches>>

\* The commit, with what the options put behind it: a clean, archival, and the
\* scheduling of a compaction.
CompleteUpsert ==
    LET commits == done \cup {upsert.at} IN
    /\ upsert # None /\ upsert.alive /\ upsert.todo = {}
    /\ done' = commits
    /\ cleaning' = IF config.clean = "sync" THEN CleaningAfter(commits) ELSE cleaning
    /\ archived' = ArchivedAfter(commits)
    /\ compaction' = IF CompactionDue(commits) THEN CompactionPlan(commits) ELSE compaction
    /\ last' = IF CompactionDue(commits) THEN last + 1 ELSE last
    /\ upsert' = None
    /\ UNCHANGED <<config, files, cleaned, query, crashes, batches, routes>>

\* A faulty variant, not part of Spec: the instant goes, its files stay.
ForgetFailed ==
    /\ upsert # None /\ ~upsert.alive
    /\ upsert' = None
    /\ UNCHANGED <<config, last, done, archived, files, compaction, cleaning, cleaned, query, crashes, batches, routes>>

\* hoodie.cleaner.policy.failed.writes=EAGER: the next write removes what a write
\* that died has left.
RollBack ==
    /\ upsert # None /\ ~upsert.alive
    /\ files' = {f \in files : f.at # upsert.at}
    /\ upsert' = None
    /\ UNCHANGED <<config, last, done, archived, compaction, cleaning, cleaned, query, crashes, batches, routes>>

-----------------------------------------------------------------------------
(* Compaction.                                                              *)

\* CALL run_compaction(op => 'schedule').
ScheduleByCall ==
    /\ config.type = "MERGE_ON_READ" /\ config.compact = "call"
    /\ upsert = None /\ compaction = None
    /\ last < MaxInstants
    /\ CompactionPlan(done).todo # {}
    /\ compaction' = CompactionPlan(done)
    /\ last' = last + 1
    /\ UNCHANGED <<config, done, archived, files, upsert, cleaning, cleaned, query, crashes, batches, routes>>

\* Files of an attempt that died are removed first.
StartCompaction ==
    /\ compaction # None /\ compaction.state # "running"
    /\ config.compact = "async" \/ upsert = None
    /\ files' = {f \in files : f.kind = "base" => f.at # compaction.at}
    /\ compaction' = [compaction EXCEPT !.state = "running",
                                        !.todo = {f.group : f \in compaction.source}]
    /\ UNCHANGED <<config, last, done, archived, upsert, cleaning, cleaned, query, crashes, batches, routes>>

Compact(g) ==
    /\ CompactionRuns
    /\ g \in compaction.todo
    /\ files' = files \cup {[group |-> g, kind |-> "base", slice |-> compaction.at, at |-> compaction.at,
                             rows |-> Merged(g, {f \in compaction.source : f.group = g})]}
    /\ compaction' = [compaction EXCEPT !.todo = @ \ {g}]
    /\ UNCHANGED <<config, last, done, archived, upsert, cleaning, cleaned, query, crashes, batches, routes>>

\* A faulty variant, not part of Spec: the completed compaction stays pending.
CompletionKeepsPlan ==
    /\ CompactionRuns /\ compaction.todo = {}
    /\ done' = done \cup {compaction.at}
    /\ UNCHANGED <<config, last, archived, files, upsert, compaction, cleaning, cleaned, query, crashes, batches, routes>>

CompleteCompaction ==
    /\ CompactionRuns /\ compaction.todo = {}
    /\ done' = done \cup {compaction.at}
    /\ compaction' = None
    /\ UNCHANGED <<config, last, archived, files, upsert, cleaning, cleaned, query, crashes, batches, routes>>

-----------------------------------------------------------------------------
(* Cleaning.                                                                *)

CleanFile(f) ==
    /\ CleanRuns
    /\ f \in cleaning.plan \cap files
    /\ files' = files \ {f}
    /\ UNCHANGED <<config, last, done, archived, upsert, compaction, cleaning, cleaned, query, crashes, batches, routes>>

CompleteClean ==
    /\ CleanRuns
    /\ cleaning.plan \cap files = {}
    /\ cleaned' = cleaning.earliest
    /\ cleaning' = None
    /\ UNCHANGED <<config, last, done, archived, files, upsert, compaction, query, crashes, batches, routes>>

\* The driver dies: the write, the compaction and the clean it was in stop.
Crash ==
    /\ crashes < MaxCrashes
    /\ upsert # None \/ compaction # None \/ cleaning # None
    /\ upsert # None => upsert.alive
    /\ crashes' = crashes + 1
    /\ upsert' = IF upsert = None THEN None ELSE [upsert EXCEPT !.alive = FALSE]
    /\ compaction' = IF compaction = None THEN None ELSE [compaction EXCEPT !.state = "crashed"]
    /\ cleaning' = IF cleaning = None THEN None ELSE [cleaning EXCEPT !.running = FALSE]
    /\ UNCHANGED <<config, last, done, archived, files, cleaned, query, batches, routes>>

-----------------------------------------------------------------------------
(* A query: it takes the timeline and the listing as they are when it starts *)
(* and then opens files, partition by partition.                            *)

\* The readers take the names of the completed commits from the active timeline, and
\* ask for the first or the last of them later.
ListCommits ==
    LET commits == {i \in done : i > archived} IN
    /\ query = None /\ "time_travel" \in Queries
    /\ commits # {}
    /\ query' = [state |-> "listed", commits |-> {Oldest(commits), Newest(commits)}]
    /\ UNCHANGED <<config, tableVars>>

\* A query of what the instants in seen have written; baseOnly: it reads no logs.
QueryOf(seen, baseOnly) ==
    [seen |-> seen, baseOnly |-> baseOnly, state |-> "open",
     need |-> {f \in Listing : /\ f \in Slices(Listing, seen)
                               /\ baseOnly => f.kind = "base"},
     got |-> [p \in {} |-> None]]

\* An exception: whatever the query has read is lost.
FailedQuery(seen, state) == [seen |-> seen, state |-> state, got |-> [p \in {} |-> None]]

\* The snapshot and the read-optimized query.
StartQuery(baseOnly) ==
    /\ query = None /\ (IF baseOnly THEN "read_optimized" ELSE "snapshot") \in Queries
    /\ done # {}
    /\ query' = QueryOf(Visible, baseOnly)
    /\ UNCHANGED <<config, tableVars>>

\* as.of.instant; one before the earliest retained instant is refused
\* ("Cleaner cleaned up the timestamp of interest").
TimeTravel(t) ==
    LET seen == {i \in Visible : i <= t} IN
    /\ query # None /\ query.state = "listed"
    /\ t \in query.commits
    /\ query' = IF t >= cleaned THEN QueryOf(seen, FALSE) ELSE FailedQuery(seen, "refused")
    /\ UNCHANGED <<config, tableVars>>

NeedOf(p) == {f \in query.need : f.group.part = p}

\* A file that is gone by now makes the query fail.
ReadPartition(p) ==
    /\ query # None /\ query.state = "open"
    /\ p \notin DOMAIN query.got
    /\ query' = IF NeedOf(p) \subseteq files
                THEN [query EXCEPT !.got = [q \in DOMAIN @ \cup {p} |->
                                              IF q = p THEN RowsIn(NeedOf(p)) ELSE @[q]]]
                ELSE FailedQuery(query.seen, "failed")
    /\ UNCHANGED <<config, tableVars>>

-----------------------------------------------------------------------------
Init ==
    /\ config \in Configs
    /\ last = 0 /\ done = {} /\ archived = 0
    /\ files = {}
    /\ upsert = None /\ compaction = None /\ cleaning = None
    /\ cleaned = 0
    /\ query = None
    /\ crashes = 0
    /\ batches = [i \in Instants |-> None]
    /\ routes = [i \in Instants |-> None]

Service ==
    \/ ScheduleByCall \/ StartCompaction \/ CompleteCompaction
    \/ \E g \in Groups : Compact(g)
    \/ \E f \in files : CleanFile(f)
    \/ CompleteClean

Next ==
    \/ \E b \in Batches, target \in Targets : StartUpsert(b, target)
    \/ \E g \in Groups : WriteFile(g)
    \/ \E p \in Partitions : ReadPartition(p)
    \/ CompleteUpsert \/ RollBack
    \/ Service
    \/ Crash
    \/ ListCommits
    \/ \E baseOnly \in BOOLEAN : StartQuery(baseOnly)
    \/ \E t \in Instants : TimeTravel(t)

Spec == Init /\ [][Next]_vars

-----------------------------------------------------------------------------
(* Properties.                                                              *)

FileOK(f) ==
    /\ f \in Files
    /\ f.at \in 1 .. last /\ f.slice \in 1 .. last
    /\ DOMAIN f.rows \subseteq KeysOf(f.group.part)
    /\ \A k \in DOMAIN f.rows : f.rows[k] \in 1 .. f.at \cup {None}

\* Every variable has the type its comment says.
TypeOK ==
    /\ config \in Configs
    /\ last \in 0 .. MaxInstants /\ done \subseteq 1 .. last
    /\ {archived, cleaned} \subseteq 0 .. last
    /\ \A f \in files : FileOK(f)
    /\ upsert # None => upsert \in Upserts /\ upsert.at \in 1 .. last \ done
    /\ compaction # None => /\ compaction \in Compactions
                            /\ compaction.at \in 1 .. last \ done
                            /\ \A f \in compaction.source : FileOK(f) /\ f.at < compaction.at
    /\ cleaning # None => cleaning \in Cleanings /\ \A f \in cleaning.plan : FileOK(f)
    /\ crashes \in 0 .. MaxCrashes
    /\ batches \in [Instants -> Batches \cup {None}]
    /\ routes \in [Instants -> Routes \cup {None}]

\* The rows of p that the completed writes among seen leave, whatever files they are in.
Truth(p, seen) ==
    LiveRows([k \in KeysOf(p) |->
        LET is == {i \in done \cap seen : batches[i] # None /\ k \in DOMAIN batches[i]}
        IN  IF is = {} \/ batches[Newest(is)][k] = "d" THEN None ELSE Newest(is)])

Answers == query # None /\ query.state = "open"

\* "Hudi will not expose those 500,000 records", "will still see the snapshot from the
\* most recent completed commit": a query gets exactly the writes that were complete
\* when it started, up to the instant it asked for, in every partition, whatever is
\* written, compacted, rolled back, cleaned or archived until it has read them.  A key
\* has one row, whichever file groups it has been in.
QueriesReadCommits ==
    Answers /\ ~query.baseOnly =>
        \A p \in DOMAIN query.got : query.got[p] = Truth(p, query.seen)

\* "Only base parquet, no log files" (verify_hudi.py 62-67): a read-optimized query of
\* merge-on-read may show rows of different age, and a key twice that was deleted and
\* written again.  But every row it shows was in the table at some instant, with all the
\* earlier writes and none of the later ones, and no earlier than the last completed
\* compaction; and it has a row for every key the table has.
ReadOptimizedLags ==
    Answers /\ query.baseOnly =>
        \A p \in DOMAIN query.got :
            /\ \A r \in query.got[p] : \E t \in Instants :
                  /\ \A i \in query.seen \cap done : batches[i] = None => i <= t
                  /\ r \in Truth(p, {i \in query.seen : i <= t})
            /\ \A r \in Truth(p, query.seen) : \E x \in query.got[p] : x.key = r.key

\* "Your time-travel window equals your cleaner retention window": however slow a
\* query is and however old the list it took its instant from, it loses a file only
\* after a commit it does not include has left the retained ones, and it is refused
\* only when its own instant has.
FailsOutsideWindow ==
    query # None /\ query.state \in {"failed", "refused"} =>
        \E i \in done :
            /\ i < EarliestRetained(done)
            /\ IF query.state = "refused" THEN i = Newest(query.seen) ELSE i \notin query.seen

\* The table services are not seen, and writes are seen as a whole: what the
\* files on storage say at any moment is a table that only changes by whole batches.
CurrentRows == UNION {RowsIn(slices) : slices \in {Slices(files, seen) : seen \in {Visible}}}
Atomic == INSTANCE AtomicUpserts WITH rows <- CurrentRows, Numbers <- Instants
RefinesAtomicUpserts == Atomic!Spec

===============================================================================
