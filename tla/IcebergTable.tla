----------------------------- MODULE IcebergTable -----------------------------
(***************************************************************************)
(* Writes to a mini-iceberg table and the snapshots they leave:            *)
(* mini-iceberg/miniiceberg/table.py and manifest.py on top of the catalog *)
(* of Catalog.tla.                                                         *)
(*                                                                         *)
(* append and overwrite write one data file for each partition value, take *)
(* the time in milliseconds as the snapshot id, read which files are live, *)
(* write a manifest, write a manifest list named after the snapshot id,    *)
(* and commit.  Each of these is a step, so other clients act in between.  *)
(***************************************************************************)
EXTENDS Integers, Sequences, FiniteSetsExt

CONSTANTS
    Clients, TableIds, MaxVersion, PurgeArgs, ObjectStore, SingleWriter,
    StorageErrors, None, Truncated, Garbled,    \* as in Catalog
    Partitions,     \* partition values of the rows clients write
    MaxClock,       \* bound: milliseconds in which a write is stamped
    MaxFiles,       \* bound: data files written
    MaxFailures,    \* bound: calls that a crash or an error cuts short
    UniqueMillis    \* TRUE: no two writes are stamped in one millisecond

VARIABLES
    hint, vfile, handle, pc, work, doomed, born, left,    \* as in Catalog
    clock,      \* int(time.time() * 1000)
    files,      \* the data files and manifests on storage
    mlist,      \* mlist[id]: what snap-<id>.manifest-list.json says
    job,        \* job[c]: the append or overwrite c is in, None between them
    failures    \* calls cut short so far, only counted for the bound

catalogVars == <<hint, vfile, handle, pc, work, doomed, born, left>>
tableVars   == <<clock, files, mlist, job, failures>>
vars        == <<catalogVars, tableVars>>

Millis    == 1..MaxClock
DataFiles == [name : 1..MaxFiles, part : Partitions]
Statuses  == {"added", "existing", "deleted"}
Entries   == [status : Statuses, file : DataFiles]
Manifests == [entries : SUBSET Entries]
Ops       == {"append", "overwrite"}

Jobs == [op : Ops, todo : SUBSET Partitions, new : SUBSET DataFiles,
         id : {0} \cup Millis, manifest : Manifests \cup {None},
         phase : {"parquet", "live", "manifest", "list", "fill", "commit"}]

\* What a commit adds to the metadata.  "shows" is not in the code: it records
\* the files the writer meant the snapshot to have, to compare with a scan.
Snapshots == [kind : {"snapshot"}, id : Millis, parent : {0} \cup Millis,
              op : Ops, shows : SUBSET DataFiles]
Schemas   == [kind : {"schema"}]
TableChanges == Snapshots \cup Schemas

Cat == INSTANCE Catalog WITH Changes <- TableChanges

ASSUME TableAssumption ==
    /\ MaxVersion \in Nat \ {0}
    /\ MaxClock \in Nat \ {0} /\ MaxFiles \in Nat /\ MaxFailures \in Nat
    /\ {ObjectStore, SingleWriter, StorageErrors, UniqueMillis} \subseteq BOOLEAN
    /\ PurgeArgs \subseteq {FALSE}    \* a purge of data files is not modelled here

ASSUME SentinelsAssumption ==
    /\ None # Truncated /\ None # Garbled /\ Truncated # Garbled
    /\ {None, Truncated} \cap Manifests = {}
    /\ {None, Truncated, Garbled} \cap Cat!Metadata = {}
    /\ None \notin [version : Cat!Versions, meta : Cat!Metadata \cup {None}]
    /\ None \notin Jobs

-----------------------------------------------------------------------------
(* Reading.                                                                 *)

\* Where in the history of the metadata its snapshots are.
SnapshotAt(meta) == {i \in DOMAIN meta.log : meta.log[i].kind = "snapshot"}

\* The last snapshot at one of the places at; 0 is Python's None.
LastId(meta, at) == IF at = {} THEN 0 ELSE meta.log[Max(at)].id

\* current_snapshot_id.
CurrentId(meta) == LastId(meta, SnapshotAt(meta))

ListReadable(id) == mlist[id] \notin {None, Truncated}

Live(manifest) == {e.file : e \in {m \in manifest.entries : m.status # "deleted"}}

\* A faulty scan, not part of Spec: it forgets the status of the entries.
ScanEveryFile(id) == {e.file : e \in mlist[id].entries}

\* Scan.files: the manifest list of a snapshot is found by its id.
ScanFiles(id) == Live(mlist[id])

-----------------------------------------------------------------------------
(* Faulty variants of the definitions below, none of them part of Spec: each *)
(* is a mistake the code avoids, and shows that a property would notice it.  *)

\* Appends that drop what was there.
ManifestOfNewFiles(op, new, live) ==
    [entries |-> [status : {"added"}, file : new]]

\* A snapshot that does not know what came before it.
NewRootSnapshot(c) ==
    [kind |-> "snapshot", id |-> job[c].id, parent |-> 0,
     op |-> job[c].op, shows |-> Live(job[c].manifest)]

\* A data file recorded, its upload forgotten.
ForgetParquet(c, p) ==
    LET f == [name |-> Cardinality(files) + 1, part |-> p] IN
    /\ job[c] # None /\ job[c].phase = "parquet"
    /\ p \in job[c].todo
    /\ f \in DataFiles
    /\ job' = [job EXCEPT ![c].todo = @ \ {p}, ![c].new = @ \cup {f}]
    /\ UNCHANGED <<catalogVars, clock, files, mlist, failures>>

\* A manifest listed, its upload forgotten.
ForgetManifest(c) ==
    /\ job[c] # None /\ job[c].phase = "manifest"
    /\ job' = [job EXCEPT ![c].phase = "list"]
    /\ UNCHANGED <<catalogVars, clock, files, mlist, failures>>

\* A write that is never given an id.
ForgetStamp(c) ==
    /\ job[c] # None /\ job[c].phase = "parquet"
    /\ job[c].todo = {}
    /\ job' = [job EXCEPT ![c].phase = "live"]
    /\ UNCHANGED <<catalogVars, clock, files, mlist, failures>>

Init ==
    /\ Cat!Init
    /\ clock = 1
    /\ files = {}
    /\ mlist = [id \in Millis |-> None]
    /\ job = [c \in Clients |-> None]
    /\ failures = 0

-----------------------------------------------------------------------------
(* Writing.                                                                 *)

NoJob(c) == job[c] = None /\ pc[c] = "idle"

\* c may begin a call; a writer also waits for its turn when callers take turns.
MayWrite(c) ==
    /\ NoJob(c)
    /\ SingleWriter => \A d \in Clients : job[d] = None /\ pc[d] \notin Cat!Mutating

\* Appending no rows returns at once.  An overwrite may be given none.
StartWrite(c, op, parts) ==
    /\ MayWrite(c)
    /\ handle[c] # None
    /\ op = "append" => parts # {}
    /\ job' = [job EXCEPT ![c] = [op |-> op, todo |-> parts, new |-> {}, id |-> 0,
                                  manifest |-> None, phase |-> "parquet"]]
    /\ UNCHANGED <<catalogVars, clock, files, mlist, failures>>

NewFile(p) ==
    [name |-> Cardinality({f \in files : f \in DataFiles}) + 1, part |-> p]

WriteParquet(c, p) ==
    /\ job[c] # None /\ job[c].phase = "parquet"
    /\ p \in job[c].todo
    /\ NewFile(p) \in DataFiles
    /\ files' = files \cup {NewFile(p)}
    /\ job' = [job EXCEPT ![c].todo = @ \ {p}, ![c].new = @ \cup {NewFile(p)}]
    /\ UNCHANGED <<catalogVars, clock, mlist, failures>>

Stamp(c) ==
    /\ job[c] # None /\ job[c].phase = "parquet"
    /\ job[c].todo = {}
    /\ clock \in Millis
    /\ job' = [job EXCEPT ![c].id = clock, ![c].phase = "live"]
    /\ clock' \in (IF UniqueMillis THEN {} ELSE {clock}) \cup {clock + 1}
    /\ UNCHANGED <<catalogVars, files, mlist, failures>>

\* The manifest of a write: its new files, and the files live before it, which
\* an append keeps and an overwrite deletes.
ManifestOf(op, new, live) ==
    [entries |-> [status : {"added"}, file : new] \cup
                 [status : {IF op = "append" THEN "existing" ELSE "deleted"},
                  file : live]]

\* _live_files; without a readable manifest list the call raises.
ReadLive(c) ==
    LET current == CurrentId(handle[c].meta)
        live == IF current = 0 THEN {} ELSE ScanFiles(current)
    IN
    /\ job[c] # None /\ job[c].phase = "live"
    /\ job' = IF current # 0 /\ ~ListReadable(current)
              THEN [job EXCEPT ![c] = None]
              ELSE [job EXCEPT
                        ![c].manifest = ManifestOf(job[c].op, job[c].new, live),
                        ![c].phase = "manifest"]
    /\ UNCHANGED <<catalogVars, clock, files, mlist, failures>>

\* A manifest gets a uuid for a name, so it never meets another one.
WriteManifest(c) ==
    /\ job[c] # None /\ job[c].phase = "manifest"
    /\ files' = files \cup {job[c].manifest}
    /\ job' = [job EXCEPT ![c].phase = "list"]
    /\ UNCHANGED <<catalogVars, clock, mlist, failures>>

\* The name of a manifest list has only the id in it: a list of the same
\* millisecond is replaced, on a local disk truncated first.
WriteList(c) ==
    /\ job[c] # None /\ job[c].phase = "list"
    /\ mlist' = [mlist EXCEPT ![job[c].id] =
                    IF ObjectStore THEN job[c].manifest ELSE Truncated]
    /\ job' = [job EXCEPT ![c].phase = IF ObjectStore THEN "commit" ELSE "fill"]
    /\ UNCHANGED <<catalogVars, clock, files, failures>>

\* Two writers in one local file may leave a mixture nobody can read.
FillList(c) ==
    LET shared == \/ mlist[job[c].id] # Truncated
                  \/ \E d \in Clients \ {c} :
                        job[d] # None /\ job[d].phase = "fill" /\ job[d].id = job[c].id
    IN
    /\ job[c] # None /\ job[c].phase = "fill"
    /\ \/ mlist' = [mlist EXCEPT ![job[c].id] = job[c].manifest]
       \/ shared /\ mlist' = [mlist EXCEPT ![job[c].id] = Truncated]
    /\ job' = [job EXCEPT ![c].phase = "commit"]
    /\ UNCHANGED <<catalogVars, clock, files, failures>>

\* The Snapshot that _write commits.
NewSnapshot(c) ==
    [kind |-> "snapshot", id |-> job[c].id, parent |-> CurrentId(handle[c].meta),
     op |-> job[c].op, shows |-> Live(job[c].manifest)]

\* From here on it is the catalog's commit; Cat!Put and Cat!Point follow.
CommitWrite(c) ==
    /\ job[c] # None /\ job[c].phase = "commit"
    /\ Cat!CommitCheck(c, NewSnapshot(c))
    /\ job' = [job EXCEPT ![c] = None]
    /\ UNCHANGED <<clock, files, mlist, failures>>

\* "concurrent commit detected"; the files written so far stay behind.
CommitRejected(c) ==
    /\ job[c] # None /\ job[c].phase = "commit"
    /\ hint # handle[c].version
    /\ job' = [job EXCEPT ![c] = None]
    /\ UNCHANGED <<catalogVars, clock, files, mlist, failures>>

AddColumn(c) ==
    /\ MayWrite(c)
    /\ Cat!CommitCheck(c, [kind |-> "schema"])
    /\ UNCHANGED tableVars

\* The process dies during a write, or a storage error raises out of it and
\* the caller keeps its Table object.
AbortWrite(c) ==
    /\ job[c] # None
    /\ failures < MaxFailures /\ failures' = failures + 1
    /\ job' = [job EXCEPT ![c] = None]
    /\ \/ handle' = [handle EXCEPT ![c] = None]
       \/ StorageErrors /\ UNCHANGED handle
    /\ UNCHANGED <<hint, vfile, pc, work, doomed, born, left, clock, files, mlist>>

CatalogStep(c) ==
    /\ \/ MayWrite(c) /\ Cat!Create(c)
       \/ NoJob(c) /\ Cat!LoadHint(c)
       \/ Cat!LoadMeta(c)
       \/ Cat!Write(c)
       \/ MayWrite(c) /\ \E purge \in PurgeArgs : Cat!DropCheck(c, purge)
       \/ Cat!UnlinkHint(c)
    /\ UNCHANGED tableVars

CatalogFails(c) ==
    /\ Cat!Fail(c)
    /\ failures < MaxFailures /\ failures' = failures + 1
    /\ UNCHANGED <<clock, files, mlist, job>>

WriteStep(c) ==
    \/ \E op \in Ops, parts \in SUBSET Partitions : StartWrite(c, op, parts)
    \/ \E p \in Partitions : WriteParquet(c, p)
    \/ Stamp(c)
    \/ ReadLive(c)
    \/ WriteManifest(c)
    \/ WriteList(c)
    \/ FillList(c)
    \/ CommitWrite(c)
    \/ CommitRejected(c)
    \/ AddColumn(c)
    \/ AbortWrite(c)

Next == \E c \in Clients : CatalogStep(c) \/ CatalogFails(c) \/ WriteStep(c)

Spec == Init /\ [][Next]_vars

-----------------------------------------------------------------------------
(* Properties.                                                              *)

\* Every variable has the type its comment says.
TypeOK ==
    /\ Cat!TypeOK
    /\ clock \in 1..MaxClock + 1
    /\ files \subseteq DataFiles \cup Manifests
    /\ mlist \in [Millis -> Manifests \cup {None, Truncated}]
    /\ job \in [Clients -> Jobs \cup {None}]
    /\ failures \in 0..MaxFailures

\* The metadata a client can scan: that of its Table object, and that of the
\* version the hint names.
Scannable ==
    {handle[c].meta : c \in {d \in Clients : handle[d] # None}}
    \cup (IF hint # 0 /\ Cat!Readable(hint) THEN {vfile[hint]} ELSE {})

CommittedSnapshots(meta) == {meta.log[i] : i \in SnapshotAt(meta)}

\* A snapshot is "an immutable view of the table at a point in time": scanning
\* it returns exactly the files its writer meant it to have, however long ago
\* it was committed and whatever other writers did since.
SnapshotsImmutable ==
    \A meta \in Scannable : \A s \in CommittedSnapshots(meta) :
        ListReadable(s.id) /\ ScanFiles(s.id) = s.shows

\* Every file that a scan of a committed snapshot opens is on storage.
NothingDangles ==
    \A meta \in Scannable : \A s \in CommittedSnapshots(meta) :
        ListReadable(s.id) => mlist[s.id] \in files /\ ScanFiles(s.id) \subseteq files

\* Snapshots are chained: each has the one before it as its parent, and is
\* younger, so following parent_id from any snapshot ends at the first write.
LineageOrdered ==
    \A meta \in Scannable : \A i \in SnapshotAt(meta) :
        /\ meta.log[i].parent < meta.log[i].id
        /\ meta.log[i].parent = LastId(meta, {j \in SnapshotAt(meta) : j < i})

\* The n-th smallest of the places at.
Nth(at, n) == CHOOSE i \in at : Cardinality({j \in at : j <= i}) = n

SnapshotsOf(meta) ==
    LET at == SnapshotAt(meta)
    IN  [n \in 1..Cardinality(at) |-> meta.log[Nth(at, n)]]

View(s) == [op |-> s.op,
            files |-> IF ListReadable(s.id) THEN ScanFiles(s.id) ELSE None]

Views ==
    IF hint = 0 \/ ~Cat!Readable(hint) THEN <<>>
    ELSE LET s == SnapshotsOf(vfile[hint]) IN [i \in 1..Len(s) |-> View(s[i])]

\* What scans return, snapshot by snapshot, is a TimeTravelTable: an append adds
\* its rows to what was there, an overwrite replaces it, and nothing a writer
\* does, finishes or abandons changes an earlier view.
TimeTravel == INSTANCE TimeTravelTable WITH views <- Views, Files <- DataFiles
RefinesTimeTravel == TimeTravel!Spec

===============================================================================
