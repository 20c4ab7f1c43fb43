----------------------------- MODULE IcebergProofs -----------------------------
(***************************************************************************)
(* Theorems about IcebergTable, for any number of clients, partitions,     *)
(* versions and failures, on either kind of storage.                       *)
(***************************************************************************)
EXTENDS IcebergTable, FiniteBounds

CatP == INSTANCE CatalogProofs WITH Changes <- TableChanges

-----------------------------------------------------------------------------
(* The catalog: its steps are those of Catalog, about which CatalogProofs    *)
(* has shown what types they keep.                                           *)

Building == {"put", "fill", "point"}

PhaseOK ==
    \A c \in Clients :
        /\ pc[c] \in Building => work[c] \in Cat!Handles
        /\ pc[c] = "load" => work[c] \in [version : Cat!Versions, meta : {None}]

LEMMA SameSets ==
    /\ CatP!Versions = Cat!Versions /\ CatP!Metadata = Cat!Metadata
    /\ CatP!Contents = Cat!Contents /\ CatP!Handles = Cat!Handles
    /\ CatP!Phases = Cat!Phases /\ CatP!Files = Cat!Files /\ CatP!Mutating = Cat!Mutating
    /\ CatP!vars = Cat!vars
BY DEF CatP!Versions, Cat!Versions, CatP!Metadata, Cat!Metadata, CatP!Contents, Cat!Contents,
       CatP!Handles, Cat!Handles, CatP!Phases, Cat!Phases, CatP!Mutating, Cat!Mutating,
       CatP!Files, Cat!Files, CatP!HintFile, Cat!HintFile, CatP!vars, Cat!vars

LEMMA SameTypes == CatP!TypeInv <=> Cat!TypeOK /\ PhaseOK
BY SameSets DEF CatP!TypeInv, CatP!TypeOK, Cat!TypeOK, CatP!PhaseOK, PhaseOK, CatP!Building, Building

LEMMA SameSteps ==
    ASSUME NEW c \in Clients
    PROVE  /\ Cat!Create(c) => CatP!Create(c)
           /\ Cat!LoadHint(c) => CatP!Load(c)
           /\ Cat!LoadMeta(c) => CatP!Load(c)
           /\ \A x \in TableChanges : Cat!CommitCheck(c, x) => CatP!Commit(c)
           /\ Cat!Write(c) => CatP!Write(c)
           /\ \A purge \in PurgeArgs : Cat!DropCheck(c, purge) => CatP!Drop(c)
           /\ Cat!UnlinkHint(c) => CatP!Drop(c)
           /\ Cat!Fail(c) => CatP!Fail(c)
<1> USE SameSets
<1>1. Cat!Free(c) <=> CatP!Free(c)
  BY DEF Cat!Free, CatP!Free
<1>2. \A phase : Cat!Goto(c, phase) <=> CatP!Goto(c, phase)
  BY DEF Cat!Goto, CatP!Goto
<1>3. \A f : Cat!MayRemain(f) <=> CatP!MayRemain(f)
  BY DEF Cat!MayRemain, CatP!MayRemain
<1>4. \A v : Cat!Readable(v) <=> CatP!Readable(v)
  BY DEF Cat!Readable, CatP!Readable
<1>5. Cat!Create(c) => CatP!Create(c)
  BY <1>1, <1>2 DEF Cat!Create, CatP!Create, Cat!CreateTable, CatP!CreateTable
<1>6. Cat!LoadHint(c) => CatP!Load(c)
  BY <1>2 DEF CatP!Load, Cat!LoadHint, CatP!LoadHint
<1>7. Cat!LoadMeta(c) => CatP!Load(c)
  BY <1>2, <1>4 DEF CatP!Load, Cat!LoadMeta, CatP!LoadMeta
<1>8. \A x \in TableChanges : Cat!CommitCheck(c, x) => CatP!Commit(c)
  BY <1>1, <1>2 DEF CatP!Commit, Cat!CommitCheck, CatP!CommitCheck, Cat!WithChange, CatP!WithChange
<1>9. Cat!Written(c) = CatP!Written(c)
  BY DEF Cat!Written, CatP!Written
<1>10. Cat!Write(c) => CatP!Write(c)
  BY <1>2, <1>3, <1>9 DEF Cat!Write, CatP!Write, Cat!Put, CatP!Put, Cat!Fill, CatP!Fill, Cat!Point,
        CatP!Point, Cat!PointReplyLost, CatP!PointReplyLost, Cat!HintFile, CatP!HintFile
<1>11. \A purge \in PurgeArgs : Cat!DropCheck(c, purge) => CatP!Drop(c)
  BY <1>1, <1>2 DEF CatP!Drop, Cat!DropCheck, CatP!DropCheck
<1>12. Cat!UnlinkHint(c) => CatP!Drop(c)
  BY <1>2 DEF CatP!Drop, Cat!UnlinkHint, CatP!UnlinkHint
<1>13. Cat!Fail(c) => CatP!Fail(c)
  BY <1>2 DEF Cat!Fail, CatP!Fail, Cat!Crash, CatP!Crash, Cat!Raise, CatP!Raise, Cat!Abandon, CatP!Abandon
<1> QED BY <1>5, <1>6, <1>7, <1>8, <1>10, <1>11, <1>12, <1>13

LEMMA CatalogAssumed == CatP!ConstantsAssumption /\ CatP!SentinelsAssumption
BY TableAssumption, SentinelsAssumption, SameSets
DEF CatP!ConstantsAssumption, CatP!SentinelsAssumption

LEMMA CatalogTypes ==
    ASSUME Cat!TypeOK, PhaseOK, NEW c \in Clients,
           CatP!Create(c) \/ CatP!Load(c) \/ CatP!Commit(c) \/ CatP!Write(c) \/ CatP!Drop(c) \/ CatP!Fail(c)
    PROVE  Cat!TypeOK' /\ PhaseOK'
<1>1. CatP!TypeInv /\ [CatP!Next]_(CatP!vars)
  BY SameTypes DEF CatP!Next
<1>2. CatP!TypeInv'
  BY <1>1, CatalogAssumed, CatP!TypeStep
<1> QED BY <1>2, SameTypes, PTL

\* What a step of the catalog leaves alone: what the other clients do and hold.
LEMMA OthersSame ==
    ASSUME Cat!TypeOK, NEW c \in Clients, CatalogStep(c) \/ CatalogFails(c), NEW d \in Clients, d # c
    PROVE  pc'[d] = pc[d] /\ handle'[d] = handle[d]
<1> USE DEF Cat!TypeOK, Cat!Goto
<1>1. CASE CatalogStep(c)
  BY <1>1 DEF CatalogStep, Cat!Create, Cat!CreateTable, Cat!LoadHint, Cat!LoadMeta, Cat!Write, Cat!Put,
         Cat!Fill, Cat!Point, Cat!PointReplyLost, Cat!DropCheck, Cat!UnlinkHint
<1>2. CASE CatalogFails(c)
  BY <1>2 DEF CatalogFails, Cat!Fail, Cat!Crash, Cat!Raise, Cat!Abandon
<1> QED BY <1>1, <1>2

-----------------------------------------------------------------------------
(* Types, and what is on storage.                                            *)

\* A manifest that is on storage with every file that a scan of it opens.
Stored(m) == m \in Manifests /\ m \in files /\ Live(m) \subseteq files

ListsOK == \A id \in Millis : ListReadable(id) => Stored(mlist[id])

\* A client that writes is in no other call, and has uploaded what it refers to.
JobsOK ==
    \A c \in Clients : job[c] # None =>
        /\ pc[c] = "idle" /\ handle[c] # None
        /\ job[c].new \subseteq files
        /\ job[c].phase # "parquet" => job[c].id \in Millis
        /\ job[c].phase \in {"manifest", "list", "fill", "commit"} =>
              job[c].manifest \in Manifests /\ Live(job[c].manifest) \subseteq files
        /\ job[c].phase \in {"list", "fill", "commit"} => job[c].manifest \in files

StorageInv == TypeOK /\ PhaseOK /\ ListsOK /\ JobsOK

LEMMA LastIdType ==
    ASSUME NEW m \in Cat!Metadata, NEW at \in SUBSET SnapshotAt(m)
    PROVE  /\ LastId(m, at) \in {0} \cup Millis
           /\ at = {} => LastId(m, at) = 0
           /\ at # {} => /\ Max(at) \in at /\ \A i \in at : i <= Max(at)
                        /\ LastId(m, at) = m.log[Max(at)].id
           /\ \A i \in SnapshotAt(m) : i \in 1 .. Len(m.log) /\ m.log[i] \in Snapshots
<1>1. m.log \in Seq(TableChanges)
  BY DEF Cat!Metadata
<1>2. \A i \in SnapshotAt(m) : i \in 1 .. Len(m.log) /\ m.log[i] \in TableChanges /\ m.log[i].kind = "snapshot"
  BY <1>1 DEF SnapshotAt
<1>3. \A x \in TableChanges : x.kind = "snapshot" => x \in Snapshots
  BY DEF TableChanges, Schemas
<1>4. \A i \in SnapshotAt(m) : i \in 1 .. Len(m.log) /\ m.log[i] \in Snapshots
  BY <1>2, <1>3
<1>5. ASSUME at # {} PROVE Max(at) \in at /\ \A i \in at : i <= Max(at)
  <2>1. at \in SUBSET Int /\ Len(m.log) \in Int /\ \A i \in at : i <= Len(m.log)
    BY <1>1, <1>2
  <2> QED BY <1>5, <2>1, LargestInt
<1>6. \A x \in Snapshots : x.id \in Millis
  BY DEF Snapshots
<1> QED BY <1>4, <1>5, <1>6 DEF LastId

LEMMA ManifestOfType ==
    ASSUME NEW op \in Ops, NEW new \in SUBSET DataFiles, NEW live \in SUBSET DataFiles
    PROVE  /\ ManifestOf(op, new, live) \in Manifests
           /\ Live(ManifestOf(op, new, live)) = IF op = "append" THEN new \cup live ELSE new
<1> DEFINE old == IF op = "append" THEN "existing" ELSE "deleted"
           m == ManifestOf(op, new, live)
<1>1. m.entries = [status : {"added"}, file : new] \cup [status : {old}, file : live]
  BY DEF ManifestOf
<1>2. m.entries \in SUBSET Entries
  BY <1>1 DEF Entries, Statuses
<1>3. m = [entries |-> m.entries]
  BY DEF ManifestOf
<1>4. m \in Manifests
  BY <1>2, <1>3 DEF Manifests
<1>5. \A f \in new : [status |-> "added", file |-> f] \in m.entries
  BY <1>1
<1>6. \A f \in live : [status |-> old, file |-> f] \in m.entries
  BY <1>1
<1>7. ASSUME NEW e \in m.entries
      PROVE  (e.status = "added" /\ e.file \in new) \/ (e.status = old /\ e.file \in live)
  <2> HIDE DEF old
  <2>1. e \in [status : {"added"}, file : new] => e.status = "added" /\ e.file \in new
    OBVIOUS
  <2>2. e \in [status : {old}, file : live] => e.status = old /\ e.file \in live
    OBVIOUS
  <2> QED BY <1>1, <2>1, <2>2
<1>8. op = "append" => old = "existing"
  OBVIOUS
<1>9. op # "append" => old = "deleted"
  OBVIOUS
<1>10. Live(m) = IF op = "append" THEN new \cup live ELSE new
  <2> HIDE DEF old, m
  <2>1. \A f : f \in Live(m) <=> \E e \in m.entries : e.status # "deleted" /\ e.file = f
    BY DEF Live
  <2>2. \A f \in new : f \in Live(m)
    BY <1>5, <2>1
  <2>3. ASSUME NEW f \in Live(m) PROVE f \in new \/ (f \in live /\ old # "deleted")
    <3>1. PICK e \in m.entries : e.status # "deleted" /\ e.file = f
      BY <2>1
    <3> QED BY <1>7, <3>1
  <2>4. \A f \in live : old # "deleted" => f \in Live(m)
    BY <1>6, <2>1
  <2> QED BY <1>8, <1>9, <2>2, <2>3, <2>4
<1> QED BY <1>4, <1>10

LEMMA LiveType ==
    ASSUME NEW m \in Manifests
    PROVE  Live(m) \in SUBSET DataFiles
BY DEF Live, Manifests, Entries

\* A job is a record of its type, or there is none.
LEMMA JobType ==
    ASSUME TypeOK, NEW c \in Clients, job[c] # None
    PROVE  job[c] \in Jobs
BY DEF TypeOK

LEMMA StorageInit == Init => StorageInv
<1> SUFFICES ASSUME Init PROVE StorageInv
  OBVIOUS
<1>1. CatP!TypeInv
  <2>1. CatP!Init
    BY SameSets DEF Init, Cat!Init, CatP!Init
  <2> QED BY <2>1, CatalogAssumed, CatP!TypeInit
<1>2. Cat!TypeOK /\ PhaseOK
  BY <1>1, SameTypes
<1> QED BY <1>2, TableAssumption DEF Init, StorageInv, TypeOK, ListsOK, JobsOK, ListReadable

\* The data files and manifests of a job whose record is new or changed; the others
\* keep what they have, since nothing is removed from storage.
LEMMA JobStep ==
    ASSUME JobsOK, NEW c \in Clients, UNCHANGED catalogVars, files \subseteq files',
           \A d \in Clients \ {c} : job'[d] = job[d],
           job'[c] # None =>
               /\ pc[c] = "idle" /\ handle[c] # None
               /\ job'[c].new \subseteq files'
               /\ job'[c].phase # "parquet" => job'[c].id \in Millis
               /\ job'[c].phase \in {"manifest", "list", "fill", "commit"} =>
                     job'[c].manifest \in Manifests /\ Live(job'[c].manifest) \subseteq files'
               /\ job'[c].phase \in {"list", "fill", "commit"} => job'[c].manifest \in files'
    PROVE  JobsOK'
<1> SUFFICES ASSUME NEW d \in Clients, job'[d] # None
             PROVE  /\ pc'[d] = "idle" /\ handle'[d] # None
                    /\ job'[d].new \subseteq files'
                    /\ job'[d].phase # "parquet" => job'[d].id \in Millis
                    /\ job'[d].phase \in {"manifest", "list", "fill", "commit"} =>
                          job'[d].manifest \in Manifests /\ Live(job'[d].manifest) \subseteq files'
                    /\ job'[d].phase \in {"list", "fill", "commit"} => job'[d].manifest \in files'
  BY DEF JobsOK, Live
<1>1. pc' = pc /\ handle' = handle
  BY DEF catalogVars
<1>2. CASE d = c
  BY <1>1, <1>2
<1>3. CASE d # c
  BY <1>1, <1>3 DEF JobsOK
<1> QED BY <1>2, <1>3

LEMMA SameCatalog ==
    ASSUME Cat!TypeOK, PhaseOK, UNCHANGED catalogVars
    PROVE  Cat!TypeOK' /\ PhaseOK'
BY DEF Cat!TypeOK, PhaseOK, catalogVars

\* A step of the catalog alone.
LEMMA CatalogStorage ==
    ASSUME StorageInv, NEW c \in Clients, CatalogStep(c) \/ CatalogFails(c)
    PROVE  StorageInv'
<1> USE DEF StorageInv
<1>1. /\ clock' = clock /\ files' = files /\ mlist' = mlist /\ job' = job
      /\ failures' \in 0 .. MaxFailures
  BY TableAssumption DEF CatalogStep, CatalogFails, tableVars, TypeOK
<1>2. CatP!Create(c) \/ CatP!Load(c) \/ CatP!Commit(c) \/ CatP!Write(c) \/ CatP!Drop(c) \/ CatP!Fail(c)
  BY SameSteps DEF CatalogStep, CatalogFails
<1>3. Cat!TypeOK' /\ PhaseOK'
  BY <1>2, CatalogTypes DEF TypeOK
<1>4. TypeOK'
  BY <1>1, <1>3 DEF TypeOK
<1>5. ListsOK'
  BY <1>1 DEF ListsOK, ListReadable, Stored, Live
<1>6. job[c] = None
  BY DEF CatalogStep, CatalogFails, MayWrite, NoJob, Cat!LoadMeta, Cat!Write, Cat!Put, Cat!Fill,
         Cat!Point, Cat!PointReplyLost, Cat!UnlinkHint, Cat!Fail, Cat!Crash, Cat!Raise, JobsOK
<1>7. \A d \in Clients : d # c => pc'[d] = pc[d] /\ handle'[d] = handle[d]
  BY OthersSame DEF TypeOK
<1>8. JobsOK'
  BY <1>1, <1>6, <1>7 DEF JobsOK, Live
<1> QED BY <1>3, <1>4, <1>5, <1>8

LEMMA StartWriteStorage ==
    ASSUME StorageInv, NEW c \in Clients, NEW op \in Ops, NEW parts \in SUBSET Partitions,
           StartWrite(c, op, parts)
    PROVE  StorageInv'
<1> USE DEF StorageInv
<1> DEFINE j == [op |-> op, todo |-> parts, new |-> {}, id |-> 0, manifest |-> None, phase |-> "parquet"]
<1>1. j \in Jobs /\ job' = [job EXCEPT ![c] = j] /\ UNCHANGED <<catalogVars, clock, files, mlist, failures>>
  BY DEF StartWrite, Jobs
<1>2. pc[c] = "idle" /\ handle[c] # None
  BY DEF StartWrite, MayWrite, NoJob
<1>3. Cat!TypeOK' /\ PhaseOK'
  BY <1>1, SameCatalog DEF TypeOK
<1>4. TypeOK'
  BY <1>1, <1>3 DEF TypeOK
<1>5. job'[c] = j /\ \A d \in Clients \ {c} : job'[d] = job[d]
  BY <1>1 DEF TypeOK
<1>6. JobsOK'
  <2> HIDE DEF StorageInv
  <2> SUFFICES job'[c].new \subseteq files' /\ job'[c].phase = "parquet"
    BY <1>1, <1>2, <1>5, JobStep DEF StorageInv
  <2> QED BY <1>5
<1> QED BY <1>1, <1>3, <1>4, <1>6 DEF ListsOK, ListReadable, Stored, Live

LEMMA WriteParquetStorage ==
    ASSUME StorageInv, NEW c \in Clients, NEW p \in Partitions, WriteParquet(c, p)
    PROVE  StorageInv'
<1> USE DEF StorageInv
<1> DEFINE f == NewFile(p)
           j == [job[c] EXCEPT !.todo = @ \ {p}, !.new = @ \cup {f}]
<1> HIDE DEF f
<1>1. /\ job[c] \in Jobs /\ job[c] # None /\ job[c].phase = "parquet" /\ f \in DataFiles
      /\ job' = [job EXCEPT ![c] = j] /\ files' = files \cup {f}
      /\ UNCHANGED <<catalogVars, clock, mlist, failures>>
  BY JobType DEF WriteParquet, f
<1>2. /\ j \in Jobs /\ j.phase = "parquet" /\ j.new = job[c].new \cup {f}
  BY <1>1 DEF Jobs
<1>3. Cat!TypeOK' /\ PhaseOK'
  BY <1>1, SameCatalog DEF TypeOK
<1>4. TypeOK'
  BY <1>1, <1>2, <1>3 DEF TypeOK
<1>5. job'[c] = j /\ \A d \in Clients \ {c} : job'[d] = job[d]
  BY <1>1 DEF TypeOK
<1>6. JobsOK'
  <2>1. pc[c] = "idle" /\ handle[c] # None /\ job[c].new \subseteq files
    BY <1>1 DEF JobsOK
  <2> QED BY <1>1, <1>2, <1>5, <2>1, JobStep
<1>7. ListsOK'
  BY <1>1 DEF ListsOK, ListReadable, Stored, Live
<1> QED BY <1>3, <1>4, <1>6, <1>7

LEMMA StampStorage ==
    ASSUME StorageInv, NEW c \in Clients, Stamp(c)
    PROVE  StorageInv'
<1> USE DEF StorageInv
<1> DEFINE j == [job[c] EXCEPT !.id = clock, !.phase = "live"]
<1>1. /\ job[c] \in Jobs /\ job[c] # None /\ clock \in Millis
      /\ job' = [job EXCEPT ![c] = j]
      /\ UNCHANGED <<catalogVars, files, mlist, failures>>
  BY JobType DEF Stamp
<1>2. j \in Jobs /\ j.phase = "live" /\ j.id = clock /\ j.new = job[c].new
  BY <1>1 DEF Jobs
<1>3. clock' \in 1 .. MaxClock + 1
  BY <1>1, TableAssumption DEF Stamp, Millis
<1>4. Cat!TypeOK' /\ PhaseOK'
  BY <1>1, SameCatalog DEF TypeOK
<1>5. TypeOK'
  BY <1>1, <1>2, <1>3, <1>4 DEF TypeOK
<1>6. job'[c] = j /\ \A d \in Clients \ {c} : job'[d] = job[d]
  BY <1>1 DEF TypeOK
<1>7. JobsOK'
  <2>1. pc[c] = "idle" /\ handle[c] # None /\ job[c].new \subseteq files
    BY <1>1 DEF JobsOK
  <2>2. job'[c].phase = "live" /\ job'[c].id \in Millis /\ job'[c].new \subseteq files'
    BY <1>1, <1>2, <1>6, <2>1
  <2>3. UNCHANGED catalogVars /\ files \subseteq files'
    BY <1>1
  <2> HIDE DEF j, StorageInv
  <2> QED BY <1>6, <2>1, <2>2, <2>3, JobStep DEF StorageInv
<1> QED BY <1>1, <1>4, <1>5, <1>7 DEF ListsOK, ListReadable, Stored, Live

\* A version of the metadata: whose snapshots the client that holds it can scan.
LEMMA HandleType ==
    ASSUME TypeOK, NEW c \in Clients, handle[c] # None
    PROVE  /\ handle[c].meta \in Cat!Metadata
           /\ CurrentId(handle[c].meta) \in {0} \cup Millis
<1>1. handle[c].meta \in Cat!Metadata
  BY DEF TypeOK, Cat!TypeOK, Cat!Handles
<1> QED BY <1>1, LastIdType DEF CurrentId

LEMMA ReadLiveStorage ==
    ASSUME StorageInv, NEW c \in Clients, ReadLive(c)
    PROVE  StorageInv'
<1> USE DEF StorageInv
<1> DEFINE current == CurrentId(handle[c].meta)
           live == IF current = 0 THEN {} ELSE ScanFiles(current)
           m == ManifestOf(job[c].op, job[c].new, live)
           j == [job[c] EXCEPT !.manifest = m, !.phase = "manifest"]
<1>1. /\ job[c] \in Jobs /\ job[c] # None /\ job[c].phase = "live"
      /\ UNCHANGED <<catalogVars, clock, files, mlist, failures>>
  BY JobType DEF ReadLive
<1>2. pc[c] = "idle" /\ handle[c] # None /\ job[c].new \subseteq files /\ job[c].id \in Millis
  BY <1>1 DEF JobsOK
<1>3. Cat!TypeOK' /\ PhaseOK'
  BY <1>1, SameCatalog DEF TypeOK
<1>4. ListsOK'
  BY <1>1 DEF ListsOK, ListReadable, Stored, Live
<1>5. CASE current # 0 /\ ~ ListReadable(current)
  <2>1. job' = [job EXCEPT ![c] = None]
    BY <1>5 DEF ReadLive
  <2>2. TypeOK'
    BY <1>1, <1>3, <2>1 DEF TypeOK
  <2>3. JobsOK'
    BY <1>1, <2>1 DEF TypeOK, JobsOK, Live, catalogVars
  <2> QED BY <1>3, <1>4, <2>2, <2>3
<1>6. CASE ~ (current # 0 /\ ~ ListReadable(current))
  <2>1. job' = [job EXCEPT ![c] = j]
    BY <1>6 DEF ReadLive
  <2>2. live \in SUBSET DataFiles /\ live \subseteq files
    <3>1. current \in {0} \cup Millis
      BY <1>2, HandleType
    <3>2. CASE current = 0
      BY <3>2
    <3>3. CASE current \in Millis /\ ListReadable(current)
      <4>1. Stored(mlist[current])
        BY <3>3 DEF ListsOK
      <4>2. Live(mlist[current]) \in SUBSET DataFiles
        BY <4>1, LiveType DEF Stored
      <4> QED BY <3>3, <4>1, <4>2 DEF Stored, ScanFiles, Millis
    <3> QED BY <1>6, <3>1, <3>2, <3>3
  <2>3. job[c].op \in Ops /\ job[c].new \in SUBSET DataFiles
    BY <1>1 DEF Jobs
  <2> HIDE DEF live
  <2>4. m \in Manifests /\ Live(m) = IF job[c].op = "append" THEN job[c].new \cup live ELSE job[c].new
    BY <2>2, <2>3, ManifestOfType
  <2> HIDE DEF m
  <2>5. j \in Jobs /\ j.phase = "manifest" /\ j.manifest = m /\ j.id = job[c].id /\ j.new = job[c].new
    BY <1>1, <2>4 DEF Jobs
  <2> HIDE DEF j
  <2>6. TypeOK'
    BY <1>1, <1>3, <2>1, <2>5 DEF TypeOK
  <2>7. job'[c] = j /\ \A d \in Clients \ {c} : job'[d] = job[d]
    BY <2>1 DEF TypeOK
  <2>8. Live(m) \subseteq files'
    BY <1>1, <1>2, <2>2, <2>4
  <2>9. JobsOK'
    <3>1. UNCHANGED catalogVars /\ files \subseteq files'
      BY <1>1
    <3>2. /\ job'[c].new \subseteq files' /\ job'[c].phase = "manifest" /\ job'[c].id \in Millis
          /\ job'[c].manifest \in Manifests /\ Live(job'[c].manifest) \subseteq files'
      BY <1>1, <1>2, <2>4, <2>5, <2>7, <2>8
    <3> HIDE DEF StorageInv
    <3> QED BY <1>2, <2>7, <3>1, <3>2, JobStep DEF StorageInv
  <2> QED BY <1>3, <1>4, <2>6, <2>9
<1> QED BY <1>5, <1>6

LEMMA WriteManifestStorage ==
    ASSUME StorageInv, NEW c \in Clients, WriteManifest(c)
    PROVE  StorageInv'
<1> USE DEF StorageInv
<1> DEFINE j == [job[c] EXCEPT !.phase = "list"]
<1>1. /\ job[c] \in Jobs /\ job[c] # None /\ job[c].phase = "manifest"
      /\ job' = [job EXCEPT ![c] = j] /\ files' = files \cup {job[c].manifest}
      /\ UNCHANGED <<catalogVars, clock, mlist, failures>>
  BY JobType DEF WriteManifest
<1>2. /\ pc[c] = "idle" /\ handle[c] # None /\ job[c].new \subseteq files /\ job[c].id \in Millis
      /\ job[c].manifest \in Manifests /\ Live(job[c].manifest) \subseteq files
  BY <1>1 DEF JobsOK
<1>3. j \in Jobs /\ j.phase = "list" /\ j.id = job[c].id /\ j.new = job[c].new /\ j.manifest = job[c].manifest
  BY <1>1 DEF Jobs
<1> HIDE DEF j
<1>4. Cat!TypeOK' /\ PhaseOK'
  BY <1>1, SameCatalog DEF TypeOK
<1>5. TypeOK'
  BY <1>1, <1>2, <1>3, <1>4 DEF TypeOK
<1>6. job'[c] = j /\ \A d \in Clients \ {c} : job'[d] = job[d]
  BY <1>1 DEF TypeOK
<1>7. JobsOK'
  BY <1>1, <1>2, <1>3, <1>6, JobStep
<1>8. ListsOK'
  BY <1>1 DEF ListsOK, ListReadable, Stored, Live
<1> QED BY <1>4, <1>5, <1>7, <1>8

LEMMA WriteListStorage ==
    ASSUME StorageInv, NEW c \in Clients, WriteList(c) \/ FillList(c)
    PROVE  /\ StorageInv'
           /\ job[c].phase \in {"list", "fill"} /\ job[c].id \in Millis
           /\ job'[c].id = job[c].id /\ job'[c].manifest = job[c].manifest
           /\ \A d \in Clients \ {c} : job'[d] = job[d]
<1> USE DEF StorageInv
<1>1. /\ job[c] \in Jobs /\ job[c] # None /\ job[c].phase \in {"list", "fill"}
      /\ UNCHANGED <<catalogVars, clock, files, failures>>
  BY JobType DEF WriteList, FillList
<1>2. PICK phase \in {"fill", "commit"} : job' = [job EXCEPT ![c].phase = phase]
  BY DEF WriteList, FillList
<1>3. PICK content \in {job[c].manifest, Truncated} : mlist' = [mlist EXCEPT ![job[c].id] = content]
  BY DEF WriteList, FillList
<1> DEFINE j == [job[c] EXCEPT !.phase = phase]
<1>4. /\ pc[c] = "idle" /\ handle[c] # None /\ job[c].new \subseteq files /\ job[c].id \in Millis
      /\ job[c].manifest \in Manifests /\ Live(job[c].manifest) \subseteq files
      /\ job[c].manifest \in files
  BY <1>1 DEF JobsOK
<1>5. j \in Jobs /\ j.phase = phase /\ j.id = job[c].id /\ j.new = job[c].new /\ j.manifest = job[c].manifest
  BY <1>1 DEF Jobs
<1>6. job' = [job EXCEPT ![c] = j]
  BY <1>1, <1>2 DEF TypeOK
<1> HIDE DEF j
<1>7. Cat!TypeOK' /\ PhaseOK'
  BY <1>1, SameCatalog DEF TypeOK
<1>8. TypeOK'
  BY <1>1, <1>3, <1>4, <1>5, <1>6, <1>7 DEF TypeOK
<1>9. job'[c] = j /\ \A d \in Clients \ {c} : job'[d] = job[d]
  BY <1>6 DEF TypeOK
<1>10. JobsOK'
  BY <1>1, <1>4, <1>5, <1>9, JobStep
<1>11. ListsOK'
  BY <1>1, <1>3, <1>4 DEF ListsOK, ListReadable, Stored, Live, TypeOK
<1> QED BY <1>1, <1>4, <1>5, <1>7, <1>8, <1>9, <1>10, <1>11

\* The end of a job: it is committed, rejected or cut short.
LEMMA EndStorage ==
    ASSUME StorageInv, NEW c \in Clients,
           Cat!TypeOK', PhaseOK', job' = [job EXCEPT ![c] = None],
           \A d \in Clients \ {c} : pc'[d] = pc[d] /\ handle'[d] = handle[d],
           UNCHANGED <<clock, files, mlist>>, failures' \in 0 .. MaxFailures
    PROVE  StorageInv'
<1> USE DEF StorageInv
<1>1. TypeOK'
  BY DEF TypeOK
<1>2. job'[c] = None /\ \A d \in Clients \ {c} : job'[d] = job[d]
  BY DEF TypeOK
<1>3. JobsOK'
  BY <1>2 DEF JobsOK, Live
<1>4. ListsOK'
  BY DEF ListsOK, ListReadable, Stored, Live
<1> QED BY <1>1, <1>3, <1>4

LEMMA SnapshotType ==
    ASSUME StorageInv, NEW c \in Clients, job[c] # None, job[c].phase = "commit"
    PROVE  NewSnapshot(c) \in Snapshots
<1>1. job[c] \in Jobs /\ handle[c] # None /\ job[c].id \in Millis /\ job[c].manifest \in Manifests
  BY JobType DEF StorageInv, JobsOK
<1>2. CurrentId(handle[c].meta) \in {0} \cup Millis
  BY <1>1, HandleType DEF StorageInv
<1>3. Live(job[c].manifest) \in SUBSET DataFiles /\ job[c].op \in Ops
  BY <1>1, LiveType DEF Jobs
<1> QED BY <1>1, <1>2, <1>3 DEF NewSnapshot, Snapshots

LEMMA CommitStorage ==
    ASSUME StorageInv, NEW c \in Clients, CommitWrite(c) \/ CommitRejected(c) \/ AbortWrite(c)
    PROVE  StorageInv'
<1> USE DEF StorageInv
<1>1. CASE CommitWrite(c)
  <2>1. NewSnapshot(c) \in TableChanges
    BY <1>1, SnapshotType DEF CommitWrite, TableChanges
  <2>2. Cat!TypeOK' /\ PhaseOK'
    BY <1>1, <2>1, SameSteps, CatalogTypes DEF CommitWrite, TypeOK
  <2>3. \A d \in Clients \ {c} : pc'[d] = pc[d] /\ handle'[d] = handle[d]
    BY <1>1 DEF CommitWrite, Cat!CommitCheck, Cat!Goto, TypeOK, Cat!TypeOK
  <2> QED BY <1>1, <2>2, <2>3, EndStorage DEF CommitWrite, TypeOK
<1>2. CASE CommitRejected(c)
  <2>1. Cat!TypeOK' /\ PhaseOK'
    BY <1>2, SameCatalog DEF CommitRejected, TypeOK
  <2> QED BY <1>2, <2>1, EndStorage DEF CommitRejected, TypeOK, catalogVars
<1>3. CASE AbortWrite(c)
  <2>1. \/ handle' = [handle EXCEPT ![c] = None]
        \/ handle' = handle
    BY <1>3 DEF AbortWrite
  <2>2. Cat!TypeOK' /\ PhaseOK'
    BY <1>3, <2>1 DEF AbortWrite, TypeOK, Cat!TypeOK, PhaseOK
  <2>3. \A d \in Clients \ {c} : pc'[d] = pc[d] /\ handle'[d] = handle[d]
    BY <1>3, <2>1 DEF AbortWrite, TypeOK, Cat!TypeOK
  <2>4. failures' \in 0 .. MaxFailures
    BY <1>3, TableAssumption DEF AbortWrite, TypeOK
  <2> QED BY <1>3, <2>2, <2>3, <2>4, EndStorage DEF AbortWrite
<1> QED BY <1>1, <1>2, <1>3

LEMMA AddColumnStorage ==
    ASSUME StorageInv, NEW c \in Clients, AddColumn(c)
    PROVE  StorageInv'
<1> USE DEF StorageInv
<1>1. /\ [kind |-> "schema"] \in TableChanges /\ Cat!CommitCheck(c, [kind |-> "schema"])
      /\ UNCHANGED tableVars /\ job[c] = None
  BY DEF AddColumn, TableChanges, Schemas, MayWrite, NoJob
<1>2. Cat!TypeOK' /\ PhaseOK'
  BY <1>1, SameSteps, CatalogTypes DEF TypeOK
<1>3. \A d \in Clients \ {c} : pc'[d] = pc[d] /\ handle'[d] = handle[d]
  BY <1>1 DEF Cat!CommitCheck, Cat!Goto, TypeOK, Cat!TypeOK
<1>4. TypeOK'
  BY <1>1, <1>2 DEF TypeOK, tableVars
<1>5. JobsOK'
  BY <1>1, <1>3 DEF JobsOK, tableVars, Live
<1>6. ListsOK'
  BY <1>1 DEF ListsOK, ListReadable, Stored, tableVars, Live
<1> QED BY <1>2, <1>4, <1>5, <1>6

LEMMA StorageStep == StorageInv /\ [Next]_vars => StorageInv'
<1> SUFFICES ASSUME StorageInv, [Next]_vars PROVE StorageInv'
  OBVIOUS
<1>1. CASE UNCHANGED vars
  <2>1. Cat!TypeOK' /\ PhaseOK'
    BY <1>1, SameCatalog DEF StorageInv, TypeOK, vars
  <2>2. TypeOK'
    BY <1>1, <2>1 DEF StorageInv, TypeOK, vars, tableVars
  <2>3. JobsOK' /\ ListsOK'
    BY <1>1 DEF StorageInv, JobsOK, ListsOK, ListReadable, Stored, vars, tableVars, catalogVars, Live
  <2> QED BY <2>1, <2>2, <2>3 DEF StorageInv
<1>2. ASSUME NEW c \in Clients, WriteStep(c) PROVE StorageInv'
  BY <1>2, StartWriteStorage, WriteParquetStorage, StampStorage, ReadLiveStorage, WriteManifestStorage,
     WriteListStorage, CommitStorage, AddColumnStorage DEF WriteStep
<1> QED BY <1>1, <1>2, CatalogStorage DEF Next

LEMMA StorageInvariant == Spec => []StorageInv
BY StorageInit, StorageStep, PTL DEF Spec

\* Every variable keeps its type, with any number of writers, crashes and errors, and
\* also when several writes are stamped in one millisecond.
THEOREM TypeCorrect == Spec => []TypeOK
BY StorageInvariant, PTL DEF StorageInv

\* A snapshot never refers to a manifest or a data file that is not on storage: each file
\* is uploaded before the one that names it (table.py, _write), whatever fails in
\* between and whoever else writes, also in the same millisecond.
THEOREM NoDanglingFiles == Spec => []NothingDangles
<1>1. StorageInv => NothingDangles
  <2> SUFFICES ASSUME StorageInv, NEW meta \in Scannable, NEW s \in CommittedSnapshots(meta),
                      ListReadable(s.id)
               PROVE  mlist[s.id] \in files /\ ScanFiles(s.id) \subseteq files
    BY DEF NothingDangles
  <2>1. meta \in Cat!Metadata
    <3>1. ASSUME NEW c \in Clients, handle[c] # None PROVE handle[c].meta \in Cat!Metadata
      BY <3>1, HandleType DEF StorageInv
    <3>2. hint # 0 /\ Cat!Readable(hint) => vfile[hint] \in Cat!Metadata
      BY TableAssumption DEF StorageInv, TypeOK, Cat!TypeOK, Cat!Readable, Cat!Contents, Cat!Versions
    <3> QED BY <3>1, <3>2 DEF Scannable
  <2>2. s \in Snapshots
    BY <2>1, LastIdType DEF CommittedSnapshots
  <2>3. s.id \in Millis
    BY <2>2 DEF Snapshots
  <2> QED BY <2>3 DEF StorageInv, ListsOK, Stored, ScanFiles
<1> QED BY StorageInvariant, <1>1, PTL

-----------------------------------------------------------------------------
(* Snapshots, when no two writes are stamped in one millisecond.             *)

\* The metadata that is anywhere: in a Table object, about to be written, or written.
Held == {handle[c].meta : c \in {d \in Clients : handle[d] # None}}
        \cup {work[c].meta : c \in {d \in Clients : pc[d] \in Building}}
        \cup {vfile[v] : v \in {w \in Cat!Versions : Cat!Readable(w)}}

\* What holds of every snapshot in the metadata.
MetaOK(m) ==
    \A i \in SnapshotAt(m) :
        /\ m.log[i].id < clock
        /\ ListReadable(m.log[i].id)
        /\ Live(mlist[m.log[i].id]) = m.log[i].shows
        /\ m.log[i].parent < m.log[i].id
        /\ m.log[i].parent = LastId(m, {k \in SnapshotAt(m) : k < i})

\* The id of a write belongs to it alone until it is committed, and the manifest list
\* of that id is what the write made it.
Stamped(c) == job[c] # None /\ job[c].phase # "parquet"

JobIdsOK ==
    \A c \in Clients : Stamped(c) =>
        /\ job[c].id < clock
        /\ \A d \in Clients \ {c} : Stamped(d) => job[d].id # job[c].id
        /\ \A m \in Held : \A i \in SnapshotAt(m) : m.log[i].id # job[c].id
        /\ \A i \in SnapshotAt(handle[c].meta) : handle[c].meta.log[i].id < job[c].id
        /\ job[c].phase = "fill" => mlist[job[c].id] = Truncated
        /\ job[c].phase = "commit" => mlist[job[c].id] = job[c].manifest

SnapshotInv == StorageInv /\ (\A m \in Held : MetaOK(m)) /\ JobIdsOK

LEMMA HeldType ==
    ASSUME StorageInv, NEW m \in Held
    PROVE  m \in Cat!Metadata
<1>1. ASSUME NEW c \in Clients, handle[c] # None PROVE handle[c].meta \in Cat!Metadata
  BY <1>1, HandleType DEF StorageInv
<1>2. ASSUME NEW c \in Clients, pc[c] \in Building PROVE work[c].meta \in Cat!Metadata
  BY <1>2 DEF StorageInv, PhaseOK, Cat!Handles
<1>3. ASSUME NEW v \in Cat!Versions, Cat!Readable(v) PROVE vfile[v] \in Cat!Metadata
  BY <1>3 DEF StorageInv, TypeOK, Cat!TypeOK, Cat!Readable, Cat!Contents
<1> QED BY <1>1, <1>2, <1>3 DEF Held

LEMMA HeldNow ==
    /\ \A c \in Clients : handle[c] # None => handle[c].meta \in Held
    /\ \A c \in Clients : pc[c] \in Building => work[c].meta \in Held
    /\ \A v \in Cat!Versions : Cat!Readable(v) => vfile[v] \in Held
BY DEF Held

\* A step of the catalog spreads metadata, and makes none but that of a new table.
LEMMA HeldCatalog ==
    ASSUME StorageInv, NEW c \in Clients, CatalogStep(c) \/ CatalogFails(c)
    PROVE  Held' \subseteq Held \cup {[uuid |-> id, log |-> << >>] : id \in TableIds}
<1> DEFINE Fresh == {[uuid |-> id, log |-> << >>] : id \in TableIds}
           Made(v, w) == w = v \/ w \in Held \cup Fresh
<1> USE DEF StorageInv, TypeOK, Cat!TypeOK, Building
<1>1. \A d \in Clients : handle'[d] # None => handle'[d] = handle[d] \/ handle'[d].meta \in Held
  <2>1. CASE \/ Cat!Create(c) \/ Cat!LoadHint(c) \/ (\E purge \in PurgeArgs : Cat!DropCheck(c, purge))
             \/ Cat!UnlinkHint(c) \/ Cat!Put(c) \/ Cat!Fill(c) \/ Cat!PointReplyLost(c)
    BY <2>1 DEF Cat!Create, Cat!CreateTable, Cat!LoadHint, Cat!DropCheck, Cat!UnlinkHint, Cat!Put,
                Cat!Fill, Cat!PointReplyLost
  <2>2. CASE Cat!LoadMeta(c)
    <3>1. work[c].version \in Cat!Versions
      BY <2>2 DEF Cat!LoadMeta, PhaseOK
    <3>2. Cat!Readable(work[c].version) => vfile[work[c].version] \in Held
      BY <3>1, HeldNow
    <3> QED BY <2>2, <3>2 DEF Cat!LoadMeta
  <2>3. CASE Cat!Point(c)
    <3>1. work[c].meta \in Held
      BY <2>3, HeldNow DEF Cat!Point
    <3> QED BY <2>3, <3>1 DEF Cat!Point
  <2>4. CASE Cat!Fail(c)
    BY <2>4 DEF Cat!Fail, Cat!Crash, Cat!Raise
  <2> QED BY <2>1, <2>2, <2>3, <2>4 DEF CatalogStep, CatalogFails, Cat!Write
<1>2. \A d \in Clients : pc'[d] \in Building =>
         \/ pc[d] \in Building /\ work'[d] = work[d]
         \/ work'[d].meta \in Held \cup Fresh
  <2>1. CASE Cat!Create(c)
    BY <2>1 DEF Cat!Create, Cat!CreateTable, Cat!Goto
  <2>2. CASE Cat!LoadHint(c) \/ Cat!LoadMeta(c) \/ Cat!Put(c) \/ Cat!Fill(c)
    BY <2>2 DEF Cat!LoadHint, Cat!LoadMeta, Cat!Put, Cat!Fill, Cat!Goto
  <2>3. CASE \/ Cat!Point(c) \/ Cat!PointReplyLost(c) \/ Cat!UnlinkHint(c)
             \/ \E purge \in PurgeArgs : Cat!DropCheck(c, purge)
    BY <2>3 DEF Cat!Point, Cat!PointReplyLost, Cat!DropCheck, Cat!UnlinkHint, Cat!Goto
  <2>4. CASE Cat!Fail(c)
    BY <2>4 DEF Cat!Fail, Cat!Crash, Cat!Raise, Cat!Abandon, Cat!Goto
  <2> QED BY <2>1, <2>2, <2>3, <2>4 DEF CatalogStep, CatalogFails, Cat!Write
<1>3. \A v \in Cat!Versions : vfile'[v] \notin {None, Truncated, Garbled} =>
         vfile'[v] = vfile[v] \/ vfile'[v] \in Held
  <2>1. CASE \/ Cat!Create(c) \/ Cat!LoadHint(c) \/ (\E purge \in PurgeArgs : Cat!DropCheck(c, purge))
             \/ Cat!UnlinkHint(c) \/ Cat!LoadMeta(c) \/ Cat!Point(c) \/ Cat!PointReplyLost(c)
             \/ Cat!Fail(c)
    BY <2>1 DEF Cat!Create, Cat!CreateTable, Cat!LoadHint, Cat!DropCheck, Cat!UnlinkHint, Cat!LoadMeta,
                Cat!Point, Cat!PointReplyLost, Cat!Fail, Cat!Crash, Cat!Raise, Cat!Abandon
  <2>2. CASE Cat!Put(c) \/ Cat!Fill(c)
    <3>1. work[c].meta \in Held /\ work[c].version \in Cat!Versions
      BY <2>2, HeldNow DEF Cat!Put, Cat!Fill, PhaseOK, Cat!Handles
    <3>2. PICK content : /\ vfile' = [vfile EXCEPT ![work[c].version] = content]
                         /\ content \in {work[c].meta, None, Truncated, Garbled}
      BY <2>2 DEF Cat!Put, Cat!Fill, Cat!Written
    <3> QED BY <3>1, <3>2
  <2> QED BY <2>1, <2>2 DEF CatalogStep, CatalogFails, Cat!Write
<1>4. \A d \in Clients : handle'[d] # None => handle'[d].meta \in Held
  BY <1>1, HeldNow
<1>5. \A d \in Clients : pc'[d] \in Building => work'[d].meta \in Held \cup Fresh
  BY <1>2, HeldNow
<1>6. \A v \in Cat!Versions : Cat!Readable(v)' => vfile'[v] \in Held
  BY <1>3, HeldNow DEF Cat!Readable
<1> HIDE DEF StorageInv, TypeOK, Cat!TypeOK, Building, Fresh
<1>7. Held' = {handle'[d].meta : d \in {e \in Clients : handle'[e] # None}}
              \cup {work'[d].meta : d \in {e \in Clients : pc'[e] \in Building}}
              \cup {vfile'[v] : v \in {w \in Cat!Versions : Cat!Readable(w)'}}
  BY DEF Held, Building, Cat!Versions
<1>8. Held' \subseteq Held \cup Fresh
  BY <1>4, <1>5, <1>6, <1>7
<1> QED BY <1>8 DEF Fresh

\* A commit makes one more version, and a step of a job none.
LEMMA HeldCommit ==
    ASSUME StorageInv, NEW c \in Clients, NEW x, Cat!CommitCheck(c, x)
    PROVE  Held' \subseteq Held \cup {Cat!WithChange(handle[c].meta, x)}
<1>1. /\ handle' = handle /\ vfile' = vfile
      /\ \A d \in Clients : pc'[d] \in Building =>
            \/ d = c /\ work'[d].meta = Cat!WithChange(handle[c].meta, x)
            \/ pc[d] \in Building /\ work'[d] = work[d]
  BY DEF Cat!CommitCheck, Cat!Goto, StorageInv, TypeOK, Cat!TypeOK, Building
<1>2. Held' = {handle'[d].meta : d \in {e \in Clients : handle'[e] # None}}
              \cup {work'[d].meta : d \in {e \in Clients : pc'[e] \in Building}}
              \cup {vfile'[v] : v \in {w \in Cat!Versions : Cat!Readable(w)'}}
  BY DEF Held, Building, Cat!Versions
<1>3. \A v : Cat!Readable(v)' <=> Cat!Readable(v)
  BY <1>1 DEF Cat!Readable
<1> QED BY <1>1, <1>2, <1>3, HeldNow

LEMMA HeldJob ==
    ASSUME StorageInv, NEW c \in Clients,
           \/ UNCHANGED catalogVars
           \/ /\ UNCHANGED <<vfile, pc, work>>
              /\ handle' = [handle EXCEPT ![c] = None] \/ handle' = handle
    PROVE  Held' \subseteq Held
<1>1. /\ vfile' = vfile /\ pc' = pc /\ work' = work
      /\ \A d \in Clients : handle'[d] # None => handle'[d] = handle[d]
  BY DEF catalogVars, StorageInv, TypeOK, Cat!TypeOK
<1>2. Held' = {handle'[d].meta : d \in {e \in Clients : handle'[e] # None}}
              \cup {work'[d].meta : d \in {e \in Clients : pc'[e] \in Building}}
              \cup {vfile'[v] : v \in {w \in Cat!Versions : Cat!Readable(w)'}}
  BY DEF Held, Building, Cat!Versions
<1>3. \A v : Cat!Readable(v)' <=> Cat!Readable(v)
  BY <1>1 DEF Cat!Readable
<1> QED BY <1>1, <1>2, <1>3, HeldNow

\* Versions that were there stay good when the clock runs and no list of theirs changes.
LEMMA MetaStays ==
    ASSUME StorageInv, NEW m \in Held, MetaOK(m), clock <= clock', clock' \in Int,
           \A i \in SnapshotAt(m) : mlist'[m.log[i].id] = mlist[m.log[i].id]
    PROVE  MetaOK(m)'
<1>1. \A i \in SnapshotAt(m) : m.log[i].id \in Int
  <2>1. \A s \in Snapshots : s.id \in Int
    BY TableAssumption DEF Snapshots, Millis
  <2> QED BY <2>1, HeldType, LastIdType
<1>2. clock \in Int
  BY TableAssumption DEF StorageInv, TypeOK
<1> SUFFICES ASSUME NEW i \in SnapshotAt(m)
             PROVE  /\ m.log[i].id < clock'
                    /\ mlist'[m.log[i].id] \notin {None, Truncated}
                    /\ Live(mlist'[m.log[i].id]) = m.log[i].shows
                    /\ m.log[i].parent < m.log[i].id
                    /\ m.log[i].parent = LastId(m, {k \in SnapshotAt(m) : k < i})
  BY DEF MetaOK, ListReadable, Live, SnapshotAt, LastId
<1>3. mlist[m.log[i].id] \notin {None, Truncated}
  BY DEF MetaOK, ListReadable
<1> QED BY <1>1, <1>2, <1>3 DEF MetaOK

\* A step of one job that touches no other job, no list but of its own id, and no metadata.
LEMMA JobSnapshots ==
    ASSUME SnapshotInv, StorageInv', NEW c \in Clients, Held' \subseteq Held, clock <= clock',
           \A d \in Clients \ {c} : job'[d] = job[d] /\ handle'[d] = handle[d],
           Stamped(c)' =>
               /\ handle'[c] = handle[c]
               /\ \/ Stamped(c) /\ job'[c].id = job[c].id
                  \/ job'[c].id = clock /\ clock < clock'
               /\ job'[c].phase = "fill" => mlist'[job'[c].id] = Truncated
               /\ job'[c].phase = "commit" => mlist'[job'[c].id] = job'[c].manifest,
           \/ mlist' = mlist
           \/ /\ Stamped(c)
              /\ \A id \in Millis : id # job[c].id => mlist'[id] = mlist[id]
    PROVE  SnapshotInv'
<1>1. /\ \A m \in Held : \A i \in SnapshotAt(m) : m.log[i].id \in Millis /\ m.log[i].id < clock
      /\ \A d \in Clients : Stamped(d) => job[d].id \in Millis /\ job[d].id < clock
      /\ clock \in Int /\ clock' \in Int
  <2>1. \A s \in Snapshots : s.id \in Millis
    BY DEF Snapshots
  <2>2. \A m \in Held : \A i \in SnapshotAt(m) : m.log[i].id \in Millis /\ m.log[i].id < clock
    BY <2>1, HeldType, LastIdType DEF SnapshotInv, MetaOK
  <2>3. \A d \in Clients : Stamped(d) => job[d].id \in Millis /\ job[d].id < clock
    BY DEF SnapshotInv, StorageInv, JobsOK, JobIdsOK, Stamped
  <2> QED BY <2>2, <2>3, TableAssumption DEF SnapshotInv, StorageInv, TypeOK
<1>2. \A m \in Held : \A i \in SnapshotAt(m) : mlist'[m.log[i].id] = mlist[m.log[i].id]
  BY <1>1 DEF SnapshotInv, JobIdsOK
<1>3. \A m \in Held : MetaOK(m)'
  <2> SUFFICES ASSUME NEW m \in Held PROVE MetaOK(m)'
    OBVIOUS
  <2>1. MetaOK(m) /\ StorageInv
    BY DEF SnapshotInv
  <2> QED BY <1>1, <1>2, <2>1, MetaStays
<1>4. \A m \in Held' : MetaOK(m)'
  BY <1>3
<1>5. JobIdsOK'
  <2> SUFFICES ASSUME NEW d \in Clients, Stamped(d)'
               PROVE  /\ job'[d].id < clock'
                      /\ \A e \in Clients \ {d} : Stamped(e)' => job'[e].id # job'[d].id
                      /\ \A m \in Held' : \A i \in SnapshotAt(m) : m.log[i].id # job'[d].id
                      /\ \A i \in SnapshotAt(handle'[d].meta) : handle'[d].meta.log[i].id < job'[d].id
                      /\ job'[d].phase = "fill" => mlist'[job'[d].id] = Truncated
                      /\ job'[d].phase = "commit" => mlist'[job'[d].id] = job'[d].manifest
    BY DEF JobIdsOK, SnapshotAt
  <2>1. \A e \in Clients \ {c} : Stamped(e)' <=> Stamped(e)
    BY DEF Stamped
  <2>2. \A e \in Clients : Stamped(e)' =>
            \/ Stamped(e) /\ job'[e].id = job[e].id
            \/ e = c /\ job'[e].id = clock /\ clock < clock'
    BY <2>1
  <2>3. handle'[d] = handle[d] /\ handle[d] # None /\ handle[d].meta \in Held
    <3>1. handle'[d] = handle[d]
      BY DEF Stamped
    <3>2. handle'[d] # None
      BY DEF StorageInv, JobsOK, Stamped
    <3> QED BY <3>1, <3>2, HeldNow
  <2>4. job'[d].id < clock'
    <3>1. Millis \subseteq Int
      BY DEF Millis
    <3>2. CASE Stamped(d) /\ job'[d].id = job[d].id
      <4>1. job[d].id \in Int /\ job[d].id < clock
        BY <1>1, <3>1, <3>2
      <4> QED BY <1>1, <3>2, <4>1
    <3>3. CASE job'[d].id = clock /\ clock < clock'
      BY <3>3
    <3> QED BY <2>2, <3>2, <3>3
  <2>5. ASSUME NEW e \in Clients \ {d}, Stamped(e)' PROVE job'[e].id # job'[d].id
    <3>1. CASE Stamped(d) /\ job'[d].id = job[d].id /\ Stamped(e) /\ job'[e].id = job[e].id
      BY <3>1 DEF SnapshotInv, JobIdsOK
    <3>2. CASE d = c /\ job'[d].id = clock /\ Stamped(e) /\ job'[e].id = job[e].id
      BY <1>1, <3>2
    <3>3. CASE e = c /\ job'[e].id = clock /\ Stamped(d) /\ job'[d].id = job[d].id
      BY <1>1, <3>3
    <3> QED BY <2>2, <2>5, <3>1, <3>2, <3>3
  <2>6. ASSUME NEW m \in Held, NEW i \in SnapshotAt(m)
        PROVE  m.log[i].id # job'[d].id /\ (m = handle[d].meta => m.log[i].id < job'[d].id)
    <3>1. CASE Stamped(d) /\ job'[d].id = job[d].id
      BY <3>1 DEF SnapshotInv, JobIdsOK
    <3>2. CASE job'[d].id = clock
      BY <1>1, <3>2
    <3> QED BY <2>2, <3>1, <3>2
  <2>7. /\ job'[d].phase = "fill" => mlist'[job'[d].id] = Truncated
        /\ job'[d].phase = "commit" => mlist'[job'[d].id] = job'[d].manifest
    <3>1. CASE d = c
      BY <3>1
    <3>2. CASE d # c
      <4>1. Stamped(d) /\ job'[d] = job[d]
        BY <2>1, <3>2
      <4>2. mlist'[job[d].id] = mlist[job[d].id]
        BY <1>1, <3>2, <4>1 DEF SnapshotInv, JobIdsOK
      <4> QED BY <4>1, <4>2 DEF SnapshotInv, JobIdsOK
    <3> QED BY <3>1, <3>2
  <2> QED BY <2>3, <2>4, <2>5, <2>6, <2>7
<1> QED BY <1>4, <1>5 DEF SnapshotInv

\* A step of the catalog: what it makes has no snapshot, and no job is part of it.
LEMMA CatalogSnapshots ==
    ASSUME SnapshotInv, NEW c \in Clients, CatalogStep(c) \/ CatalogFails(c)
    PROVE  SnapshotInv'
<1>1. StorageInv'
  BY CatalogStorage DEF SnapshotInv
<1>2. clock' = clock /\ mlist' = mlist /\ job' = job
  BY DEF CatalogStep, CatalogFails, tableVars
<1>3. \A m \in Held' : m \in Held \/ SnapshotAt(m) = {}
  BY HeldCatalog DEF SnapshotInv, SnapshotAt
<1>4. \A m \in Held' : MetaOK(m)'
  <2>1. ASSUME NEW m \in Held PROVE MetaOK(m)'
    BY <1>2, <2>1 DEF SnapshotInv, MetaOK, ListReadable, Live, LastId, SnapshotAt
  <2>2. ASSUME NEW m, SnapshotAt(m) = {} PROVE MetaOK(m)'
    BY <2>2 DEF MetaOK, SnapshotAt
  <2> QED BY <1>3, <2>1, <2>2
<1>5. ASSUME NEW d \in Clients, job[d] # None PROVE handle'[d] = handle[d]
  <2>1. job[c] = None
    BY DEF CatalogStep, CatalogFails, MayWrite, NoJob, Cat!LoadMeta, Cat!Write, Cat!Put, Cat!Fill,
           Cat!Point, Cat!PointReplyLost, Cat!UnlinkHint, Cat!Fail, Cat!Crash, Cat!Raise,
           SnapshotInv, StorageInv, JobsOK
  <2> QED BY <1>5, <2>1, OthersSame DEF SnapshotInv, StorageInv, TypeOK
<1>6. JobIdsOK'
  <2> SUFFICES ASSUME NEW d \in Clients, Stamped(d)
               PROVE  /\ job[d].id < clock
                      /\ \A e \in Clients \ {d} : Stamped(e) => job[e].id # job[d].id
                      /\ \A m \in Held' : \A i \in SnapshotAt(m) : m.log[i].id # job[d].id
                      /\ \A i \in SnapshotAt(handle[d].meta) : handle[d].meta.log[i].id < job[d].id
                      /\ job[d].phase = "fill" => mlist[job[d].id] = Truncated
                      /\ job[d].phase = "commit" => mlist[job[d].id] = job[d].manifest
    BY <1>2, <1>5 DEF JobIdsOK, Stamped, SnapshotAt
  <2> QED BY <1>3 DEF SnapshotInv, JobIdsOK
<1> QED BY <1>1, <1>4, <1>6 DEF SnapshotInv

\* The steps of a write before its commit.
LEMMA WriteSnapshots ==
    ASSUME SnapshotInv, UniqueMillis, NEW c \in Clients,
           \/ \E op \in Ops, parts \in SUBSET Partitions : StartWrite(c, op, parts)
           \/ \E p \in Partitions : WriteParquet(c, p)
           \/ Stamp(c) \/ ReadLive(c) \/ WriteManifest(c)
           \/ CommitRejected(c) \/ AbortWrite(c)
    PROVE  SnapshotInv'
<1>1. StorageInv'
  BY StartWriteStorage, WriteParquetStorage, StampStorage, ReadLiveStorage, WriteManifestStorage,
     CommitStorage DEF SnapshotInv
<1>2. /\ mlist' = mlist
      /\ \/ UNCHANGED catalogVars
         \/ /\ UNCHANGED <<vfile, pc, work>>
            /\ handle' = [handle EXCEPT ![c] = None] \/ handle' = handle
  BY DEF StartWrite, WriteParquet, Stamp, ReadLive, WriteManifest, CommitRejected, AbortWrite
<1>3. Held' \subseteq Held
  BY <1>2, HeldJob DEF SnapshotInv
<1>4. \A d \in Clients \ {c} : job'[d] = job[d] /\ handle'[d] = handle[d]
  <2>1. \A d \in Clients \ {c} : handle'[d] = handle[d]
    BY <1>2 DEF catalogVars, SnapshotInv, StorageInv, TypeOK, Cat!TypeOK
  <2>2. \E j : job' = [job EXCEPT ![c] = j]
    BY DEF StartWrite, WriteParquet, Stamp, ReadLive, WriteManifest, CommitRejected, AbortWrite,
           SnapshotInv, StorageInv, TypeOK
  <2> QED BY <2>1, <2>2 DEF SnapshotInv, StorageInv, TypeOK
<1>5. clock <= clock'
  <2>1. clock \in Int
    BY TableAssumption DEF SnapshotInv, StorageInv, TypeOK
  <2>2. clock' = clock \/ clock' = clock + 1
    BY DEF StartWrite, WriteParquet, Stamp, ReadLive, WriteManifest, CommitRejected, AbortWrite
  <2> QED BY <2>1, <2>2
<1>6. ASSUME Stamped(c)'
      PROVE  /\ handle'[c] = handle[c]
             /\ \/ Stamped(c) /\ job'[c].id = job[c].id
                \/ job'[c].id = clock /\ clock < clock'
             /\ job'[c].phase \notin {"fill", "commit"}
  <2> USE DEF SnapshotInv, StorageInv, TypeOK
  <2>1. CASE \/ \E op \in Ops, parts \in SUBSET Partitions : StartWrite(c, op, parts)
             \/ \E p \in Partitions : WriteParquet(c, p)
    <3>1. \E j : j.phase = "parquet" /\ job' = [job EXCEPT ![c] = j]
      <4>1. ASSUME NEW op \in Ops, NEW parts \in SUBSET Partitions, StartWrite(c, op, parts)
            PROVE  \E j : j.phase = "parquet" /\ job' = [job EXCEPT ![c] = j]
        BY <4>1 DEF StartWrite
      <4>2. ASSUME NEW p \in Partitions, WriteParquet(c, p)
            PROVE  \E j : j.phase = "parquet" /\ job' = [job EXCEPT ![c] = j]
        <5>1. job[c] \in Jobs /\ job[c].phase = "parquet"
          BY <4>2, JobType DEF WriteParquet
        <5> DEFINE j == [job[c] EXCEPT !.todo = @ \ {p}, !.new = @ \cup {NewFile(p)}]
        <5>2. job' = [job EXCEPT ![c] = j]
          BY <4>2 DEF WriteParquet
        <5>3. j.phase = "parquet"
          BY <5>1 DEF Jobs
        <5> QED BY <5>2, <5>3
      <4> QED BY <2>1, <4>1, <4>2
    <3>2. job'[c].phase = "parquet"
      BY <3>1
    <3> QED BY <1>6, <3>2 DEF Stamped
  <2>2. CASE Stamp(c)
    <3>1. job[c] \in Jobs /\ clock \in Int
      BY <2>2, JobType, TableAssumption DEF Stamp, Millis
    <3> QED BY <2>2, <3>1 DEF Stamp, Stamped, Jobs, catalogVars
  <2>3. CASE ReadLive(c) \/ WriteManifest(c)
    <3>1. job[c] \in Jobs
      BY <2>3, JobType DEF ReadLive, WriteManifest
    <3> QED BY <1>6, <2>3, <3>1 DEF ReadLive, WriteManifest, Stamped, Jobs, catalogVars
  <2>4. CASE CommitRejected(c) \/ AbortWrite(c)
    BY <1>6, <2>4 DEF CommitRejected, AbortWrite, Stamped
  <2> QED BY <2>1, <2>2, <2>3, <2>4
<1> QED BY <1>1, <1>2, <1>3, <1>4, <1>5, <1>6, JobSnapshots

\* The manifest list of a write has a name of its own, so nobody else is writing it.
LEMMA ListSnapshots ==
    ASSUME SnapshotInv, NEW c \in Clients, WriteList(c) \/ FillList(c)
    PROVE  SnapshotInv'
<1>1. /\ StorageInv'
      /\ job[c].phase \in {"list", "fill"} /\ job[c].id \in Millis
      /\ job'[c].id = job[c].id /\ job'[c].manifest = job[c].manifest
      /\ \A d \in Clients \ {c} : job'[d] = job[d]
  BY WriteListStorage DEF SnapshotInv
<1>2. UNCHANGED <<catalogVars, clock, files, failures>> /\ job[c] # None /\ Stamped(c)
  BY <1>1 DEF WriteList, FillList, Stamped
<1>3. Held' \subseteq Held
  BY <1>2, HeldJob DEF SnapshotInv
<1>4. \A id \in Millis : id # job[c].id => mlist'[id] = mlist[id]
  BY DEF WriteList, FillList, SnapshotInv, StorageInv, TypeOK
<1>5. /\ job'[c].phase = "fill" => mlist'[job[c].id] = Truncated
      /\ job'[c].phase = "commit" => mlist'[job[c].id] = job[c].manifest
  <2>1. job[c] \in Jobs /\ job \in [Clients -> Jobs \cup {None}] /\ mlist \in [Millis -> Manifests \cup {None, Truncated}]
    BY <1>2, JobType DEF SnapshotInv, StorageInv, TypeOK
  <2>2. CASE WriteList(c)
    BY <1>1, <2>1, <2>2 DEF WriteList, Jobs
  <2>3. CASE FillList(c)
    <3>1. mlist[job[c].id] = Truncated
      BY <1>2, <2>3 DEF FillList, SnapshotInv, JobIdsOK
    <3>2. \A d \in Clients \ {c} : job[d] # None /\ job[d].phase = "fill" => job[d].id # job[c].id
      BY <1>2 DEF SnapshotInv, JobIdsOK, Stamped
    <3>3. mlist' = [mlist EXCEPT ![job[c].id] = job[c].manifest]
      BY <2>3, <3>1, <3>2 DEF FillList
    <3>4. job'[c].phase = "commit"
      BY <2>1, <2>3 DEF FillList, Jobs
    <3> QED BY <1>1, <2>1, <3>3, <3>4
  <2> QED BY <2>2, <2>3
<1>6. handle' = handle /\ clock' = clock /\ clock \in Int
  BY <1>2, TableAssumption DEF catalogVars, SnapshotInv, StorageInv, TypeOK
<1> QED BY <1>1, <1>2, <1>3, <1>4, <1>5, <1>6, JobSnapshots

\* A commit adds to the end of the log, so what is in it already reads as before.
LEMMA LogGrows ==
    ASSUME NEW m \in Cat!Metadata, NEW x \in TableChanges, NEW n, n = Cat!WithChange(m, x)
    PROVE  /\ SnapshotAt(n) = SnapshotAt(m) \cup
                 (IF x.kind = "snapshot" THEN {Len(m.log) + 1} ELSE {})
           /\ n.log[Len(m.log) + 1] = x
           /\ \A i \in SnapshotAt(m) : i \in 1 .. Len(m.log) /\ n.log[i] = m.log[i]
           /\ \A at \in SUBSET SnapshotAt(m) : LastId(n, at) = LastId(m, at)
<1>1. m.log \in Seq(TableChanges) /\ n.log = Append(m.log, x)
  BY DEF Cat!Metadata, Cat!WithChange
<1>2. /\ Len(m.log) \in Nat /\ DOMAIN m.log = 1 .. Len(m.log)
      /\ DOMAIN n.log = 1 .. Len(m.log) + 1
      /\ n.log[Len(m.log) + 1] = x
      /\ \A i \in 1 .. Len(m.log) : n.log[i] = m.log[i]
  BY <1>1
<1>3. SnapshotAt(n) = SnapshotAt(m) \cup (IF x.kind = "snapshot" THEN {Len(m.log) + 1} ELSE {})
  BY <1>2 DEF SnapshotAt
<1>4. \A i \in SnapshotAt(m) : i \in 1 .. Len(m.log) /\ n.log[i] = m.log[i]
  BY <1>2 DEF SnapshotAt
<1>5. \A at \in SUBSET SnapshotAt(m) : LastId(n, at) = LastId(m, at)
  <2> SUFFICES ASSUME NEW at \in SUBSET SnapshotAt(m), at # {}
               PROVE  n.log[Max(at)] = m.log[Max(at)]
    BY DEF LastId
  <2>1. Max(at) \in at
    BY LastIdType
  <2> QED BY <2>1, <1>4
<1> QED BY <1>2, <1>3, <1>4, <1>5

\* What the snapshot of a commit has to be for the version it makes to be good.
LEMMA MetaGrows ==
    ASSUME StorageInv, NEW m \in Held, MetaOK(m), NEW x \in TableChanges,
           clock' = clock, mlist' = mlist, NEW n, n = Cat!WithChange(m, x),
           x.kind = "snapshot" =>
               /\ x.id < clock /\ ListReadable(x.id) /\ Live(mlist[x.id]) = x.shows
               /\ x.parent < x.id /\ x.parent = CurrentId(m)
    PROVE  MetaOK(n)'
<1> USE HeldType
<1>1. /\ SnapshotAt(n) = SnapshotAt(m) \cup (IF x.kind = "snapshot" THEN {Len(m.log) + 1} ELSE {})
      /\ n.log[Len(m.log) + 1] = x
      /\ \A i \in SnapshotAt(m) : i \in 1 .. Len(m.log) /\ n.log[i] = m.log[i]
      /\ \A at \in SUBSET SnapshotAt(m) : LastId(n, at) = LastId(m, at)
  BY LogGrows
<1>2. Len(m.log) \in Nat
  BY DEF Cat!Metadata
<1> SUFFICES ASSUME NEW i \in SnapshotAt(n)
             PROVE  /\ n.log[i].id < clock
                    /\ ListReadable(n.log[i].id)
                    /\ Live(mlist[n.log[i].id]) = n.log[i].shows
                    /\ n.log[i].parent < n.log[i].id
                    /\ n.log[i].parent = LastId(n, {k \in SnapshotAt(n) : k < i})
  BY DEF MetaOK, ListReadable, Live, SnapshotAt, LastId
<1>3. CASE i \in SnapshotAt(m)
  <2>1. {k \in SnapshotAt(n) : k < i} = {k \in SnapshotAt(m) : k < i}
    BY <1>1, <1>2, <1>3
  <2>2. n.log[i] = m.log[i] /\ LastId(n, {k \in SnapshotAt(n) : k < i}) = LastId(m, {k \in SnapshotAt(m) : k < i})
    BY <1>1, <1>3, <2>1
  <2> QED BY <1>3, <2>2 DEF MetaOK
<1>4. CASE i \notin SnapshotAt(m)
  <2>1. x.kind = "snapshot" /\ i = Len(m.log) + 1 /\ n.log[i] = x
    BY <1>1, <1>4
  <2>2. {k \in SnapshotAt(n) : k < i} = SnapshotAt(m)
    <3>1. SnapshotAt(n) = SnapshotAt(m) \cup {i} /\ i \in Int
      BY <1>1, <1>2, <2>1
    <3>2. \A k \in SnapshotAt(m) : k < i
      BY <1>1, <1>2, <2>1
    <3>3. ~(i < i)
      BY <3>1
    <3> QED BY <3>1, <3>2, <3>3
  <2>3. LastId(n, {k \in SnapshotAt(n) : k < i}) = CurrentId(m)
    BY <1>1, <2>2 DEF CurrentId
  <2> QED BY <2>1, <2>3
<1> QED BY <1>3, <1>4

\* A commit: the write gives up its id, which is now that of a snapshot.
LEMMA CommitSnapshots ==
    ASSUME SnapshotInv, NEW c \in Clients, CommitWrite(c)
    PROVE  SnapshotInv'
<1> DEFINE m == handle[c].meta
           x == NewSnapshot(c)
<1>1. /\ StorageInv /\ StorageInv' /\ job[c].phase = "commit" /\ Stamped(c)
      /\ Cat!CommitCheck(c, x) /\ job' = [job EXCEPT ![c] = None]
      /\ clock' = clock /\ mlist' = mlist /\ handle' = handle
  BY CommitStorage DEF SnapshotInv, CommitWrite, Cat!CommitCheck, Stamped
<1>2. m \in Held /\ m \in Cat!Metadata /\ MetaOK(m)
  BY <1>1, HeldNow, HeldType DEF Cat!CommitCheck, SnapshotInv
<1>3. x \in Snapshots /\ x \in TableChanges /\ job[c].id \in Millis
  BY <1>1, SnapshotType DEF TableChanges, StorageInv, JobsOK, Stamped
<1>4. /\ x.id = job[c].id /\ x.shows = Live(job[c].manifest) /\ x.parent = CurrentId(m)
  BY DEF NewSnapshot
<1>5. /\ x.id < clock /\ mlist[x.id] = job[c].manifest
      /\ job[c].manifest \in Manifests
      /\ \A i \in SnapshotAt(m) : m.log[i].id < x.id
  BY <1>1, <1>4 DEF SnapshotInv, JobIdsOK, StorageInv, JobsOK, Stamped
<1>6. ListReadable(x.id) /\ Live(mlist[x.id]) = x.shows
  BY <1>4, <1>5, SentinelsAssumption DEF ListReadable
<1>7. x.parent < x.id
  <2>1. CASE SnapshotAt(m) = {}
    <3>1. CurrentId(m) = 0
      BY <2>1 DEF CurrentId, LastId
    <3> QED BY <3>1, <1>3, <1>4 DEF Millis
  <2>2. CASE SnapshotAt(m) # {}
    <3>1. \E i \in SnapshotAt(m) : CurrentId(m) = m.log[i].id
      BY <1>2, <2>2, LastIdType DEF CurrentId
    <3> QED BY <3>1, <1>4, <1>5
  <2> QED BY <2>1, <2>2
<1> HIDE DEF x
<1>8. \A n : n = Cat!WithChange(m, x) => MetaOK(n)'
  BY <1>1, <1>2, <1>3, <1>4, <1>5, <1>6, <1>7, MetaGrows
<1>9. Held' \subseteq Held \cup {Cat!WithChange(m, x)}
  BY <1>1, HeldCommit
<1>10. \A k \in Held : MetaOK(k)'
  BY <1>1 DEF SnapshotInv, MetaOK, ListReadable, Live, LastId, SnapshotAt
<1>11. \A k \in Held' : MetaOK(k)'
  BY <1>8, <1>9, <1>10
<1>12. \A d \in Clients : Stamped(d)' => d # c /\ Stamped(d) /\ job'[d] = job[d]
  BY <1>1 DEF Stamped, StorageInv, TypeOK
<1>13. JobIdsOK'
  <2> SUFFICES ASSUME NEW d \in Clients \ {c}, Stamped(d), job'[d] = job[d]
               PROVE  /\ job[d].id < clock
                      /\ \A e \in Clients \ {c, d} : Stamped(e) => job[e].id # job[d].id
                      /\ \A k \in Held' : \A i \in SnapshotAt(k) : k.log[i].id # job[d].id
                      /\ \A i \in SnapshotAt(handle[d].meta) : handle[d].meta.log[i].id < job[d].id
                      /\ job[d].phase = "fill" => mlist[job[d].id] = Truncated
                      /\ job[d].phase = "commit" => mlist[job[d].id] = job[d].manifest
    BY <1>1, <1>12 DEF JobIdsOK, SnapshotAt
  <2>1. ASSUME NEW k, k = Cat!WithChange(m, x), NEW i \in SnapshotAt(k)
        PROVE  k.log[i].id # job[d].id
    <3>1. k.log[i] = x \/ (i \in SnapshotAt(m) /\ k.log[i] = m.log[i])
      BY <1>2, <1>3, <2>1, LogGrows
    <3> QED BY <1>1, <1>2, <1>4, <3>1 DEF SnapshotInv, JobIdsOK
  <2>2. \A k \in Held' : \A i \in SnapshotAt(k) : k.log[i].id # job[d].id
    BY <1>9, <2>1 DEF SnapshotInv, JobIdsOK
  <2> QED BY <2>2 DEF SnapshotInv, JobIdsOK
<1> QED BY <1>1, <1>11, <1>13 DEF SnapshotInv

\* A change of the schema adds no snapshot.
LEMMA AddColumnSnapshots ==
    ASSUME SnapshotInv, NEW c \in Clients, AddColumn(c)
    PROVE  SnapshotInv'
<1> DEFINE m == handle[c].meta
           x == [kind |-> "schema"]
<1>1. /\ StorageInv /\ StorageInv' /\ job' = job
      /\ Cat!CommitCheck(c, x) /\ x \in TableChanges /\ x.kind # "snapshot"
      /\ clock' = clock /\ mlist' = mlist /\ handle' = handle
  BY AddColumnStorage DEF SnapshotInv, AddColumn, Cat!CommitCheck, tableVars, TableChanges, Schemas
<1>2. m \in Held /\ m \in Cat!Metadata /\ MetaOK(m)
  BY <1>1, HeldNow, HeldType DEF Cat!CommitCheck, SnapshotInv
<1> HIDE DEF x
<1>3. \A n : n = Cat!WithChange(m, x) => MetaOK(n)'
  BY <1>1, <1>2, MetaGrows
<1>4. Held' \subseteq Held \cup {Cat!WithChange(m, x)}
  BY <1>1, HeldCommit
<1>5. \A k \in Held : MetaOK(k)'
  BY <1>1 DEF SnapshotInv, MetaOK, ListReadable, Live, LastId, SnapshotAt
<1>6. \A n : n = Cat!WithChange(m, x) =>
         \A i \in SnapshotAt(n) : i \in SnapshotAt(m) /\ n.log[i] = m.log[i]
  BY <1>1, <1>2, LogGrows
<1>7. JobIdsOK'
  <2> SUFFICES ASSUME NEW d \in Clients, Stamped(d)
               PROVE  /\ job[d].id < clock
                      /\ \A e \in Clients \ {d} : Stamped(e) => job[e].id # job[d].id
                      /\ \A k \in Held' : \A i \in SnapshotAt(k) : k.log[i].id # job[d].id
                      /\ \A i \in SnapshotAt(handle[d].meta) : handle[d].meta.log[i].id < job[d].id
                      /\ job[d].phase = "fill" => mlist[job[d].id] = Truncated
                      /\ job[d].phase = "commit" => mlist[job[d].id] = job[d].manifest
    BY <1>1 DEF JobIdsOK, SnapshotAt, Stamped
  <2>1. \A k \in Held' : \A i \in SnapshotAt(k) : k.log[i].id # job[d].id
    BY <1>2, <1>4, <1>6 DEF SnapshotInv, JobIdsOK
  <2> QED BY <2>1 DEF SnapshotInv, JobIdsOK
<1>8. \A k \in Held' : MetaOK(k)'
  BY <1>3, <1>4, <1>5
<1> QED BY <1>1, <1>7, <1>8 DEF SnapshotInv

LEMMA SnapshotInit == Init => SnapshotInv
<1> SUFFICES ASSUME Init PROVE SnapshotInv
  OBVIOUS
<1>1. StorageInv
  BY StorageInit
<1>2. Held = {}
  BY SentinelsAssumption DEF Init, Cat!Init, Held, Building, Cat!Readable
<1>3. \A c \in Clients : ~Stamped(c)
  BY DEF Init, Stamped
<1> QED BY <1>1, <1>2, <1>3 DEF SnapshotInv, JobIdsOK

LEMMA SnapshotStep ==
    ASSUME UniqueMillis PROVE SnapshotInv /\ [Next]_vars => SnapshotInv'
<1> SUFFICES ASSUME SnapshotInv, [Next]_vars PROVE SnapshotInv'
  OBVIOUS
<1>1. CASE UNCHANGED vars
  <2>1. StorageInv'
    BY StorageStep DEF SnapshotInv
  <2>2. Held' = Held
    BY <1>1 DEF vars, catalogVars, Held, Building, Cat!Readable, Cat!Versions
  <2>3. \A m \in Held : MetaOK(m)'
    BY <1>1 DEF vars, tableVars, SnapshotInv, MetaOK, ListReadable, Live, LastId, SnapshotAt
  <2>4. JobIdsOK'
    BY <1>1, <2>2 DEF vars, catalogVars, tableVars, SnapshotInv, JobIdsOK, Stamped, SnapshotAt
  <2> QED BY <2>1, <2>2, <2>3, <2>4 DEF SnapshotInv
<1>2. ASSUME NEW c \in Clients, WriteStep(c) PROVE SnapshotInv'
  BY <1>2, WriteSnapshots, ListSnapshots, CommitSnapshots, AddColumnSnapshots DEF WriteStep
<1> QED BY <1>1, <1>2, CatalogSnapshots DEF Next

LEMMA SnapshotInvariant == ASSUME UniqueMillis PROVE Spec => []SnapshotInv
BY SnapshotInit, SnapshotStep, PTL DEF Spec

\* What can be scanned is metadata that somebody holds or has written.
LEMMA ScannableHeld == SnapshotInv => \A meta \in Scannable : meta \in Held /\ MetaOK(meta)
<1> SUFFICES ASSUME SnapshotInv PROVE Scannable \subseteq Held
  BY DEF SnapshotInv
<1>1. hint # 0 => hint \in Cat!Versions
  BY DEF SnapshotInv, StorageInv, TypeOK, Cat!TypeOK, Cat!Versions
<1> QED BY <1>1, HeldNow DEF Scannable

\* An "immutable view of the table at a point in time" (types.py:118): scanning a
\* committed snapshot returns what its writer put in it, whatever is written, fails or
\* is dropped afterwards, provided no two writes are stamped in one millisecond.  That
\* proviso is needed: the run table_same_millisecond breaks the property without it.
THEOREM SnapshotsKeepTheirFiles ==
    ASSUME UniqueMillis PROVE Spec => []SnapshotsImmutable
<1>1. SnapshotInv => SnapshotsImmutable
  BY ScannableHeld DEF SnapshotsImmutable, CommittedSnapshots, MetaOK, ScanFiles
<1> QED BY <1>1, SnapshotInvariant, PTL

\* The parents of the snapshots form one chain in the order of their ids (table.py, _write:
\* parent_id=self.metadata.current_snapshot_id), under the same proviso.
THEOREM LineageIsAChain ==
    ASSUME UniqueMillis PROVE Spec => []LineageOrdered
<1>1. SnapshotInv => LineageOrdered
  BY ScannableHeld DEF LineageOrdered, MetaOK
<1> QED BY <1>1, SnapshotInvariant, PTL


-----------------------------------------------------------------------------
(* Views: one for each snapshot of a version of the metadata, in order.      *)

\* The files that snapshots of the metadata show: the last one, and all of them.
Shown(m)  == IF SnapshotAt(m) = {} THEN {} ELSE m.log[Max(SnapshotAt(m))].shows
SeenIn(m) == UNION {m.log[i].shows : i \in SnapshotAt(m)}

ViewsOf(m) ==
    [n \in 1 .. Cardinality(SnapshotAt(m)) |->
        LET s == m.log[Nth(SnapshotAt(m), n)] IN [op |-> s.op, files |-> s.shows]]

LEMMA FunctionsAreSequences ==
    ASSUME NEW D, NEW n \in Nat, NEW f \in [1 .. n -> D]
    PROVE  f \in Seq(D) /\ Len(f) = n
OBVIOUS

LEMMA PlacesFinite ==
    ASSUME NEW m \in Cat!Metadata
    PROVE  /\ SnapshotAt(m) \in SUBSET Int /\ IsFiniteSet(SnapshotAt(m))
           /\ Cardinality(SnapshotAt(m)) \in Nat
           /\ Len(m.log) \in Nat /\ \A i \in SnapshotAt(m) : i < Len(m.log) + 1
           /\ \A n \in 1 .. Cardinality(SnapshotAt(m)) : Nth(SnapshotAt(m), n) \in SnapshotAt(m)
           /\ \A i \in SnapshotAt(m) : m.log[i] \in Snapshots
<1>1. Len(m.log) \in Nat
  BY DEF Cat!Metadata
<1>2. \A i \in SnapshotAt(m) : i \in 1 .. Len(m.log) /\ m.log[i] \in Snapshots
  BY LastIdType
<1>3. SnapshotAt(m) \in SUBSET (1 .. Len(m.log)) /\ SnapshotAt(m) \in SUBSET Int
  BY <1>1, <1>2
<1>4. IsFiniteSet(1 .. Len(m.log))
  BY <1>1, FS_Interval
<1>5. IsFiniteSet(SnapshotAt(m))
  BY <1>3, <1>4, FS_Subset
<1>6. Cardinality(SnapshotAt(m)) \in Nat
  BY <1>5, FS_CardinalityType
<1>7. ASSUME NEW n \in 1 .. Cardinality(SnapshotAt(m)) PROVE Nth(SnapshotAt(m), n) \in SnapshotAt(m)
  <2>1. \E i \in SnapshotAt(m) : Cardinality({j \in SnapshotAt(m) : j <= i}) = n
    BY <1>3, <1>5, RankReached
  <2> QED BY <2>1 DEF Nth
<1>8. \A i \in SnapshotAt(m) : i < Len(m.log) + 1
  BY <1>1, <1>2
<1> QED BY <1>1, <1>2, <1>3, <1>5, <1>6, <1>7, <1>8

\* A place beyond the others is the next one.
LEMMA NthGrows ==
    ASSUME NEW S \in SUBSET Int, IsFiniteSet(S), NEW b \in Int, \A j \in S : j < b
    PROVE  /\ \A n \in 1 .. Cardinality(S) : Nth(S \cup {b}, n) = Nth(S, n)
           /\ Nth(S \cup {b}, Cardinality(S) + 1) = b
<1> DEFINE T == S \cup {b}
           N == Cardinality(S)
<1>1. /\ N \in Nat /\ Cardinality(T) = N + 1
      /\ \A i \in S : /\ {j \in T : j <= i} = {j \in S : j <= i}
                      /\ Cardinality({j \in S : j <= i}) <= N
      /\ {j \in T : j <= b} = T
  BY RankGrows
<1>2. Cardinality({j \in T : j <= b}) = N + 1
  BY <1>1
<1>3. \A i \in S : Cardinality({j \in T : j <= i}) = Cardinality({j \in S : j <= i})
  BY <1>1
<1>4. \A i \in S : Cardinality({j \in S : j <= i}) \in Nat
  <2> SUFFICES ASSUME NEW i \in S PROVE Cardinality({j \in S : j <= i}) \in Nat
    OBVIOUS
  <2>1. {j \in S : j <= i} \in SUBSET S
    OBVIOUS
  <2> QED BY <2>1, FS_Subset, FS_CardinalityType
<1>5. ASSUME NEW n \in 1 .. N PROVE Nth(T, n) = Nth(S, n)
  <2>1. \A i : i \in T /\ Cardinality({j \in T : j <= i}) = n <=> i \in S /\ Cardinality({j \in S : j <= i}) = n
    <3>1. n # N + 1
      BY <1>1
    <3> QED BY <1>2, <1>3, <3>1
  <2>2. PICK i \in S : Cardinality({j \in S : j <= i}) = n
    BY RankReached
  <2> QED BY <2>1 DEF Nth
<1>6. Nth(T, N + 1) = b
  <2>1. \A i \in T : Cardinality({j \in T : j <= i}) = N + 1 <=> i = b
    <3>1. \A i \in S : Cardinality({j \in T : j <= i}) # N + 1
      BY <1>1, <1>3, <1>4
    <3> QED BY <1>2, <3>1
  <2> QED BY <2>1 DEF Nth
<1> QED BY <1>5, <1>6

\* The views of a version: as many as snapshots, the last of which is the newest.
LEMMA ViewsShow ==
    ASSUME NEW m \in Cat!Metadata
    PROVE  /\ ViewsOf(m) \in Seq([op : Ops, files : SUBSET DataFiles])
           /\ Len(ViewsOf(m)) = Cardinality(SnapshotAt(m))
           /\ \A n \in 1 .. Len(ViewsOf(m)) : ViewsOf(m)[n].files \subseteq SeenIn(m)
           /\ Shown(m) = IF ViewsOf(m) = << >> THEN {} ELSE ViewsOf(m)[Len(ViewsOf(m))].files
           /\ Shown(m) \subseteq SeenIn(m) /\ SeenIn(m) \subseteq DataFiles
<1> DEFINE S == SnapshotAt(m)
           N == Cardinality(S)
           V == ViewsOf(m)
<1>1. /\ S \in SUBSET Int /\ IsFiniteSet(S) /\ N \in Nat /\ Len(m.log) \in Nat
      /\ \A n \in 1 .. N : Nth(S, n) \in S
      /\ \A i \in S : m.log[i] \in Snapshots
  BY PlacesFinite
<1>2. \A s \in Snapshots : s.op \in Ops /\ s.shows \in SUBSET DataFiles
  BY DEF Snapshots
<1>3. /\ DOMAIN V = 1 .. N
      /\ \A n \in 1 .. N : V[n] = [op |-> m.log[Nth(S, n)].op, files |-> m.log[Nth(S, n)].shows]
  BY DEF ViewsOf
<1>4. \A n \in 1 .. N : V[n] \in [op : Ops, files : SUBSET DataFiles]
  <2> SUFFICES ASSUME NEW n \in 1 .. N PROVE V[n] \in [op : Ops, files : SUBSET DataFiles]
    OBVIOUS
  <2>1. m.log[Nth(S, n)].op \in Ops /\ m.log[Nth(S, n)].shows \in SUBSET DataFiles
    BY <1>1, <1>2
  <2> QED BY <1>3, <2>1
<1>5. V \in [1 .. N -> [op : Ops, files : SUBSET DataFiles]]
  <2>1. V = [n \in 1 .. N |-> V[n]]
    BY DEF ViewsOf
  <2> HIDE DEF V
  <2> QED BY <1>4, <2>1
<1>6. V \in Seq([op : Ops, files : SUBSET DataFiles]) /\ Len(V) = N
  <2> HIDE DEF V, N, S
  <2> QED BY <1>1, <1>5, FunctionsAreSequences
<1>7. ASSUME NEW n \in 1 .. N PROVE V[n].files \subseteq SeenIn(m)
  <2>1. V[n].files = m.log[Nth(S, n)].shows /\ Nth(S, n) \in S
    BY <1>1, <1>3
  <2> HIDE DEF V, N
  <2> QED BY <2>1 DEF SeenIn
<1>8. SeenIn(m) \subseteq DataFiles
  BY <1>1, <1>2 DEF SeenIn
<1>9. /\ S = {} => Shown(m) = {} /\ V = << >>
      /\ S # {} => V # << >> /\ Shown(m) = V[N].files /\ Shown(m) \subseteq SeenIn(m)
  <2>1. CASE S = {}
    <3>1. N = 0
      BY <2>1, FS_EmptySet
    <3>2. Len(V) = 0
      BY <1>6, <3>1
    <3> HIDE DEF V, N
    <3>3. V = << >>
      BY <1>6, <3>2
    <3> QED BY <2>1, <3>3 DEF Shown
  <2>2. CASE S # {}
    <3>1. N # 0
      BY <1>1, <2>2, FS_EmptySet
    <3>2. Max(S) \in S /\ \A i \in S : i <= Max(S)
      BY <2>2, LastIdType
    <3>3. {j \in S : j <= Max(S)} = S
      BY <3>2
    <3>4. \A i \in S : Cardinality({j \in S : j <= i}) = N => i = Max(S)
      <4> SUFFICES ASSUME NEW i \in S, Cardinality({j \in S : j <= i}) = N PROVE i = Max(S)
        OBVIOUS
      <4>1. {j \in S : j <= i} \in SUBSET S
        OBVIOUS
      <4>2. {j \in S : j <= i} = S
        BY <1>1, <4>1, FS_Subset
      <4>3. Max(S) <= i /\ i <= Max(S) /\ i \in Int /\ Max(S) \in Int
        BY <1>1, <3>2, <4>2
      <4> QED BY <4>3
    <3>5. Nth(S, N) = Max(S)
      BY <3>2, <3>3, <3>4 DEF Nth
    <3>6. N \in 1 .. N
      BY <1>1, <3>1
    <3>7. V[N].files = m.log[Max(S)].shows
      BY <1>3, <3>5, <3>6
    <3>8. V # << >>
      <4> HIDE DEF V, N
      <4> QED BY <1>6, <3>1
    <3> QED BY <1>7, <2>2, <3>6, <3>7, <3>8 DEF Shown
  <2> QED BY <2>1, <2>2
<1> HIDE DEF V, S, N
<1>10. Shown(m) = IF V = << >> THEN {} ELSE V[Len(V)].files
  BY <1>6, <1>9
<1>11. Shown(m) \subseteq SeenIn(m)
  BY <1>9
<1> QED BY <1>6, <1>7, <1>8, <1>10, <1>11 DEF V, S, N

\* A commit adds at most one view, at the end.
LEMMA ViewsGrow ==
    ASSUME NEW m \in Cat!Metadata, NEW x \in TableChanges, NEW n, n = Cat!WithChange(m, x)
    PROVE  /\ x.kind # "snapshot" => ViewsOf(n) = ViewsOf(m)
           /\ x.kind = "snapshot" =>
                 /\ Len(ViewsOf(n)) = Len(ViewsOf(m)) + 1
                 /\ SubSeq(ViewsOf(n), 1, Len(ViewsOf(m))) = ViewsOf(m)
                 /\ ViewsOf(n)[Len(ViewsOf(n))] = [op |-> x.op, files |-> x.shows]
<1> DEFINE S == SnapshotAt(m)
           N == Cardinality(S)
           b == Len(m.log) + 1
<1>1. /\ S \in SUBSET Int /\ IsFiniteSet(S) /\ N \in Nat /\ b \in Int /\ \A i \in S : i < b
      /\ \A k \in 1 .. N : Nth(S, k) \in S
  BY PlacesFinite
<1>2. /\ SnapshotAt(n) = S \cup (IF x.kind = "snapshot" THEN {b} ELSE {})
      /\ n.log[b] = x
      /\ \A i \in S : n.log[i] = m.log[i]
  BY LogGrows
<1>3. CASE x.kind # "snapshot"
  <2>1. SnapshotAt(n) = S
    BY <1>2, <1>3
  <2>2. \A k \in 1 .. N : n.log[Nth(S, k)] = m.log[Nth(S, k)]
    BY <1>1, <1>2
  <2>3. ViewsOf(n) = [k \in 1 .. N |-> [op |-> n.log[Nth(S, k)].op, files |-> n.log[Nth(S, k)].shows]]
    BY <2>1 DEF ViewsOf
  <2>4. ViewsOf(m) = [k \in 1 .. N |-> [op |-> m.log[Nth(S, k)].op, files |-> m.log[Nth(S, k)].shows]]
    BY DEF ViewsOf
  <2> HIDE DEF S, N
  <2>5. ViewsOf(n) = ViewsOf(m)
    BY <2>2, <2>3, <2>4
  <2> QED BY <1>3, <2>5
<1>4. CASE x.kind = "snapshot"
  <2>1. SnapshotAt(n) = S \cup {b}
    BY <1>2, <1>4
  <2>2. Cardinality(S \cup {b}) = N + 1
    BY <1>1, RankGrows
  <2>3. /\ \A k \in 1 .. N : Nth(S \cup {b}, k) = Nth(S, k)
        /\ Nth(S \cup {b}, N + 1) = b
    BY <1>1, NthGrows
  <2> DEFINE W == ViewsOf(n)
             V == ViewsOf(m)
  <2>4. W = [k \in 1 .. N + 1 |-> [op |-> n.log[Nth(S \cup {b}, k)].op, files |-> n.log[Nth(S \cup {b}, k)].shows]]
    BY <2>1, <2>2 DEF ViewsOf
  <2>5. V = [k \in 1 .. N |-> [op |-> m.log[Nth(S, k)].op, files |-> m.log[Nth(S, k)].shows]]
    BY DEF ViewsOf
  <2>6. \A k \in 1 .. N : n.log[Nth(S \cup {b}, k)] = m.log[Nth(S, k)]
    BY <1>1, <1>2, <2>3
  <2>7. n.log[Nth(S \cup {b}, N + 1)] = x
    BY <1>2, <2>3
  <2> HIDE DEF V, W, S, N, b
  <2>8. ASSUME NEW k \in 1 .. N PROVE k \in 1 .. N + 1 /\ W[k] = V[k]
    <3>1. k \in 1 .. N + 1
      BY <1>1
    <3>2. W[k] = [op |-> n.log[Nth(S \cup {b}, k)].op, files |-> n.log[Nth(S \cup {b}, k)].shows]
      BY <2>4, <3>1
    <3>3. V[k] = [op |-> m.log[Nth(S, k)].op, files |-> m.log[Nth(S, k)].shows]
      BY <2>5
    <3> QED BY <2>6, <3>1, <3>2, <3>3
  <2>9. W[N + 1] = [op |-> x.op, files |-> x.shows]
    BY <1>1, <2>4, <2>7
  <2>10. /\ V \in Seq(UNION {{V[k]} : k \in 1 .. N}) /\ Len(V) = N
         /\ W \in Seq(UNION {{W[k]} : k \in 1 .. N + 1}) /\ Len(W) = N + 1
    <3>1. V \in [1 .. N -> UNION {{V[k]} : k \in 1 .. N}]
      BY <2>5
    <3>2. W \in [1 .. N + 1 -> UNION {{W[k]} : k \in 1 .. N + 1}]
      BY <2>4
    <3>3. N + 1 \in Nat
      BY <1>1
    <3> QED BY <1>1, <3>1, <3>2, <3>3, FunctionsAreSequences
  <2>11. SubSeq(W, 1, N) = V
    BY <1>1, <2>8, <2>10
  <2> QED BY <1>4, <2>9, <2>10, <2>11 DEF V, W
<1> QED BY <1>3, <1>4

-----------------------------------------------------------------------------
(* One table for good and callers who take turns: then what scans return is  *)
(* a TimeTravelTable.                                                        *)

OneLife == SingleWriter /\ \A t, u \in TableIds : t = u

Busy(c) == job[c] # None \/ pc[c] \in Cat!Mutating

OneWriter == \A c, d \in Clients : Busy(c) /\ Busy(d) => c = d

\* The names given so far, so that the next one is new.
Uploaded == {f \in files : f \in DataFiles}

NamesOK == IsFiniteSet(Uploaded) /\ \A f \in Uploaded : f.name <= Cardinality(Uploaded)

\* What the record of a write knows: its new files are in no snapshot, and its manifest
\* has them, in an append together with the files of the snapshot it started from.
Knows(j, held, table) ==
    /\ j.op = "append" => j.todo \cup j.new # {}
    /\ j.phase # "parquet" => j.todo = {}
    /\ \A m \in held : j.new \cap SeenIn(m) = {}
    /\ j.phase \in {"manifest", "list", "fill", "commit"} =>
          Live(j.manifest) = j.new \cup (IF j.op = "append" THEN Shown(table.meta) ELSE {})

JobsKnow == \A c \in Clients : job[c] # None => Knows(job[c], Held, handle[c])

\* A change that may follow the metadata m.
Continues(m, x) ==
    x.kind = "snapshot" =>
        IF x.op = "append"
        THEN /\ Shown(m) \subseteq x.shows /\ x.shows # Shown(m)
             /\ (x.shows \ Shown(m)) \cap SeenIn(m) = {}
        ELSE x.shows \cap SeenIn(m) = {}

BuildsOn ==
    \A c \in Clients : pc[c] \in Building /\ hint # 0 =>
        \E x \in TableChanges :
            work[c].meta = Cat!WithChange(vfile[hint], x) /\ Continues(vfile[hint], x)

ViewsInv == SnapshotInv /\ CatP!HistoryInv /\ OneWriter /\ NamesOK /\ JobsKnow /\ BuildsOn

LEMMA HistoryKept ==
    ASSUME OneLife, StorageInv, CatP!HistoryInv, [Next]_vars
    PROVE  CatP!HistoryInv'
<1>1. CatP!OneLife
  BY TableAssumption DEF OneLife, CatP!OneLife
<1>2. CatP!TypeInv
  BY SameTypes DEF StorageInv, TypeOK
<1>3. ASSUME [CatP!Next]_(CatP!vars) PROVE CatP!HistoryInv'
  BY <1>1, <1>2, <1>3, CatalogAssumed, CatP!HistoryStep
<1>4. CASE UNCHANGED catalogVars
  <2>1. UNCHANGED CatP!vars
    BY <1>4 DEF catalogVars, CatP!vars
  <2> QED BY <1>3, <2>1
<1>5. ASSUME NEW c \in Clients, CatalogStep(c) \/ CatalogFails(c) PROVE CatP!HistoryInv'
  <2>1. CatP!Create(c) \/ CatP!Load(c) \/ CatP!Commit(c) \/ CatP!Write(c) \/ CatP!Drop(c) \/ CatP!Fail(c)
    BY <1>5, SameSteps DEF CatalogStep, CatalogFails
  <2> QED BY <1>3, <2>1 DEF CatP!Next
<1>6. ASSUME NEW c \in Clients, CommitWrite(c) PROVE CatP!HistoryInv'
  <2>1. NewSnapshot(c) \in TableChanges
    BY <1>6, SnapshotType DEF CommitWrite, TableChanges
  <2>2. CatP!Commit(c)
    BY <1>6, <2>1, SameSteps DEF CommitWrite
  <2> QED BY <1>3, <2>2 DEF CatP!Next
<1>7. ASSUME NEW c \in Clients, AddColumn(c) PROVE CatP!HistoryInv'
  <2>1. [kind |-> "schema"] \in TableChanges
    BY DEF TableChanges, Schemas
  <2>2. CatP!Commit(c)
    BY <1>7, <2>1, SameSteps DEF AddColumn
  <2> QED BY <1>3, <2>2 DEF CatP!Next
<1>8. ASSUME NEW c \in Clients, AbortWrite(c) PROVE CatP!HistoryInv'
  <2>1. /\ UNCHANGED <<hint, vfile, pc, work, doomed, born, left>>
        /\ \A d \in Clients : handle'[d] = handle[d] \/ handle'[d] = None
    BY <1>8 DEF AbortWrite, StorageInv, TypeOK, Cat!TypeOK
  <2> USE DEF CatP!HistoryInv
  <2>2. CatP!OneMutator'
    BY <2>1 DEF CatP!OneMutator, CatP!Mutating
  <2>3. CatP!PointerReadable'
    BY <2>1 DEF CatP!PointerReadable, CatP!Readable
  <2>4. CatP!HandlesStored'
    BY <2>1 DEF CatP!HandlesStored
  <2>5. CatP!LoadsKnown'
    BY <2>1 DEF CatP!LoadsKnown
  <2>6. CatP!BuildsNext'
    BY <2>1 DEF CatP!BuildsNext, CatP!Building, CatP!WithChange
  <2>7. CatP!BornOnce'
    BY <2>1 DEF CatP!BornOnce, CatP!Building
  <2> QED BY <2>2, <2>3, <2>4, <2>5, <2>6, <2>7
<1>9. ASSUME NEW c \in Clients, WriteStep(c), ~CommitWrite(c), ~AddColumn(c), ~AbortWrite(c)
      PROVE  UNCHANGED catalogVars
  BY <1>9 DEF WriteStep, StartWrite, WriteParquet, Stamp, ReadLive, WriteManifest, WriteList, FillList,
         CommitRejected
<1>10. CASE UNCHANGED vars
  BY <1>4, <1>10 DEF vars
<1> QED BY <1>4, <1>5, <1>6, <1>7, <1>8, <1>9, <1>10 DEF Next

\* The other clients have the jobs, phases and Table objects they had, and the step of
\* one that was not busy makes it so only while nobody else is.
LEMMA OneStepsAlone ==
    ASSUME SingleWriter, StorageInv, NEW c \in Clients, CatalogStep(c) \/ CatalogFails(c) \/ WriteStep(c)
    PROVE  /\ \A d \in Clients \ {c} : job'[d] = job[d] /\ pc'[d] = pc[d] /\ handle'[d] = handle[d]
           /\ \/ Busy(c)
              \/ ~Busy(c)'
              \/ \A d \in Clients \ {c} : ~Busy(d)
<1> USE DEF StorageInv, TypeOK, Cat!TypeOK
<1>1. CASE CatalogStep(c) \/ CatalogFails(c)
  <2>1. \A d \in Clients \ {c} : pc'[d] = pc[d] /\ handle'[d] = handle[d]
    BY <1>1, OthersSame
  <2>2. job' = job
    BY <1>1 DEF CatalogStep, CatalogFails, tableVars
  <2>3. CASE MayWrite(c)
    BY <2>1, <2>2, <2>3 DEF MayWrite, Busy
  <2>4. CASE Cat!LoadHint(c) \/ Cat!LoadMeta(c) \/ Cat!Fail(c)
    <3>1. pc'[c] \in {"load", "idle"}
      BY <2>4 DEF Cat!LoadHint, Cat!LoadMeta, Cat!Fail, Cat!Crash, Cat!Raise, Cat!Abandon, Cat!Goto
    <3>2. Busy(c)' => Busy(c)
      BY <2>2, <3>1 DEF Busy, Cat!Mutating
    <3> QED BY <2>1, <2>2, <3>2
  <2>5. CASE Cat!Write(c) \/ Cat!UnlinkHint(c)
    <3>1. Busy(c)
      BY <2>5 DEF Busy, Cat!Mutating, Cat!Write, Cat!Put, Cat!Fill, Cat!Point, Cat!PointReplyLost, Cat!UnlinkHint
    <3> QED BY <2>1, <2>2, <3>1
  <2>6. \/ MayWrite(c) \/ Cat!LoadHint(c) \/ Cat!LoadMeta(c) \/ Cat!Fail(c)
        \/ Cat!Write(c) \/ Cat!UnlinkHint(c)
    BY <1>1 DEF CatalogStep, CatalogFails
  <2> QED BY <2>3, <2>4, <2>5, <2>6
<1>2. CASE WriteStep(c)
  <2>1. job' = job \/ \E j : job' = [job EXCEPT ![c] = j]
    <3>1. CASE AddColumn(c)
      BY <3>1 DEF AddColumn, tableVars
    <3>2. CASE ReadLive(c)
      BY <3>2 DEF ReadLive
    <3>3. CASE CommitWrite(c) \/ CommitRejected(c) \/ AbortWrite(c)
      BY <3>3 DEF CommitWrite, CommitRejected, AbortWrite
    <3>4. CASE \E op \in Ops, parts \in SUBSET Partitions : StartWrite(c, op, parts)
      BY <3>4 DEF StartWrite
    <3>5. CASE \E p \in Partitions : WriteParquet(c, p)
      BY <3>5 DEF WriteParquet
    <3>6. CASE Stamp(c) \/ WriteManifest(c) \/ WriteList(c) \/ FillList(c)
      BY <3>6 DEF Stamp, WriteManifest, WriteList, FillList
    <3> QED BY <1>2, <3>1, <3>2, <3>3, <3>4, <3>5, <3>6 DEF WriteStep
  <2>2. \A d \in Clients \ {c} : job'[d] = job[d]
    BY <2>1
  <2>3. \A d \in Clients \ {c} : pc'[d] = pc[d] /\ handle'[d] = handle[d]
    <3>1. CASE UNCHANGED catalogVars
      BY <3>1 DEF catalogVars
    <3>2. CASE CommitWrite(c) \/ AddColumn(c)
      BY <3>2 DEF CommitWrite, AddColumn, Cat!CommitCheck, Cat!Goto
    <3>3. CASE AbortWrite(c)
      BY <3>3 DEF AbortWrite
    <3>4. UNCHANGED catalogVars \/ CommitWrite(c) \/ AddColumn(c) \/ AbortWrite(c)
      BY <1>2 DEF WriteStep, StartWrite, WriteParquet, Stamp, ReadLive, WriteManifest, WriteList, FillList,
             CommitRejected
    <3> QED BY <3>1, <3>2, <3>3, <3>4
  <2>4. CASE MayWrite(c)
    BY <2>2, <2>3, <2>4 DEF MayWrite, Busy
  <2>5. CASE job[c] # None
    BY <2>2, <2>3, <2>5 DEF Busy
  <2>6. MayWrite(c) \/ job[c] # None
    BY <1>2 DEF WriteStep, StartWrite, WriteParquet, Stamp, ReadLive, WriteManifest, WriteList, FillList,
           CommitWrite, CommitRejected, AddColumn, AbortWrite
  <2> QED BY <2>4, <2>5, <2>6
<1> QED BY <1>1, <1>2

LEMMA OneWriterKept ==
    ASSUME SingleWriter, StorageInv, OneWriter, [Next]_vars
    PROVE  OneWriter'
<1>1. CASE UNCHANGED vars
  BY <1>1 DEF vars, catalogVars, tableVars, OneWriter, Busy, Cat!Mutating
<1>2. ASSUME NEW c \in Clients, CatalogStep(c) \/ CatalogFails(c) \/ WriteStep(c) PROVE OneWriter'
  <2>1. \A d \in Clients \ {c} : Busy(d)' <=> Busy(d)
    BY <1>2, OneStepsAlone DEF Busy, Cat!Mutating
  <2>2. Busy(c)' => Busy(c) \/ \A d \in Clients \ {c} : ~Busy(d)
    BY <1>2, OneStepsAlone
  <2> QED BY <2>1, <2>2 DEF OneWriter
<1> QED BY <1>1, <1>2 DEF Next

\* A data file is named one higher than all before it, so it is not one of them.
LEMMA NewFileIsNew ==
    ASSUME NamesOK, NEW p \in Partitions, NewFile(p) \in DataFiles
    PROVE  NewFile(p) \notin files /\ NewFile(p).name = Cardinality(Uploaded) + 1
<1>1. NewFile(p).name = Cardinality(Uploaded) + 1
  BY DEF NewFile, Uploaded
<1>2. Cardinality(Uploaded) \in Nat
  BY FS_CardinalityType DEF NamesOK
<1>3. NewFile(p) \notin Uploaded
  <2> SUFFICES ASSUME NewFile(p) \in Uploaded PROVE FALSE
    OBVIOUS
  <2>1. NewFile(p).name <= Cardinality(Uploaded)
    BY DEF NamesOK
  <2> QED BY <1>1, <1>2, <2>1
<1> QED BY <1>1, <1>3 DEF Uploaded

LEMMA NamesKept ==
    ASSUME StorageInv, NamesOK, [Next]_vars
    PROVE  NamesOK'
<1>1. CASE files' = files
  BY <1>1 DEF NamesOK, Uploaded
<1>2. ASSUME NEW c \in Clients, NEW p \in Partitions, WriteParquet(c, p) PROVE NamesOK'
  <2> DEFINE f == NewFile(p)
  <2>1. f \in DataFiles /\ files' = files \cup {f}
    BY <1>2 DEF WriteParquet
  <2>2. Uploaded' = Uploaded \cup {f}
    BY <2>1 DEF Uploaded
  <2>3. f \notin Uploaded /\ f.name = Cardinality(Uploaded) + 1
    BY <2>1, NewFileIsNew DEF Uploaded
  <2> HIDE DEF f
  <2>4. /\ IsFiniteSet(Uploaded') /\ Cardinality(Uploaded') = Cardinality(Uploaded) + 1
        /\ Cardinality(Uploaded) \in Nat
    BY <2>2, <2>3, FS_AddElement, FS_CardinalityType DEF NamesOK
  <2>5. \A g \in Uploaded : g.name \in Int
    BY DEF Uploaded, DataFiles
  <2>6. \A g \in Uploaded' : g.name <= Cardinality(Uploaded')
    <3>1. ASSUME NEW g \in Uploaded PROVE g.name <= Cardinality(Uploaded) + 1
      BY <2>4, <2>5 DEF NamesOK
    <3>2. f.name <= Cardinality(Uploaded) + 1
      BY <2>3, <2>4
    <3> QED BY <2>2, <2>4, <3>1, <3>2
  <2> QED BY <2>4, <2>6 DEF NamesOK
<1>3. ASSUME NEW c \in Clients, WriteManifest(c) PROVE NamesOK'
  <2>1. job[c].manifest \in Manifests /\ files' = files \cup {job[c].manifest}
    BY <1>3 DEF WriteManifest, StorageInv, JobsOK
  <2>2. \A m \in Manifests : m \notin DataFiles
    <3>1. \A m \in Manifests : DOMAIN m = {"entries"}
      BY DEF Manifests
    <3>2. \A f \in DataFiles : "name" \in DOMAIN f
      BY DEF DataFiles
    <3> QED BY <3>1, <3>2
  <2>3. Uploaded' = Uploaded
    BY <2>1, <2>2 DEF Uploaded
  <2> QED BY <2>3 DEF NamesOK
<1>4. CASE UNCHANGED vars
  BY <1>1, <1>4 DEF vars, tableVars
<1>5. ASSUME NEW c \in Clients, CatalogStep(c) \/ CatalogFails(c) PROVE files' = files
  BY <1>5 DEF CatalogStep, CatalogFails, tableVars
<1>6. ASSUME NEW c \in Clients, WriteStep(c), ~WriteManifest(c), \A p \in Partitions : ~WriteParquet(c, p)
      PROVE  files' = files
  BY <1>6 DEF WriteStep, StartWrite, Stamp, ReadLive, WriteList, FillList, CommitWrite, CommitRejected,
         AddColumn, AbortWrite, tableVars
<1> QED BY <1>1, <1>2, <1>3, <1>4, <1>5, <1>6 DEF Next

\* What snapshots show has been uploaded.
LEMMA SeenIsStored ==
    ASSUME SnapshotInv, NEW m \in Held
    PROVE  SeenIn(m) \subseteq files
<1> SUFFICES ASSUME NEW i \in SnapshotAt(m) PROVE m.log[i].shows \subseteq files
  BY DEF SeenIn
<1>1. m \in Cat!Metadata /\ MetaOK(m)
  BY HeldType DEF SnapshotInv
<1>2. m.log[i] \in Snapshots
  BY <1>1, PlacesFinite
<1>3. m.log[i].id \in Millis
  BY <1>2 DEF Snapshots
<1>4. ListReadable(m.log[i].id) /\ Live(mlist[m.log[i].id]) = m.log[i].shows
  BY <1>1 DEF MetaOK
<1> QED BY <1>3, <1>4 DEF SnapshotInv, StorageInv, ListsOK, Stored

\* What _live_files reads is what the last snapshot was meant to show.
LEMMA LiveIsShown ==
    ASSUME SnapshotInv, NEW m \in Held
    PROVE  (IF CurrentId(m) = 0 THEN {} ELSE ScanFiles(CurrentId(m))) = Shown(m)
<1>1. m \in Cat!Metadata /\ MetaOK(m)
  BY HeldType DEF SnapshotInv
<1>2. CASE SnapshotAt(m) = {}
  BY <1>2 DEF CurrentId, LastId, Shown
<1>3. CASE SnapshotAt(m) # {}
  <2>1. Max(SnapshotAt(m)) \in SnapshotAt(m)
    BY <1>1, <1>3, LastIdType
  <2>2. m.log[Max(SnapshotAt(m))].id \in Millis
    BY <1>1, <2>1, PlacesFinite DEF Snapshots
  <2>3. Live(mlist[m.log[Max(SnapshotAt(m))].id]) = m.log[Max(SnapshotAt(m))].shows
    BY <1>1, <2>1 DEF MetaOK
  <2>4. CurrentId(m) = m.log[Max(SnapshotAt(m))].id /\ CurrentId(m) # 0
    BY <1>3, <2>2 DEF CurrentId, LastId, Millis
  <2> QED BY <1>3, <2>3, <2>4 DEF Shown, ScanFiles
<1> QED BY <1>2, <1>3

\* A job that is alone: what holds of it after a step.
LEMMA JobAlone ==
    ASSUME OneWriter', NEW c \in Clients, Busy(c)',
           job'[c] # None => Knows(job'[c], Held', handle'[c])
    PROVE  JobsKnow'
BY DEF OneWriter, Busy, JobsKnow

LEMMA CatalogKnows ==
    ASSUME SnapshotInv, JobsKnow, NEW c \in Clients, CatalogStep(c) \/ CatalogFails(c)
    PROVE  JobsKnow'
<1>1. StorageInv /\ job' = job
  BY DEF CatalogStep, CatalogFails, tableVars, SnapshotInv
<1>2. \A m \in Held' : m \in Held \/ SeenIn(m) = {}
  <2>1. \A m \in Held' : m \in Held \/ m \in {[uuid |-> id, log |-> << >>] : id \in TableIds}
    BY <1>1, HeldCatalog
  <2>2. \A m \in {[uuid |-> id, log |-> << >>] : id \in TableIds} : SnapshotAt(m) = {}
    BY DEF SnapshotAt
  <2>3. \A m : SnapshotAt(m) = {} => SeenIn(m) = {}
    BY DEF SeenIn
  <2> QED BY <2>1, <2>2, <2>3
<1>3. ASSUME NEW d \in Clients, job[d] # None PROVE handle'[d] = handle[d]
  <2>1. job[c] = None
    BY DEF CatalogStep, CatalogFails, MayWrite, NoJob, Cat!LoadMeta, Cat!Write, Cat!Put, Cat!Fill,
           Cat!Point, Cat!PointReplyLost, Cat!UnlinkHint, Cat!Fail, Cat!Crash, Cat!Raise,
           SnapshotInv, StorageInv, JobsOK
  <2> QED BY <1>3, <2>1, OthersSame DEF SnapshotInv, StorageInv, TypeOK
<1>4. ASSUME NEW d \in Clients, job[d] # None PROVE Knows(job[d], Held', handle[d])
  <2>1. Knows(job[d], Held, handle[d])
    BY <1>4 DEF JobsKnow
  <2>2. \A m \in Held' : job[d].new \cap SeenIn(m) = {}
    BY <1>2, <2>1 DEF Knows
  <2> QED BY <2>1, <2>2 DEF Knows
<1>5. \A d \in Clients : job'[d] # None => Knows(job'[d], Held', handle'[d])
  BY <1>1, <1>3, <1>4
<1> QED BY <1>5 DEF JobsKnow

\* A write before its commit.
LEMMA WriteKnows ==
    ASSUME SnapshotInv, NamesOK, JobsKnow, OneWriter', NEW c \in Clients,
           \/ \E op \in Ops, parts \in SUBSET Partitions : StartWrite(c, op, parts)
           \/ \E p \in Partitions : WriteParquet(c, p)
           \/ Stamp(c) \/ ReadLive(c) \/ WriteManifest(c) \/ WriteList(c) \/ FillList(c)
    PROVE  JobsKnow' \/ job'[c] = None
<1> SUFFICES ASSUME job'[c] # None PROVE Knows(job'[c], Held', handle'[c])
  BY JobAlone DEF Busy
<1>0. /\ StorageInv /\ job \in [Clients -> Jobs \cup {None}] /\ UNCHANGED catalogVars
  BY DEF SnapshotInv, StorageInv, TypeOK, StartWrite, WriteParquet, Stamp, ReadLive, WriteManifest,
         WriteList, FillList
<1>1. Held' \subseteq Held /\ handle' = handle
  BY <1>0, HeldJob DEF catalogVars
<1>2. job[c] # None => job[c] \in Jobs /\ Knows(job[c], Held, handle[c])
  BY <1>0 DEF JobsKnow
<1>3. ASSUME NEW op \in Ops, NEW parts \in SUBSET Partitions, StartWrite(c, op, parts)
      PROVE  Knows(job'[c], Held', handle'[c])
  <2>1. /\ op = "append" => parts # {}
        /\ job'[c] = [op |-> op, todo |-> parts, new |-> {}, id |-> 0, manifest |-> None, phase |-> "parquet"]
    BY <1>0, <1>3 DEF StartWrite
  <2>2. job'[c].op = op /\ job'[c].todo = parts /\ job'[c].new = {} /\ job'[c].phase = "parquet"
    BY <2>1
  <2> QED BY <2>1, <2>2 DEF Knows
<1>4. ASSUME NEW p \in Partitions, WriteParquet(c, p) PROVE Knows(job'[c], Held', handle'[c])
  <2> DEFINE f == NewFile(p)
  <2>0. /\ job[c] \in Jobs /\ job[c].phase = "parquet" /\ f \in DataFiles
        /\ job' = [job EXCEPT ![c] = [job[c] EXCEPT !.todo = @ \ {p}, !.new = @ \cup {f}]]
    BY <1>2, <1>4 DEF WriteParquet
  <2>1. /\ job[c] \in Jobs /\ job[c].phase = "parquet" /\ f \in DataFiles
        /\ job'[c] = [job[c] EXCEPT !.todo = @ \ {p}, !.new = @ \cup {f}]
    BY <1>0, <2>0
  <2>2. f \notin files
    BY <2>1, NewFileIsNew
  <2> HIDE DEF f
  <2>3. /\ job'[c].op = job[c].op /\ job'[c].todo = job[c].todo \ {p} /\ job'[c].new = job[c].new \cup {f}
        /\ job'[c].phase = "parquet"
    BY <2>1 DEF Jobs
  <2>4. \A m \in Held' : (job[c].new \cup {f}) \cap SeenIn(m) = {}
    <3> SUFFICES ASSUME NEW m \in Held PROVE (job[c].new \cup {f}) \cap SeenIn(m) = {}
      BY <1>1
    <3>1. job[c].new \cap SeenIn(m) = {}
      BY <1>2, <1>4 DEF WriteParquet, Knows
    <3>2. f \notin SeenIn(m)
      BY <2>2, SeenIsStored
    <3> QED BY <3>1, <3>2
  <2>5. job'[c].op = "append" => job'[c].todo \cup job'[c].new # {}
    BY <2>3
  <2> QED BY <2>3, <2>4, <2>5 DEF Knows
<1>5. CASE Stamp(c)
  <2>1. /\ job[c] \in Jobs /\ job[c].todo = {} /\ Knows(job[c], Held, handle[c])
        /\ job'[c] = [job[c] EXCEPT !.id = clock, !.phase = "live"]
    BY <1>0, <1>2, <1>5 DEF Stamp
  <2>2. /\ job'[c].op = job[c].op /\ job'[c].todo = {} /\ job'[c].new = job[c].new /\ job'[c].phase = "live"
    BY <2>1 DEF Jobs
  <2> QED BY <1>1, <2>1, <2>2 DEF Knows
<1>6. CASE ReadLive(c)
  <2> DEFINE current == CurrentId(handle[c].meta)
             live == IF current = 0 THEN {} ELSE ScanFiles(current)
             man == ManifestOf(job[c].op, job[c].new, live)
  <2>1. job[c] # None /\ job[c] \in Jobs /\ job[c].phase = "live" /\ Knows(job[c], Held, handle[c])
    BY <1>2, <1>6 DEF ReadLive
  <2>2. job'[c] = [job[c] EXCEPT !.manifest = man, !.phase = "manifest"]
    BY <1>0, <1>6 DEF ReadLive
  <2>3. handle[c].meta \in Held
    BY <1>0, <2>1, HeldNow DEF StorageInv, JobsOK
  <2>4. live = Shown(handle[c].meta)
    BY <2>3, LiveIsShown
  <2>5. handle[c].meta \in Cat!Metadata
    BY <1>0, <2>3, HeldType
  <2>6. Shown(handle[c].meta) \in SUBSET DataFiles
    BY <2>5, ViewsShow
  <2>7. job[c].op \in Ops /\ job[c].new \in SUBSET DataFiles
    BY <2>1 DEF Jobs
  <2> HIDE DEF live
  <2>8. Live(man) = IF job[c].op = "append" THEN job[c].new \cup live ELSE job[c].new
    BY <2>4, <2>6, <2>7, ManifestOfType
  <2> HIDE DEF man
  <2>9. /\ job'[c].op = job[c].op /\ job'[c].todo = job[c].todo /\ job'[c].new = job[c].new
        /\ job'[c].manifest = man /\ job'[c].phase = "manifest"
    BY <2>1, <2>2 DEF Jobs
  <2> QED BY <1>1, <2>1, <2>4, <2>8, <2>9 DEF Knows
<1>7. CASE WriteManifest(c) \/ WriteList(c) \/ FillList(c)
  <2>1. /\ job[c] # None /\ job[c] \in Jobs /\ job[c].phase \in {"manifest", "list", "fill"}
        /\ Knows(job[c], Held, handle[c])
    BY <1>2, <1>7 DEF WriteManifest, WriteList, FillList
  <2>2. PICK phase \in {"list", "fill", "commit"} : job'[c] = [job[c] EXCEPT !.phase = phase]
    BY <1>0, <1>7 DEF WriteManifest, WriteList, FillList
  <2>3. /\ job'[c].op = job[c].op /\ job'[c].todo = job[c].todo /\ job'[c].new = job[c].new
        /\ job'[c].manifest = job[c].manifest
    BY <2>1, <2>2 DEF Jobs
  <2>4. job[c].todo = {} /\ Live(job[c].manifest) = job[c].new \cup (IF job[c].op = "append" THEN Shown(handle[c].meta) ELSE {})
    BY <2>1 DEF Knows
  <2> QED BY <1>1, <2>1, <2>3, <2>4 DEF Knows
<1> QED BY <1>3, <1>4, <1>5, <1>6, <1>7

LEMMA KnowsKept ==
    ASSUME SnapshotInv, NamesOK, JobsKnow, SingleWriter, OneWriter, OneWriter', [Next]_vars
    PROVE  JobsKnow'
<1>1. CASE UNCHANGED vars
  <2>1. Held' = Held
    BY <1>1 DEF vars, catalogVars, Held, Building, Cat!Readable, Cat!Versions
  <2> QED BY <1>1, <2>1 DEF vars, catalogVars, tableVars, JobsKnow
<1>2. ASSUME NEW c \in Clients, WriteStep(c) PROVE JobsKnow'
  <2>1. CASE /\ job'[c] = None
             /\ \A d \in Clients \ {c} : job[d] = None
    <3>1. \A d \in Clients \ {c} : job'[d] = job[d]
      BY <1>2, OneStepsAlone DEF SnapshotInv
    <3> QED BY <2>1, <3>1 DEF JobsKnow
  <2>2. \A d \in Clients \ {c} : job[d] = None
    <3>1. MayWrite(c) \/ job[c] # None
      BY <1>2 DEF WriteStep, StartWrite, WriteParquet, Stamp, ReadLive, WriteManifest, WriteList, FillList,
             CommitWrite, CommitRejected, AddColumn, AbortWrite
    <3> QED BY <3>1 DEF MayWrite, OneWriter, Busy
  <2>3. CASE CommitWrite(c) \/ CommitRejected(c) \/ AbortWrite(c) \/ AddColumn(c)
    <3>1. job'[c] = None
      BY <2>3 DEF CommitWrite, CommitRejected, AbortWrite, AddColumn, MayWrite, NoJob, tableVars,
             SnapshotInv, StorageInv, TypeOK
    <3> QED BY <2>1, <2>2, <3>1
  <2> QED BY <1>2, <2>1, <2>2, <2>3, WriteKnows DEF WriteStep
<1> QED BY <1>1, <1>2, CatalogKnows DEF Next

\* With the table that the hint names, which the work in progress builds on.
LEMMA BuildsSame ==
    ASSUME BuildsOn, hint' = hint, hint # 0 => vfile'[hint] = vfile[hint],
           \A d \in Clients : pc'[d] \in Building => pc[d] \in Building /\ work'[d] = work[d]
    PROVE  BuildsOn'
<1> SUFFICES ASSUME NEW d \in Clients, pc'[d] \in Building, hint # 0
             PROVE  \E x \in TableChanges : /\ work'[d].meta = Cat!WithChange(vfile'[hint'], x)
                                            /\ Continues(vfile'[hint'], x)
  BY DEF BuildsOn, Building, Cat!WithChange, Continues, Shown, SeenIn, SnapshotAt
<1>1. \E x \in TableChanges : work[d].meta = Cat!WithChange(vfile[hint], x) /\ Continues(vfile[hint], x)
  BY DEF BuildsOn
<1> QED BY <1>1

\* A commit builds on the table that the hint names.
LEMMA CommitBuilds ==
    ASSUME StorageInv, CatP!HistoryInv, SingleWriter, NEW c \in Clients, NEW x \in TableChanges,
           Cat!CommitCheck(c, x), Continues(handle[c].meta, x)
    PROVE  BuildsOn'
<1>1. /\ hint' = hint /\ vfile' = vfile /\ hint = handle[c].version /\ handle[c] # None
      /\ work' = [work EXCEPT ![c] = [version |-> handle[c].version + 1,
                                      meta |-> Cat!WithChange(handle[c].meta, x)]]
      /\ pc' = [pc EXCEPT ![c] = "put"]
      /\ \A d \in Clients : pc[d] \notin Cat!Mutating
  BY DEF Cat!CommitCheck, Cat!Goto, Cat!Free
<1>2. vfile[hint] = handle[c].meta
  BY <1>1 DEF CatP!HistoryInv, CatP!HandlesStored
<1>3. \A d \in Clients : pc'[d] \in Building => d = c
  BY <1>1 DEF StorageInv, TypeOK, Cat!TypeOK, Building, Cat!Mutating
<1>4. work'[c].meta = Cat!WithChange(vfile[hint], x)
  BY <1>1, <1>2 DEF StorageInv, TypeOK, Cat!TypeOK
<1>5. \E y \in TableChanges : work'[c].meta = Cat!WithChange(vfile'[hint'], y) /\ Continues(vfile'[hint'], y)
  BY <1>1, <1>2, <1>4
<1> QED BY <1>3, <1>5 DEF BuildsOn, Building

\* What a write commits may follow what it started from.
LEMMA WriteContinues ==
    ASSUME SnapshotInv, JobsKnow, NEW c \in Clients, job[c] # None, job[c].phase = "commit"
    PROVE  Continues(handle[c].meta, NewSnapshot(c))
<1> DEFINE m == handle[c].meta
           x == NewSnapshot(c)
<1>1. handle[c] # None /\ m \in Held /\ m \in Cat!Metadata /\ job[c].op \in Ops
  <2>1. handle[c] # None
    BY DEF SnapshotInv, StorageInv, JobsOK
  <2>2. m \in Held
    BY <2>1, HeldNow
  <2> QED BY <2>1, <2>2, HeldType, JobType DEF SnapshotInv, StorageInv, Jobs
<1>2. /\ job[c].op = "append" => job[c].new # {}
      /\ job[c].new \cap SeenIn(m) = {}
      /\ Live(job[c].manifest) = job[c].new \cup (IF job[c].op = "append" THEN Shown(m) ELSE {})
  BY <1>1 DEF JobsKnow, Knows
<1>3. x.op = job[c].op /\ x.shows = Live(job[c].manifest)
  BY DEF NewSnapshot
<1>4. Shown(m) \subseteq SeenIn(m)
  BY <1>1, ViewsShow
<1> HIDE DEF m, x
<1>5. Continues(m, x)
  <2>1. CASE x.op = "append"
    <3>1. x.shows = job[c].new \cup Shown(m) /\ job[c].new # {}
      BY <1>2, <1>3, <2>1
    <3>2. job[c].new \cap Shown(m) = {}
      BY <1>2, <1>4
    <3> QED BY <1>2, <2>1, <3>1, <3>2 DEF Continues
  <2>2. CASE x.op # "append"
    <3>1. x.shows = job[c].new
      BY <1>2, <1>3, <2>2
    <3> QED BY <1>2, <2>2, <3>1 DEF Continues
  <2> QED BY <2>1, <2>2
<1> QED BY <1>5 DEF m, x

LEMMA CatalogBuilds ==
    ASSUME StorageInv, CatP!HistoryInv, SingleWriter, BuildsOn, NEW c \in Clients,
           CatalogStep(c) \/ CatalogFails(c)
    PROVE  BuildsOn'
<1> USE DEF StorageInv, TypeOK, Cat!TypeOK
<1>1. /\ \A d \in Clients \ {c} : pc'[d] = pc[d]
      /\ \A d, e \in Clients : pc[d] \in Cat!Mutating /\ pc[e] \in Cat!Mutating => d = e
      /\ Building \subseteq Cat!Mutating
  BY OthersSame DEF CatP!HistoryInv, CatP!OneMutator, CatP!Mutating, Cat!Mutating, Building
<1>2. CASE Cat!Create(c)
  <2>1. hint' = 0
    BY <1>2 DEF Cat!Create, Cat!CreateTable
  <2> QED BY <2>1 DEF BuildsOn
<1>3. CASE Cat!LoadHint(c) \/ Cat!LoadMeta(c) \/ Cat!Fail(c)
  <2>1. hint' = hint /\ vfile' = vfile /\ pc'[c] \notin Building
    BY <1>3 DEF Cat!LoadHint, Cat!LoadMeta, Cat!Fail, Cat!Crash, Cat!Raise, Cat!Abandon, Cat!Goto, Building
  <2>2. \A d \in Clients \ {c} : work'[d] = work[d]
    BY <1>3 DEF Cat!LoadHint, Cat!LoadMeta, Cat!Fail, Cat!Crash, Cat!Raise, Cat!Abandon
  <2>3. \A d \in Clients : pc'[d] \in Building => pc[d] \in Building /\ work'[d] = work[d]
    BY <1>1, <2>1, <2>2
  <2> QED BY <2>1, <2>3, BuildsSame
<1>4. CASE Cat!Put(c) \/ Cat!Fill(c)
  <2>1. /\ hint' = hint /\ work' = work /\ pc[c] \in Building
        /\ work[c].version = hint + 1
    BY <1>4 DEF Cat!Put, Cat!Fill, Building, CatP!HistoryInv, CatP!BuildsNext, CatP!Building
  <2>2. PICK content : vfile' = [vfile EXCEPT ![work[c].version] = content]
    BY <1>4 DEF Cat!Put, Cat!Fill
  <2>3. hint # 0 => vfile'[hint] = vfile[hint]
    BY <2>1, <2>2, TableAssumption
  <2>4. \A d \in Clients : pc'[d] \in Building => pc[d] \in Building
    BY <1>1, <2>1
  <2> QED BY <2>1, <2>3, <2>4, BuildsSame
<1>5. CASE \/ Cat!Point(c) \/ Cat!PointReplyLost(c) \/ Cat!UnlinkHint(c)
           \/ Cat!Free(c) /\ \E purge \in PurgeArgs : Cat!DropCheck(c, purge)
  <2>1. pc'[c] \notin Building
    BY <1>5 DEF Cat!Point, Cat!PointReplyLost, Cat!UnlinkHint, Cat!DropCheck, Cat!Goto, Building
  <2>2. \A d \in Clients \ {c} : pc[d] \notin Building
    <3>1. CASE pc[c] \in Cat!Mutating
      BY <1>1, <3>1
    <3>2. CASE Cat!Free(c)
      BY <1>1, <3>2 DEF Cat!Free
    <3> QED BY <1>5, <3>1, <3>2 DEF Cat!Point, Cat!PointReplyLost, Cat!UnlinkHint, Cat!Mutating
  <2>3. \A d \in Clients : pc'[d] \notin Building
    BY <1>1, <2>1, <2>2
  <2> QED BY <2>3 DEF BuildsOn, Building
<1>6. \/ Cat!Create(c) \/ Cat!LoadHint(c) \/ Cat!LoadMeta(c) \/ Cat!Fail(c)
      \/ Cat!Put(c) \/ Cat!Fill(c) \/ Cat!Point(c) \/ Cat!PointReplyLost(c) \/ Cat!UnlinkHint(c)
      \/ Cat!Free(c) /\ \E purge \in PurgeArgs : Cat!DropCheck(c, purge)
  BY DEF CatalogStep, CatalogFails, Cat!Write, Cat!DropCheck
<1> QED BY <1>2, <1>3, <1>4, <1>5, <1>6

LEMMA BuildsKept ==
    ASSUME SnapshotInv, CatP!HistoryInv, SingleWriter, JobsKnow, BuildsOn, [Next]_vars
    PROVE  BuildsOn'
<1>0. StorageInv
  BY DEF SnapshotInv
<1>1. CASE UNCHANGED <<hint, vfile, pc, work>>
  BY <1>1, BuildsSame
<1>2. ASSUME NEW c \in Clients, CommitWrite(c) PROVE BuildsOn'
  <2>1. /\ job[c] # None /\ job[c].phase = "commit" /\ Cat!CommitCheck(c, NewSnapshot(c))
        /\ NewSnapshot(c) \in TableChanges
    BY <1>0, <1>2, SnapshotType DEF CommitWrite, TableChanges
  <2> QED BY <1>0, <2>1, WriteContinues, CommitBuilds
<1>3. ASSUME NEW c \in Clients, AddColumn(c) PROVE BuildsOn'
  <2> DEFINE x == [kind |-> "schema"]
  <2>1. x \in TableChanges /\ Cat!CommitCheck(c, x) /\ Continues(handle[c].meta, x)
    BY <1>3 DEF AddColumn, TableChanges, Schemas, Continues
  <2> QED BY <1>0, <2>1, CommitBuilds
<1>4. ASSUME NEW c \in Clients, WriteStep(c), ~CommitWrite(c), ~AddColumn(c)
      PROVE  UNCHANGED <<hint, vfile, pc, work>>
  BY <1>4 DEF WriteStep, StartWrite, WriteParquet, Stamp, ReadLive, WriteManifest, WriteList, FillList,
         CommitRejected, AbortWrite, catalogVars
<1>5. CASE UNCHANGED vars
  BY <1>1, <1>5 DEF vars, catalogVars
<1> QED BY <1>0, <1>1, <1>2, <1>3, <1>4, <1>5, CatalogBuilds DEF Next

LEMMA ViewsInit == ASSUME Init PROVE ViewsInv
<1>1. SnapshotInv
  BY SnapshotInit
<1>2. CatP!HistoryInv
  <2>1. CatP!Init
    BY SameSets DEF Init, Cat!Init, CatP!Init
  <2> QED BY <2>1, CatalogAssumed, CatP!HistoryInit
<1>3. OneWriter /\ JobsKnow /\ BuildsOn
  BY DEF Init, Cat!Init, OneWriter, Busy, Cat!Mutating, JobsKnow, BuildsOn, Building
<1>4. NamesOK
  <2>1. Uploaded = {}
    BY DEF Init, Uploaded
  <2> QED BY <2>1, FS_EmptySet DEF NamesOK
<1> QED BY <1>1, <1>2, <1>3, <1>4 DEF ViewsInv

LEMMA ViewsStep ==
    ASSUME OneLife, UniqueMillis
    PROVE  ViewsInv /\ [Next]_vars => ViewsInv'
<1> SUFFICES ASSUME ViewsInv, [Next]_vars PROVE ViewsInv'
  OBVIOUS
<1>1. StorageInv /\ SnapshotInv /\ CatP!HistoryInv /\ OneWriter /\ NamesOK /\ JobsKnow /\ BuildsOn /\ SingleWriter
  BY DEF ViewsInv, SnapshotInv, OneLife
<1>2. SnapshotInv'
  BY <1>1, SnapshotStep
<1>3. CatP!HistoryInv'
  BY <1>1, HistoryKept
<1>4. OneWriter'
  BY <1>1, OneWriterKept
<1>5. NamesOK'
  BY <1>1, NamesKept
<1>6. JobsKnow'
  BY <1>1, <1>4, KnowsKept
<1>7. BuildsOn'
  BY <1>1, BuildsKept
<1> QED BY <1>2, <1>3, <1>4, <1>5, <1>6, <1>7 DEF ViewsInv

LEMMA ViewsInvariant == ASSUME OneLife, UniqueMillis PROVE Spec => []ViewsInv
BY ViewsInit, ViewsStep, PTL DEF Spec

\* Under that invariant what a scan returns is what the writers meant it to.
LEMMA ViewsAre ==
    ASSUME ViewsInv
    PROVE  /\ hint = 0 => Views = << >>
           /\ hint # 0 => vfile[hint] \in Held /\ vfile[hint] \in Cat!Metadata /\ Views = ViewsOf(vfile[hint])
<1>1. StorageInv /\ SnapshotInv /\ CatP!PointerReadable /\ hint \in 0 .. MaxVersion
  BY DEF ViewsInv, SnapshotInv, StorageInv, TypeOK, Cat!TypeOK, CatP!HistoryInv
<1>2. CASE hint = 0
  BY <1>2 DEF Views
<1>3. CASE hint # 0
  <2> DEFINE m == vfile[hint]
             S == SnapshotAt(m)
  <2>1. Cat!Readable(hint) /\ hint \in Cat!Versions
    BY <1>1, <1>3, TableAssumption DEF CatP!PointerReadable, CatP!Readable, Cat!Readable, Cat!Versions
  <2>2. m \in Held
    BY <2>1, HeldNow
  <2>3. m \in Cat!Metadata /\ MetaOK(m)
    BY <1>1, <2>2, HeldType DEF SnapshotInv
  <2> HIDE DEF m
  <2>4. /\ Cardinality(S) \in Nat
        /\ \A n \in 1 .. Cardinality(S) : Nth(S, n) \in S /\ m.log[Nth(S, n)] \in Snapshots
    BY <2>3, PlacesFinite
  <2>5. SnapshotsOf(m) = [n \in 1 .. Cardinality(S) |-> m.log[Nth(S, n)]]
    BY DEF SnapshotsOf
  <2>6. Len(SnapshotsOf(m)) = Cardinality(S)
    <3>1. SnapshotsOf(m) \in [1 .. Cardinality(S) -> Snapshots]
      BY <2>4, <2>5
    <3> HIDE DEF S
    <3> QED BY <2>4, <3>1, FunctionsAreSequences
  <2>7. \A i \in S : View(m.log[i]) = [op |-> m.log[i].op, files |-> m.log[i].shows]
    BY <2>3 DEF MetaOK, View, ScanFiles
  <2>8. Views = [n \in 1 .. Cardinality(S) |-> View(m.log[Nth(S, n)])]
    <3>1. Views = [n \in 1 .. Len(SnapshotsOf(m)) |-> View(SnapshotsOf(m)[n])]
      BY <1>3, <2>1 DEF Views, m
    <3> HIDE DEF S
    <3>2. \A n \in 1 .. Cardinality(S) : SnapshotsOf(m)[n] = m.log[Nth(S, n)]
      BY <2>5
    <3> QED BY <2>6, <3>1, <3>2
  <2>9. Views = ViewsOf(m)
    <3>1. ViewsOf(m) = [n \in 1 .. Cardinality(S) |-> [op |-> m.log[Nth(S, n)].op, files |-> m.log[Nth(S, n)].shows]]
      BY DEF ViewsOf
    <3> HIDE DEF S
    <3> QED BY <2>4, <2>7, <2>8, <3>1
  <2> QED BY <1>3, <2>2, <2>3, <2>9 DEF m
<1> QED BY <1>2, <1>3

\* What moves the pointer, with the work that was built; nothing else changes the table
\* that the hint names.
LEMMA PointerMoves ==
    ASSUME StorageInv, CatP!HistoryInv, [Next]_vars
    PROVE  \/ hint' = hint /\ (hint # 0 => vfile'[hint] = vfile[hint])
           \/ hint' = 0
           \/ \E c \in Clients : /\ pc[c] \in Building /\ hint' = hint + 1 /\ vfile'[hint'] = work[c].meta
                                 /\ hint = 0 => work[c].meta.log = << >>
<1> USE DEF StorageInv, TypeOK, Cat!TypeOK
<1>1. ASSUME NEW c \in Clients, Cat!Put(c) \/ Cat!Fill(c)
      PROVE  hint' = hint /\ (hint # 0 => vfile'[hint] = vfile[hint])
  <2>1. hint' = hint /\ work[c].version = hint + 1
    BY <1>1 DEF Cat!Put, Cat!Fill, CatP!HistoryInv, CatP!BuildsNext, CatP!Building
  <2>2. PICK content : vfile' = [vfile EXCEPT ![work[c].version] = content]
    BY <1>1 DEF Cat!Put, Cat!Fill
  <2> QED BY <2>1, <2>2, TableAssumption
<1>2. ASSUME NEW c \in Clients, Cat!Point(c) \/ Cat!PointReplyLost(c)
      PROVE  /\ pc[c] \in Building /\ hint' = hint + 1 /\ vfile'[hint'] = work[c].meta
             /\ hint = 0 => work[c].meta.log = << >>
  <2>1. pc[c] = "point" /\ hint' = work[c].version /\ vfile' = vfile
    BY <1>2 DEF Cat!Point, Cat!PointReplyLost
  <2>2. /\ work[c].version = hint + 1 /\ vfile[work[c].version] = work[c].meta
        /\ hint = 0 => work[c].meta.log = << >>
    BY <2>1 DEF CatP!HistoryInv, CatP!BuildsNext, CatP!Building
  <2> QED BY <2>1, <2>2 DEF Building
<1>3. ASSUME NEW c \in Clients, Cat!UnlinkHint(c) PROVE hint' = 0
  BY <1>3 DEF Cat!UnlinkHint
<1>4. CASE UNCHANGED <<hint, vfile>>
  BY <1>4
<1>5. ASSUME NEW c \in Clients, CatalogStep(c) \/ CatalogFails(c),
             ~Cat!Put(c), ~Cat!Fill(c), ~Cat!Point(c), ~Cat!PointReplyLost(c), ~Cat!UnlinkHint(c)
      PROVE  UNCHANGED <<hint, vfile>>
  BY <1>5 DEF CatalogStep, CatalogFails, Cat!Create, Cat!CreateTable, Cat!LoadHint, Cat!LoadMeta, Cat!Write,
         Cat!DropCheck, Cat!Fail, Cat!Crash, Cat!Raise, Cat!Abandon
<1>6. ASSUME NEW c \in Clients, WriteStep(c) PROVE UNCHANGED <<hint, vfile>>
  BY <1>6 DEF WriteStep, StartWrite, WriteParquet, Stamp, ReadLive, WriteManifest, WriteList, FillList,
         CommitWrite, CommitRejected, AddColumn, AbortWrite, Cat!CommitCheck, catalogVars
<1>7. CASE UNCHANGED vars
  BY <1>7 DEF vars, catalogVars
<1> HIDE DEF StorageInv, TypeOK, Cat!TypeOK
<1> QED BY <1>1, <1>2, <1>3, <1>4, <1>5, <1>6, <1>7 DEF Next

\* A commit of a write that continues the table is a step of TimeTravelTable.
LEMMA CommitIsAWrite ==
    ASSUME NEW m \in Cat!Metadata, NEW x \in TableChanges, Continues(m, x),
           Views = ViewsOf(m), Views' = ViewsOf(Cat!WithChange(m, x))
    PROVE  [TimeTravel!Next]_Views
<1> DEFINE V == ViewsOf(m)
           W == ViewsOf(Cat!WithChange(m, x))
<1>1. /\ V \in Seq([op : Ops, files : SUBSET DataFiles])
      /\ \A n \in 1 .. Len(V) : V[n].files \subseteq SeenIn(m)
      /\ Shown(m) = IF V = << >> THEN {} ELSE V[Len(V)].files
      /\ Shown(m) \subseteq SeenIn(m)
  BY ViewsShow
<1>2. CASE x.kind # "snapshot"
  BY <1>2, ViewsGrow
<1>3. CASE x.kind = "snapshot"
  <2>1. /\ Len(W) = Len(V) + 1 /\ SubSeq(W, 1, Len(V)) = V
        /\ W[Len(W)] = [op |-> x.op, files |-> x.shows]
    BY <1>3, ViewsGrow
  <2>2. x.op \in Ops /\ x.shows \in SUBSET DataFiles
    BY <1>3 DEF TableChanges, Schemas, Snapshots
  <2> HIDE DEF V, W
  <2>3. Len(V) \in Nat /\ W # << >>
    BY <1>1, <2>1
  <2>4. TimeTravel!Latest = Shown(m) /\ TimeTravel!Latest' = x.shows
    <3>1. TimeTravel!Latest = Shown(m)
      BY <1>1 DEF TimeTravel!Latest, V
    <3>2. TimeTravel!Latest' = IF W = << >> THEN {} ELSE W[Len(W)].files
      BY DEF TimeTravel!Latest, W
    <3> QED BY <2>1, <2>3, <3>1, <3>2
  <2>5. TimeTravel!Seen \subseteq SeenIn(m)
    <3>1. TimeTravel!Seen = UNION {V[i].files : i \in 1 .. Len(V)}
      BY DEF TimeTravel!Seen, V
    <3> QED BY <1>1, <3>1
  <2>6. \A op : x.op = op => TimeTravel!AddView(op)
    BY <2>1, <2>2, <2>4 DEF TimeTravel!AddView, V, W
  <2>7. CASE x.op = "append"
    <3>1. /\ Shown(m) \subseteq x.shows /\ x.shows # Shown(m)
          /\ (x.shows \ Shown(m)) \cap SeenIn(m) = {}
      BY <1>3, <2>7 DEF Continues
    <3>2. TimeTravel!AppendRows
      BY <2>4, <2>5, <2>6, <2>7, <3>1 DEF TimeTravel!AppendRows
    <3> QED BY <3>2 DEF TimeTravel!Next
  <2>8. CASE x.op = "overwrite"
    <3>1. x.shows \cap SeenIn(m) = {}
      BY <1>3, <2>8 DEF Continues
    <3>2. TimeTravel!OverwriteRows
      BY <2>4, <2>5, <2>6, <2>8, <3>1 DEF TimeTravel!OverwriteRows
    <3> QED BY <3>2 DEF TimeTravel!Next
  <2> QED BY <2>2, <2>7, <2>8 DEF Ops
<1> QED BY <1>2, <1>3

\* Every step is one of TimeTravelTable, or changes none of the views.
LEMMA ViewsRefinementStep ==
    ASSUME ViewsInv, ViewsInv', [Next]_vars
    PROVE  [TimeTravel!Next]_Views
<1>1. /\ hint = 0 => Views = << >>
      /\ hint # 0 => vfile[hint] \in Cat!Metadata /\ Views = ViewsOf(vfile[hint])
  BY ViewsAre
<1>2. /\ hint' = 0 => Views' = << >>
      /\ hint' # 0 => vfile'[hint'] \in Cat!Metadata /\ Views' = ViewsOf(vfile'[hint'])
  <2>1. (/\ hint = 0 => Views = << >>
         /\ hint # 0 => vfile[hint] \in Cat!Metadata /\ Views = ViewsOf(vfile[hint]))'
    BY ViewsAre, PTL
  <2> QED BY <2>1 DEF ViewsOf, SnapshotAt, Nth
<1>3. StorageInv /\ CatP!HistoryInv /\ hint \in 0 .. MaxVersion
  BY DEF ViewsInv, SnapshotInv, StorageInv, TypeOK, Cat!TypeOK
<1>4. CASE hint' = hint /\ (hint # 0 => vfile'[hint] = vfile[hint])
  BY <1>1, <1>2, <1>4
<1>5. CASE hint' = 0
  BY <1>2, <1>5 DEF TimeTravel!Next, TimeTravel!DropTable
<1>6. ASSUME NEW c \in Clients, pc[c] \in Building, hint' = hint + 1, vfile'[hint'] = work[c].meta,
             hint = 0 => work[c].meta.log = << >>
      PROVE  [TimeTravel!Next]_Views
  <2>1. hint' # 0 /\ work[c].meta \in Cat!Metadata /\ Views' = ViewsOf(work[c].meta)
    BY <1>2, <1>3, <1>6, TableAssumption
  <2>2. CASE hint = 0
    <3>1. SnapshotAt(work[c].meta) = {}
      BY <1>6, <2>2 DEF SnapshotAt
    <3>2. Len(ViewsOf(work[c].meta)) = 0 /\ ViewsOf(work[c].meta) \in Seq([op : Ops, files : SUBSET DataFiles])
      BY <2>1, <3>1, ViewsShow, FS_EmptySet
    <3>3. ViewsOf(work[c].meta) = << >>
      BY <3>2
    <3> QED BY <1>1, <2>1, <2>2, <3>3
  <2>3. CASE hint # 0
    <3>1. PICK x \in TableChanges : work[c].meta = Cat!WithChange(vfile[hint], x) /\ Continues(vfile[hint], x)
      BY <1>6, <2>3 DEF ViewsInv, BuildsOn
    <3> QED BY <1>1, <2>1, <2>3, <3>1, CommitIsAWrite
  <2> QED BY <2>2, <2>3
<1>7. \/ hint' = hint /\ (hint # 0 => vfile'[hint] = vfile[hint])
      \/ hint' = 0
      \/ \E c \in Clients : /\ pc[c] \in Building /\ hint' = hint + 1 /\ vfile'[hint'] = work[c].meta
                            /\ hint = 0 => work[c].meta.log = << >>
  BY <1>3, PointerMoves
<1> QED BY <1>4, <1>5, <1>6, <1>7

\* "A snapshot is an immutable view of the table at a point in time", and _write makes each
\* from the one before (table.py): what scans of the successive snapshots return is a
\* TimeTravelTable, through crashes, errors and lost replies, on either kind of storage, for
\* callers who take turns, do not create the table anew, and write in different milliseconds.
THEOREM WritesRefineTimeTravel ==
    ASSUME OneLife, UniqueMillis PROVE Spec => RefinesTimeTravel
<1>1. Init => TimeTravel!Init
  BY DEF Init, Cat!Init, TimeTravel!Init, Views
<1>2. ViewsInv /\ ViewsInv' /\ [Next]_vars => [TimeTravel!Next]_Views
  BY ViewsRefinementStep
<1> QED BY <1>1, <1>2, ViewsInvariant, PTL DEF Spec, RefinesTimeTravel, TimeTravel!Spec
==============================================================================
