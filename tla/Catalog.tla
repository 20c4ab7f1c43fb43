-------------------------------- MODULE Catalog --------------------------------
(***************************************************************************)
(* The file system catalog of mini-iceberg, for one table identifier:      *)
(* mini-iceberg/miniiceberg/catalog.py on top of io.py and metadata.py.    *)
(*                                                                         *)
(* The catalog keeps two kinds of files: v<N>.metadata.json, one for each  *)
(* version of the table, and version-hint.text, which holds the number of  *)
(* the current one.  No lock protects them.  A client is whoever holds one *)
(* Table object: a process, a thread, or one variable of a program that    *)
(* loaded the table twice.  Every file operation is a step of its own, so  *)
(* the operations of the clients interleave as the storage sees them.      *)
(***************************************************************************)
EXTENDS Integers, Sequences, FiniteSets

CONSTANTS
    Clients,        \* holders of a Table object
    TableIds,       \* the values uuid4 yields for table_uuid
    Changes,        \* what one commit adds: a snapshot or a schema
    MaxVersion,     \* bound: no commit goes beyond this version
    PurgeArgs,      \* values callers give drop_table's purge ({}: no drops)
    ObjectStore,    \* TRUE: s3://, a PUT is atomic; FALSE: a local directory
    SingleWriter,   \* TRUE: callers never run two mutating operations at once
    StorageErrors,  \* TRUE: a file operation may raise
    None,           \* no file, no handle, no table
    Truncated,      \* a local file opened "wb" and not yet written
    Garbled         \* a local file two writers wrote into at once

VARIABLES
    hint,    \* content of version-hint.text, 0 when there is no such file
    vfile,   \* vfile[n]: content of v<n>.metadata.json
    handle,  \* handle[c]: version and metadata of the Table object of c
    pc,      \* the operation c is in, and how far it is
    work,    \* the version c is reading or writing, and its metadata
    doomed,  \* the files a purge by c has listed and not yet removed
    born,    \* the table_uuids generated so far
    left     \* history: left[c] may remain when the purge of c returns

vars == <<hint, vfile, handle, pc, work, doomed, born, left>>

Versions == 1..MaxVersion
Metadata == [uuid : TableIds, log : Seq(Changes)]
Contents == Metadata \cup {None, Truncated, Garbled}
Mutating == {"put", "fill", "point", "unlink", "list", "rm", "find", "sweep"}
Phases   == Mutating \cup {"idle", "load"}

\* Files a purge can remove: v<n>.metadata.json is n, version-hint.text is 0.
HintFile == 0
Files    == Versions \cup {HintFile}
Present  == {v \in Versions : vfile[v] # None}
            \cup (IF hint = 0 THEN {} ELSE {HintFile})

ASSUME ConstantsAssumption ==
    /\ MaxVersion \in Nat \ {0}
    /\ PurgeArgs \subseteq BOOLEAN
    /\ ObjectStore \in BOOLEAN /\ SingleWriter \in BOOLEAN
    /\ StorageErrors \in BOOLEAN

ASSUME SentinelsAssumption ==
    /\ None # Truncated /\ None # Garbled /\ Truncated # Garbled
    /\ {None, Truncated, Garbled} \cap Metadata = {}
    /\ None \notin [version : Versions, meta : Metadata \cup {None}]

Readable(v) == vfile[v] \notin {None, Truncated, Garbled}

\* What a reader who follows version-hint.text finds.
Current == IF hint = 0 THEN None ELSE vfile[hint]

Init ==
    /\ hint = 0
    /\ vfile = [v \in Versions |-> None]
    /\ handle = [c \in Clients |-> None]
    /\ pc = [c \in Clients |-> "idle"]
    /\ work = [c \in Clients |-> None]
    /\ doomed = [c \in Clients |-> {}]
    /\ born = {}
    /\ left = [c \in Clients |-> {}]

Goto(c, phase) == pc' = [pc EXCEPT ![c] = phase]

\* A client may begin a mutating operation.
Free(c) ==
    /\ pc[c] = "idle"
    /\ SingleWriter => \A d \in Clients : pc[d] \notin Mutating

\* History: a file written during a purge may still be there when it returns.
MayRemain(f) ==
    left' = [d \in Clients |-> IF pc[d] \in {"rm", "sweep"} THEN left[d] \cup {f}
                               ELSE left[d]]

\* with_snapshot and with_schema return a copy with one more entry.
WithChange(meta, x) == [meta EXCEPT !.log = Append(@, x)]

-----------------------------------------------------------------------------
(* Faulty variants of the operations below, none of them part of Spec: each  *)
(* is a mistake the code avoids, and shows that a property would notice it.  *)

\* create_table without its existence check.
CreateTableBlindly(c, id) ==
    /\ Free(c)
    /\ id \notin born
    /\ born' = born \cup {id}
    /\ work' = [work EXCEPT ![c] =
                    [version |-> 1, meta |-> [uuid |-> id, log |-> <<>>]]]
    /\ Goto(c, "put")
    /\ UNCHANGED <<hint, vfile, handle, doomed, left>>

\* commit as version n with the pointer set to hintNow before the metadata is
\* written, when guard holds.
FaultyCommit(c, x, guard, n, hintNow) ==
    /\ Free(c)
    /\ handle[c] # None
    /\ guard /\ n \in Versions
    /\ work' = [work EXCEPT ![c] = [version |-> n,
                                    meta |-> WithChange(handle[c].meta, x)]]
    /\ hint' = hintNow
    /\ Goto(c, "put")
    /\ UNCHANGED <<vfile, handle, doomed, born, left>>

CommitPointsFirst(c, x) ==
    LET n == handle[c].version + 1
    IN  FaultyCommit(c, x, hint = handle[c].version, n, n)

CommitUnchecked(c, x) ==
    FaultyCommit(c, x, hint # 0, handle[c].version + 1, hint)

CommitInPlace(c, x) ==
    FaultyCommit(c, x, hint = handle[c].version, handle[c].version, hint)

CommitOnLatest(c, x) == FaultyCommit(c, x, hint # 0, hint + 1, hint)

\* load_table that takes whatever bytes it finds.
LoadMetaUnparsed(c) ==
    LET v == work[c].version IN
    /\ pc[c] = "load"
    /\ handle' = [handle EXCEPT ![c] = [version |-> v, meta |-> vfile[v]]]
    /\ work' = [work EXCEPT ![c] = None]
    /\ Goto(c, "idle")
    /\ UNCHANGED <<hint, vfile, doomed, born, left>>

\* A purge that removes the versions up to the current one only.
ListCommittedFiles(c) ==
    /\ pc[c] \in {"list", "find"}
    /\ doomed' = [doomed EXCEPT ![c] = Present \cap 0..hint]
    /\ Goto(c, IF pc[c] = "list" THEN "rm" ELSE "sweep")
    /\ left' = [left EXCEPT ![c] = {}]
    /\ UNCHANGED <<hint, vfile, handle, work, born>>

-----------------------------------------------------------------------------
(* create_table, load_table and commit: each checks the hint, then works on *)
(* one v<N>.metadata.json.  When the check fails the call raises and        *)
(* nothing has changed, which is no step at all.                            *)

CreateTable(c, id) ==
    /\ Free(c)
    /\ hint = 0
    /\ id \notin born
    /\ born' = born \cup {id}
    /\ work' = [work EXCEPT ![c] =
                    [version |-> 1, meta |-> [uuid |-> id, log |-> <<>>]]]
    /\ Goto(c, "put")
    /\ UNCHANGED <<hint, vfile, handle, doomed, left>>

LoadHint(c) ==
    /\ pc[c] = "idle"
    /\ hint # 0
    /\ work' = [work EXCEPT ![c] = [version |-> hint, meta |-> None]]
    /\ Goto(c, "load")
    /\ UNCHANGED <<hint, vfile, handle, doomed, born, left>>

\* A missing or malformed metadata file makes load_table raise; the caller
\* keeps the Table object it had.
LoadMeta(c) ==
    LET v == work[c].version IN
    /\ pc[c] = "load"
    /\ handle' = IF Readable(v)
                 THEN [handle EXCEPT ![c] = [version |-> v, meta |-> vfile[v]]]
                 ELSE handle
    /\ work' = [work EXCEPT ![c] = None]
    /\ Goto(c, "idle")
    /\ UNCHANGED <<hint, vfile, doomed, born, left>>

CommitCheck(c, x) ==
    /\ Free(c)
    /\ handle[c] # None
    /\ handle[c].version < MaxVersion
    /\ hint = handle[c].version
    /\ work' = [work EXCEPT ![c] = [version |-> handle[c].version + 1,
                                    meta |-> WithChange(handle[c].meta, x)]]
    /\ Goto(c, "put")
    /\ UNCHANGED <<hint, vfile, handle, doomed, born, left>>

-----------------------------------------------------------------------------
(* write_metadata and atomic_replace.                                       *)

Put(c) ==
    LET v == work[c].version IN
    /\ pc[c] = "put"
    /\ IF ObjectStore
       THEN vfile' = [vfile EXCEPT ![v] = work[c].meta] /\ Goto(c, "point")
       ELSE vfile' = [vfile EXCEPT ![v] = Truncated] /\ Goto(c, "fill")
    /\ MayRemain(work[c].version)
    /\ UNCHANGED <<hint, handle, work, doomed, born>>

\* What a local v<N>.metadata.json holds once c has written and closed it:
\* nothing when it was unlinked under c, and possibly a mixture when another
\* client has the same file open or has written it since c opened it.
Written(c) ==
    LET v == work[c].version
        shared == \E d \in Clients \ {c} : pc[d] = "fill" /\ work[d].version = v
    IN  CASE vfile[v] = None                    -> {None}
          [] vfile[v] = Truncated /\ ~shared    -> {work[c].meta}
          [] OTHER                              -> {work[c].meta, Garbled}

Fill(c) ==
    /\ pc[c] = "fill"
    /\ \E content \in Written(c) :
            vfile' = [vfile EXCEPT ![work[c].version] = content]
    /\ Goto(c, "point")
    /\ MayRemain(work[c].version)
    /\ UNCHANGED <<hint, handle, work, doomed, born>>

\* The pointer moves; create_table and commit return a new Table object.
Point(c) ==
    /\ pc[c] = "point"
    /\ hint' = work[c].version
    /\ handle' = [handle EXCEPT ![c] = work[c]]
    /\ work' = [work EXCEPT ![c] = None]
    /\ Goto(c, "idle")
    /\ MayRemain(HintFile)
    /\ UNCHANGED <<vfile, doomed, born>>

\* The store applies the PUT of the hint and the caller gets an exception.
PointReplyLost(c) ==
    /\ pc[c] = "point"
    /\ StorageErrors /\ ObjectStore
    /\ hint' = work[c].version
    /\ work' = [work EXCEPT ![c] = None]
    /\ Goto(c, "idle")
    /\ MayRemain(HintFile)
    /\ UNCHANGED <<vfile, handle, doomed, born>>

-----------------------------------------------------------------------------
(* drop_table.                                                              *)

DropCheck(c, purge) ==
    /\ Free(c)
    /\ hint # 0
    /\ Goto(c, IF purge THEN "list" ELSE "unlink")
    /\ UNCHANGED <<hint, vfile, handle, work, doomed, born, left>>

UnlinkHint(c) ==
    /\ pc[c] = "unlink"
    /\ hint' = 0
    /\ Goto(c, "idle")
    /\ UNCHANGED <<vfile, handle, work, doomed, born, left>>

\* fs.rm(root, recursive=True) lists what is there ("list") and removes it
\* file by file ("rm"); after an exception a second pass lists again ("find")
\* and removes what it can ("sweep").
ListFiles(c) ==
    /\ pc[c] \in {"list", "find"}
    /\ doomed' = [doomed EXCEPT ![c] = Present]
    /\ Goto(c, IF pc[c] = "list" THEN "rm" ELSE "sweep")
    /\ left' = [left EXCEPT ![c] = {}]
    /\ UNCHANGED <<hint, vfile, handle, work, born>>

RemoveFile(c, f) ==
    /\ pc[c] \in {"rm", "sweep"}
    /\ f \in doomed[c]
    /\ hint' = IF f = HintFile THEN 0 ELSE hint
    /\ vfile' = IF f = HintFile THEN vfile ELSE [vfile EXCEPT ![f] = None]
    /\ doomed' = [doomed EXCEPT ![c] = @ \ {f}]
    /\ UNCHANGED <<handle, pc, work, born, left>>

\* The first pass raises: on an error, when a listed local file is already
\* gone, or when a directory it emptied has filled again.
RemoveRaises(c) ==
    /\ pc[c] = "rm"
    /\ \/ StorageErrors /\ doomed[c] # {}
       \/ ~ObjectStore /\ ~(doomed[c] \subseteq Present)
       \/ ~ObjectStore /\ doomed[c] = {} /\ Present # {}
    /\ doomed' = [doomed EXCEPT ![c] = {}]
    /\ Goto(c, "find")
    /\ left' = [left EXCEPT ![c] = {}]
    /\ UNCHANGED <<hint, vfile, handle, work, born>>

\* The second pass swallows the exception and leaves the file.
SkipFile(c, f) ==
    /\ pc[c] = "sweep"
    /\ f \in doomed[c]
    /\ StorageErrors
    /\ doomed' = [doomed EXCEPT ![c] = @ \ {f}]
    /\ left' = [left EXCEPT ![c] = @ \cup {f}]
    /\ UNCHANGED <<hint, vfile, handle, pc, work, born>>

PurgeReturns(c) ==
    /\ pc[c] \in {"rm", "sweep"}
    /\ doomed[c] = {}
    /\ pc[c] = "rm" => ObjectStore \/ Present = {}
    /\ Goto(c, "idle")
    /\ left' = [left EXCEPT ![c] = {}]
    /\ UNCHANGED <<hint, vfile, handle, work, doomed, born>>

-----------------------------------------------------------------------------
(* What can go wrong.                                                       *)

Abandon(c) ==
    /\ Goto(c, "idle")
    /\ work' = [work EXCEPT ![c] = None]
    /\ doomed' = [doomed EXCEPT ![c] = {}]
    /\ left' = [left EXCEPT ![c] = {}]
    /\ UNCHANGED <<hint, vfile, born>>

\* The process dies between two file operations.
Crash(c) ==
    /\ pc[c] # "idle"
    /\ handle' = [handle EXCEPT ![c] = None]
    /\ Abandon(c)

\* A file operation raises out of the call; the caller keeps its Table object
\* and can use it again.
Raise(c) ==
    /\ StorageErrors
    /\ pc[c] \in {"put", "fill", "point", "unlink"}
    /\ UNCHANGED handle
    /\ Abandon(c)

-----------------------------------------------------------------------------
Create(c) == \E id \in TableIds : CreateTable(c, id)
Load(c)   == LoadHint(c) \/ LoadMeta(c)
Commit(c) == \E x \in Changes : CommitCheck(c, x)
Write(c)  == Put(c) \/ Fill(c) \/ Point(c) \/ PointReplyLost(c)
Drop(c)   ==
    \/ \E purge \in PurgeArgs : DropCheck(c, purge)
    \/ UnlinkHint(c)
    \/ ListFiles(c)
    \/ \E f \in Files : RemoveFile(c, f) \/ SkipFile(c, f)
    \/ RemoveRaises(c)
    \/ PurgeReturns(c)
Fail(c)   == Crash(c) \/ Raise(c)

Next ==
    \E c \in Clients :
        Create(c) \/ Load(c) \/ Commit(c) \/ Write(c) \/ Drop(c) \/ Fail(c)

Spec == Init /\ [][Next]_vars

-----------------------------------------------------------------------------
(* Properties.                                                              *)

Handles == [version : Versions, meta : Metadata]

\* Every variable has the type its comment says.
TypeOK ==
    /\ hint \in 0..MaxVersion
    /\ vfile \in [Versions -> Contents]
    /\ handle \in [Clients -> Handles \cup {None}]
    /\ pc \in [Clients -> Phases]
    /\ work \in [Clients -> [version : Versions, meta : Metadata \cup {None}]
                             \cup {None}]
    /\ doomed \in [Clients -> SUBSET Files]
    /\ born \subseteq TableIds
    /\ left \in [Clients -> SUBSET Files]

\* A version number is never reused for a different amount of history: the
\* metadata stored as v<N>, or held by a caller as version N, has exactly N-1
\* changes, whoever wrote it and in whatever order (commit writes
\* current_version + 1 from the metadata the caller loaded).
VersionCountsChanges ==
    /\ \A v \in Versions : Readable(v) => Len(vfile[v].log) + 1 = v
    /\ \A c \in Clients :
            handle[c] # None =>
                Len(handle[c].meta.log) + 1 = handle[c].version

\* "The whole table state is recoverable from version-hint.text": the hint
\* never names a metadata file that is missing or malformed.
PointerReadable == hint # 0 => Readable(hint)

\* Optimistic concurrency: of two callers that commit on the same version one
\* is refused, so two Table objects of one table and one version are equal.
SameVersionSameState ==
    \A c, d \in Clients :
        handle[c] # None /\ handle[d] # None
        /\ handle[c].version = handle[d].version
        /\ handle[c].meta.uuid = handle[d].meta.uuid
            => handle[c].meta = handle[d].meta

\* A version a caller has loaded stays on storage as the caller saw it, as
\* long as the table exists: commits only ever write versions nobody holds.
LoadedVersionsStay ==
    \A c \in Clients :
        hint # 0 /\ handle[c] # None =>
            /\ handle[c].version <= hint
            /\ vfile[handle[c].version] = handle[c].meta

\* table_uuid is "created at first write, never changes": only dropping a
\* table ends its identity.
TableUuidFixed ==
    [][hint # 0 /\ Readable(hint) /\ hint' # 0 /\ Readable(hint)'
        => vfile'[hint'].uuid = vfile[hint].uuid]_vars

\* When drop_table(purge=True) returns, the table's directory has no file in it but
\* those somebody wrote after the purge listed the directory, and those the
\* second, silent pass could not remove: orphans of failed commits go too.
PurgeLeavesOnlyNew ==
    [][\A c \in Clients : PurgeReturns(c) => Present' \subseteq left[c]]_vars

\* What is in the files is, at every moment, a table that TableHistory allows,
\* and every step changes it as TableHistory says: no committed change is ever
\* lost, replaced or reordered, and no dropped table comes back.
History == INSTANCE TableHistory WITH table <- Current, NoTable <- None
RefinesHistory == History!Spec

===============================================================================
