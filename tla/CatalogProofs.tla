----------------------------- MODULE CatalogProofs -----------------------------
(***************************************************************************)
(* Theorems about Catalog, for every number of clients and versions.       *)
(***************************************************************************)
EXTENDS Catalog, TLAPS

Building == {"put", "fill", "point"}

\* What a client is working on, by the phase it is in.
PhaseOK ==
    \A c \in Clients :
        /\ pc[c] \in Building => work[c] \in Handles
        /\ pc[c] = "load" => work[c] \in [version : Versions, meta : {None}]

TypeInv == TypeOK /\ PhaseOK

\* with_snapshot and with_schema add one entry to well-formed metadata.
LEMMA WithChangeGrows ==
    ASSUME NEW m \in Metadata, NEW x \in Changes
    PROVE  /\ WithChange(m, x) \in Metadata
           /\ WithChange(m, x).uuid = m.uuid
           /\ WithChange(m, x).log = Append(m.log, x)
           /\ Len(WithChange(m, x).log) = Len(m.log) + 1
BY DEF Metadata, WithChange

\* A file that is neither missing, truncated nor garbled holds metadata.
LEMMA ReadableIsMetadata ==
    ASSUME TypeOK, NEW v \in Versions
    PROVE  Readable(v) <=> vfile[v] \in Metadata
BY SentinelsAssumption DEF TypeOK, Contents, Readable

\* What a local write leaves in the file is something a file can hold.
LEMMA WrittenType ==
    ASSUME TypeInv, NEW c \in Clients, pc[c] = "fill"
    PROVE  Written(c) \subseteq Contents
<1>1. work[c].meta \in Metadata
  BY DEF TypeInv, PhaseOK, Building, Handles
<1> QED
  BY <1>1 DEF Written, Contents

LEMMA TypeInit == Init => TypeInv
BY ConstantsAssumption DEF Init, TypeInv, TypeOK, PhaseOK, Contents, Phases, Building

LEMMA RemainType ==
    ASSUME TypeOK, NEW f \in Files, MayRemain(f)
    PROVE  left' \in [Clients -> SUBSET Files]
BY DEF TypeOK, MayRemain

LEMMA TypeStep == TypeInv /\ [Next]_vars => TypeInv'
<1> SUFFICES ASSUME TypeInv, [Next]_vars PROVE TypeInv'
  OBVIOUS
<1> USE ConstantsAssumption DEF TypeInv
<1>1. CASE UNCHANGED vars
  BY <1>1 DEF TypeOK, PhaseOK, vars
<1>2. ASSUME NEW c \in Clients, Create(c) PROVE TypeInv'
  <2> PICK id \in TableIds : CreateTable(c, id)
    BY <1>2 DEF Create
  <2>1. [version |-> 1, meta |-> [uuid |-> id, log |-> <<>>]] \in Handles
    BY DEF Handles, Metadata, Versions
  <2>2. PhaseOK'
    BY <2>1 DEF CreateTable, Goto, Free, TypeOK, PhaseOK, Building
  <2>3. TypeOK'
    BY <2>1 DEF CreateTable, Goto, Free, TypeOK, Phases, Mutating, Handles
  <2> QED BY <2>2, <2>3
<1>3. ASSUME NEW c \in Clients, LoadHint(c) PROVE TypeInv'
  <2>1. [version |-> hint, meta |-> None]
            \in [version : Versions, meta : {None}]
    BY <1>3 DEF LoadHint, TypeOK, Versions
  <2>2. PhaseOK'
    BY <1>3, <2>1 DEF LoadHint, Goto, TypeOK, PhaseOK, Building
  <2>3. TypeOK'
    BY <1>3, <2>1 DEF LoadHint, Goto, TypeOK, Phases
  <2> QED BY <2>2, <2>3
<1>4. ASSUME NEW c \in Clients, LoadMeta(c) PROVE TypeInv'
  <2>1. work[c].version \in Versions
    BY <1>4 DEF LoadMeta, PhaseOK
  <2>2. handle' \in [Clients -> Handles \cup {None}]
    BY <1>4, <2>1, ReadableIsMetadata DEF LoadMeta, TypeOK, Handles
  <2>3. PhaseOK'
    BY <1>4 DEF LoadMeta, Goto, TypeOK, PhaseOK, Building
  <2>4. TypeOK'
    BY <1>4, <2>2 DEF LoadMeta, Goto, TypeOK, Phases
  <2> QED BY <2>3, <2>4
<1>5. ASSUME NEW c \in Clients, Commit(c) PROVE TypeInv'
  <2> PICK x \in Changes : CommitCheck(c, x)
    BY <1>5 DEF Commit
  <2>1. handle[c] \in Handles
    BY DEF CommitCheck, TypeOK
  <2>2. [version |-> handle[c].version + 1,
         meta |-> WithChange(handle[c].meta, x)] \in Handles
    BY <2>1, WithChangeGrows DEF CommitCheck, Handles, Versions
  <2>3. PhaseOK'
    BY <2>2 DEF CommitCheck, Goto, Free, TypeOK, PhaseOK, Building
  <2>4. TypeOK'
    BY <2>2 DEF CommitCheck, Goto, Free, TypeOK, Phases, Mutating, Handles
  <2> QED BY <2>3, <2>4
<1>6. ASSUME NEW c \in Clients, Put(c) PROVE TypeInv'
  <2>1. work[c] \in Handles
    BY <1>6 DEF Put, PhaseOK, Building
  <2>2. vfile' \in [Versions -> Contents]
    BY <1>6, <2>1 DEF Put, TypeOK, Contents, Handles
  <2>3. PhaseOK'
    BY <1>6, <2>1 DEF Put, Goto, TypeOK, PhaseOK, Building
  <2>4. left' \in [Clients -> SUBSET Files]
    BY <1>6, <2>1, RemainType DEF Put, Handles, Files
  <2>5. TypeOK'
    BY <1>6, <2>2, <2>4 DEF Put, Goto, TypeOK, Phases, Mutating
  <2> QED BY <2>3, <2>5
<1>7. ASSUME NEW c \in Clients, Fill(c) PROVE TypeInv'
  <2>1. PICK content \in Written(c) :
            vfile' = [vfile EXCEPT ![work[c].version] = content]
    BY <1>7 DEF Fill
  <2>2. content \in Contents
    BY <1>7, <2>1, WrittenType DEF Fill
  <2>3. PhaseOK'
    BY <1>7 DEF Fill, Goto, TypeOK, PhaseOK, Building
  <2>4. left' \in [Clients -> SUBSET Files]
    BY <1>7, RemainType DEF Fill, PhaseOK, Building, Handles, Files
  <2>5. TypeOK'
    BY <1>7, <2>1, <2>2, <2>4 DEF Fill, Goto, TypeOK, Phases, Mutating
  <2> QED BY <2>3, <2>5
<1>8. ASSUME NEW c \in Clients, Point(c) \/ PointReplyLost(c) PROVE TypeInv'
  <2>1. work[c] \in Handles
    BY <1>8 DEF Point, PointReplyLost, PhaseOK, Building
  <2>2. PhaseOK'
    BY <1>8 DEF Point, PointReplyLost, Goto, TypeOK, PhaseOK, Building
  <2>3. pc' \in [Clients -> Phases] /\ work' = [work EXCEPT ![c] = None]
    BY <1>8 DEF Point, PointReplyLost, Goto, TypeOK, Phases
  <2>4. hint' \in 0..MaxVersion
    BY <1>8, <2>1 DEF Point, PointReplyLost, Handles, Versions
  <2>5. handle' \in [Clients -> Handles \cup {None}]
    BY <1>8, <2>1 DEF Point, PointReplyLost, TypeOK
  <2>6. left' \in [Clients -> SUBSET Files]
    BY <1>8, RemainType DEF Point, PointReplyLost, Files
  <2>7. TypeOK'
    BY <1>8, <2>3, <2>4, <2>5, <2>6 DEF Point, PointReplyLost, TypeOK
  <2> QED BY <2>2, <2>7
<1>9. ASSUME NEW c \in Clients, Drop(c) PROVE TypeInv'
  <2>1. PhaseOK'
    BY <1>9 DEF Drop, DropCheck, UnlinkHint, ListFiles, RemoveFile, SkipFile,
                RemoveRaises, PurgeReturns, Goto, TypeOK, PhaseOK, Building
  <2>2. Present \subseteq Files
    BY DEF Present, Files, HintFile
  <2>3. ASSUME \/ \E purge \in PurgeArgs : DropCheck(c, purge)
               \/ UnlinkHint(c)
               \/ ListFiles(c)
        PROVE  TypeOK'
    <3>1. pc' \in [Clients -> Phases]
      BY <2>3 DEF DropCheck, UnlinkHint, ListFiles, Goto, TypeOK, Phases,
                  Mutating
    <3>2. hint' \in 0..MaxVersion /\ doomed' \in [Clients -> SUBSET Files]
      BY <2>2, <2>3 DEF DropCheck, UnlinkHint, ListFiles, TypeOK
    <3> QED
      BY <2>3, <3>1, <3>2 DEF DropCheck, UnlinkHint, ListFiles, TypeOK
  <2>4. ASSUME NEW f \in Files, RemoveFile(c, f) PROVE TypeOK'
    <3>1. vfile' \in [Versions -> Contents]
      BY <2>4 DEF RemoveFile, TypeOK, Contents, Files, HintFile
    <3>2. hint' \in 0..MaxVersion
      BY <2>4 DEF RemoveFile, TypeOK
    <3>3. doomed' \in [Clients -> SUBSET Files]
      BY <2>4 DEF RemoveFile, TypeOK
    <3> QED BY <2>4, <3>1, <3>2, <3>3 DEF RemoveFile, TypeOK
  <2>5. ASSUME NEW f \in Files, SkipFile(c, f) PROVE TypeOK'
    BY <2>5 DEF SkipFile, TypeOK
  <2>6. ASSUME RemoveRaises(c) PROVE TypeOK'
    BY <2>6 DEF RemoveRaises, Goto, TypeOK, Phases, Mutating
  <2>7. ASSUME PurgeReturns(c) PROVE TypeOK'
    BY <2>7 DEF PurgeReturns, Goto, TypeOK, Phases
  <2>8. TypeOK'
    BY <1>9, <2>3, <2>4, <2>5, <2>6, <2>7 DEF Drop
  <2> QED BY <2>1, <2>8
<1>10. ASSUME NEW c \in Clients, Fail(c) PROVE TypeInv'
  <2>1. PhaseOK'
    BY <1>10 DEF Fail, Crash, Raise, Abandon, Goto, TypeOK, PhaseOK, Building
  <2>2. TypeOK'
    BY <1>10 DEF Fail, Crash, Raise, Abandon, Goto, TypeOK, Phases, Mutating
  <2> QED BY <2>1, <2>2
<1> QED
  BY <1>1, <1>2, <1>3, <1>4, <1>5, <1>6, <1>7, <1>8, <1>9, <1>10
  DEF Next, Load, Write

LEMMA TypeInvariant == Spec => []TypeInv
BY TypeInit, TypeStep, PTL DEF Spec

\* Every variable keeps its type, whatever the clients do.
THEOREM TypeCorrect == Spec => []TypeOK
BY TypeInvariant, PTL DEF TypeInv

-----------------------------------------------------------------------------
(* Version numbers count changes: with any number of writers, any storage,   *)
(* crashes, drops and purges.  The invariant adds the metadata that is about *)
(* to be written, which becomes a file and then a handle.                    *)

CountInv ==
    /\ VersionCountsChanges
    /\ \A c \in Clients :
            pc[c] \in Building => Len(work[c].meta.log) + 1 = work[c].version

LEMMA CountInit == Init => CountInv
BY DEF Init, CountInv, VersionCountsChanges, Readable, Building

LEMMA CountStep == TypeInv /\ CountInv /\ [Next]_vars => CountInv'
<1> SUFFICES ASSUME TypeInv, CountInv, [Next]_vars PROVE CountInv'
  OBVIOUS
<1> USE DEF CountInv
<1>t. TypeOK /\ PhaseOK
  BY DEF TypeInv
<1>1. CASE UNCHANGED vars
  BY <1>1 DEF VersionCountsChanges, Readable, vars
<1>2. ASSUME NEW c \in Clients, Create(c) PROVE CountInv'
  BY <1>2, <1>t
  DEF Create, CreateTable, Goto, Free, TypeOK, VersionCountsChanges, Readable,
      Building
<1>3. ASSUME NEW c \in Clients, LoadHint(c) PROVE CountInv'
  BY <1>3, <1>t
  DEF LoadHint, Goto, TypeOK, VersionCountsChanges, Readable, Building
<1>4. ASSUME NEW c \in Clients, LoadMeta(c) PROVE CountInv'
  <2>1. work[c].version \in Versions
    BY <1>4, <1>t DEF LoadMeta, PhaseOK
  <2> QED
    BY <1>4, <1>t, <2>1
    DEF LoadMeta, Goto, TypeOK, VersionCountsChanges, Readable, Building
<1>5. ASSUME NEW c \in Clients, Commit(c) PROVE CountInv'
  <2> PICK x \in Changes : CommitCheck(c, x)
    BY <1>5 DEF Commit
  <2>1. handle[c] \in Handles /\ Len(handle[c].meta.log) + 1 = handle[c].version
    BY <1>t DEF CommitCheck, TypeOK, VersionCountsChanges
  <2>2. Len(WithChange(handle[c].meta, x).log) = handle[c].version
    BY <2>1, WithChangeGrows DEF Handles, Metadata
  <2> QED
    BY <1>t, <2>2
    DEF CommitCheck, Goto, Free, TypeOK, VersionCountsChanges, Readable, Building
<1>6. ASSUME NEW c \in Clients, Put(c) PROVE CountInv'
  <2>1. work[c] \in Handles
    BY <1>6, <1>t DEF Put, PhaseOK, Building
  <2> QED
    BY <1>6, <1>t, <2>1
    DEF Put, Goto, TypeOK, VersionCountsChanges, Readable, Building, Handles
<1>7. ASSUME NEW c \in Clients, Fill(c) PROVE CountInv'
  <2>1. work[c] \in Handles
    BY <1>7, <1>t DEF Fill, PhaseOK, Building
  <2>2. PICK content \in {None, Garbled, work[c].meta} :
            vfile' = [vfile EXCEPT ![work[c].version] = content]
    BY <1>7 DEF Fill, Written
  <2> QED
    BY <1>7, <1>t, <2>1, <2>2
    DEF Fill, Goto, TypeOK, VersionCountsChanges, Readable, Building, Handles
<1>8. ASSUME NEW c \in Clients, Point(c) \/ PointReplyLost(c) PROVE CountInv'
  BY <1>8, <1>t
  DEF Point, PointReplyLost, Goto, TypeOK, VersionCountsChanges, Readable,
      Building
<1>9. ASSUME NEW c \in Clients, Drop(c) PROVE CountInv'
  <2>1. VersionCountsChanges'
    BY <1>9, <1>t
    DEF Drop, DropCheck, UnlinkHint, ListFiles, RemoveFile, SkipFile,
        RemoveRaises, PurgeReturns, TypeOK, VersionCountsChanges, Readable
  <2> QED
    BY <1>9, <1>t, <2>1
    DEF Drop, DropCheck, UnlinkHint, ListFiles, RemoveFile, SkipFile,
        RemoveRaises, PurgeReturns, Goto, TypeOK, Building
<1>10. ASSUME NEW c \in Clients, Fail(c) PROVE CountInv'
  BY <1>10, <1>t
  DEF Fail, Crash, Raise, Abandon, Goto, TypeOK, VersionCountsChanges, Readable,
      Building
<1> QED
  BY <1>1, <1>2, <1>3, <1>4, <1>5, <1>6, <1>7, <1>8, <1>9, <1>10
  DEF Next, Load, Write

\* v<N>.metadata.json holds N-1 changes, and so does what a caller holds as
\* version N: commit never numbers a version wrongly, not even in a race.
THEOREM VersionsCount == Spec => []VersionCountsChanges
BY TypeInvariant, CountInit, CountStep, PTL DEF Spec, CountInv

-----------------------------------------------------------------------------
(* On an object store the hint always names a readable file, with any number *)
(* of writers, as long as nobody purges: metadata is stored whole before the *)
(* hint moves to it, and nothing removes or truncates it.                    *)

PointerInv ==
    /\ PointerReadable
    /\ \A c \in Clients :
            /\ pc[c] \notin {"fill", "list", "rm", "find", "sweep"}
            /\ pc[c] = "point" => Readable(work[c].version)

LEMMA PointerStep ==
    ASSUME ObjectStore, TRUE \notin PurgeArgs
    PROVE  TypeInv /\ PointerInv /\ [Next]_vars => PointerInv'
<1> SUFFICES ASSUME TypeInv, PointerInv, [Next]_vars PROVE PointerInv'
  OBVIOUS
<1> USE DEF PointerInv
<1>t. TypeOK /\ PhaseOK
  BY DEF TypeInv
<1>1. CASE UNCHANGED vars
  BY <1>1 DEF PointerReadable, Readable, vars
<1>2. ASSUME NEW c \in Clients, Create(c) PROVE PointerInv'
  BY <1>2, <1>t
  DEF Create, CreateTable, Goto, TypeOK, PointerReadable, Readable
<1>3. ASSUME NEW c \in Clients, Load(c) PROVE PointerInv'
  BY <1>3, <1>t
  DEF Load, LoadHint, LoadMeta, Goto, TypeOK, PointerReadable, Readable
<1>5. ASSUME NEW c \in Clients, Commit(c) PROVE PointerInv'
  BY <1>5, <1>t
  DEF Commit, CommitCheck, Goto, TypeOK, PointerReadable, Readable
<1>6. ASSUME NEW c \in Clients, Put(c) PROVE PointerInv'
  <2>1. /\ work[c].version \in Versions
        /\ work[c].meta \notin {None, Truncated, Garbled}
    BY <1>6, <1>t, SentinelsAssumption DEF Put, PhaseOK, Building, Handles
  <2>2. vfile' = [vfile EXCEPT ![work[c].version] = work[c].meta]
    BY <1>6 DEF Put
  <2>3. \A v \in Versions : Readable(v) => Readable(v)'
    BY <2>1, <2>2, <1>t DEF Readable, TypeOK
  <2>4. Readable(work[c].version)'
    BY <1>6, <2>1, <2>2, <1>t DEF Readable, TypeOK, Put
  <2>5. \A d \in Clients : pc[d] = "point" => work[d].version \in Versions
    BY <1>t DEF PhaseOK, Building, Handles
  <2>6. hint # 0 => hint \in Versions
    BY <1>t DEF TypeOK, Versions
  <2> QED
    BY <1>6, <1>t, <2>3, <2>4, <2>5, <2>6
    DEF Put, Goto, TypeOK, PointerReadable
<1>7. ASSUME NEW c \in Clients, Fill(c) PROVE PointerInv'
  BY <1>7 DEF Fill
<1>8. ASSUME NEW c \in Clients, Point(c) \/ PointReplyLost(c) PROVE PointerInv'
  BY <1>8, <1>t
  DEF Point, PointReplyLost, Goto, TypeOK, PointerReadable, Readable
<1>9. ASSUME NEW c \in Clients, Drop(c) PROVE PointerInv'
  <2>1. \/ \E purge \in PurgeArgs : DropCheck(c, purge)
        \/ UnlinkHint(c)
    BY <1>9
    DEF Drop, ListFiles, RemoveFile, SkipFile, RemoveRaises, PurgeReturns
  <2>2. \A purge \in PurgeArgs : purge = FALSE
    BY ConstantsAssumption
  <2> QED
    BY <2>1, <2>2, <1>t
    DEF DropCheck, UnlinkHint, Goto, TypeOK, PointerReadable, Readable
<1>10. ASSUME NEW c \in Clients, Fail(c) PROVE PointerInv'
  BY <1>10, <1>t
  DEF Fail, Crash, Raise, Abandon, Goto, TypeOK, PointerReadable, Readable
<1> QED
  BY <1>1, <1>2, <1>3, <1>5, <1>6, <1>7, <1>8, <1>9, <1>10 DEF Next, Write

\* The table is recoverable from version-hint.text on S3: the hint never names
\* a missing or partial metadata file, even when commits race and writers die.
THEOREM PointerSafeOnObjectStore ==
    ASSUME ObjectStore, TRUE \notin PurgeArgs
    PROVE  Spec => []PointerReadable
<1>1. Init => PointerInv
  BY DEF Init, PointerInv, PointerReadable
<1> QED
  BY <1>1, TypeInvariant, PointerStep, PTL DEF Spec, PointerInv

-----------------------------------------------------------------------------
(* One writer at a time, no purge and no table created twice under the same  *)
(* name: then the files implement TableHistory, on a local disk as well as   *)
(* on an object store, through crashes, errors and lost replies.             *)

OneLife ==
    /\ SingleWriter
    /\ TRUE \notin PurgeArgs
    /\ \A t, u \in TableIds : t = u

OneMutator ==
    /\ \A c, d \in Clients : pc[c] \in Mutating /\ pc[d] \in Mutating => c = d
    /\ \A c \in Clients : pc[c] \notin {"list", "rm", "find", "sweep"}

\* A version that was loaded or committed is on storage, unchanged.
HandlesStored ==
    \A c \in Clients : handle[c] # None =>
        /\ vfile[handle[c].version] = handle[c].meta
        /\ hint # 0 => handle[c].version <= hint

LoadsKnown ==
    \A c \in Clients : pc[c] = "load" /\ hint # 0 => work[c].version <= hint

\* The version being written is the next one, its metadata that of a new table
\* or the current one with one more change.
BuildsNext ==
    \A c \in Clients : pc[c] \in Building =>
        /\ work[c].version = hint + 1
        /\ hint = 0 => work[c].meta.log = <<>>
        /\ hint # 0 => \E x \in Changes : work[c].meta = WithChange(vfile[hint], x)
        /\ pc[c] = "fill" => vfile[work[c].version] = Truncated
        /\ pc[c] = "point" => vfile[work[c].version] = work[c].meta

\* Without a hint either nobody has seen the table yet, or it was dropped for
\* good.
BornOnce ==
    /\ \A c \in Clients :
            pc[c] \in Building \cup {"unlink"} => TableIds \subseteq born
    /\ hint # 0 => TableIds \subseteq born
    /\ hint = 0 => \/ \A c \in Clients : handle[c] = None /\ pc[c] # "load"
                   \/ /\ TableIds \subseteq born
                      /\ \A c \in Clients : pc[c] \notin Building

HistoryInv ==
    /\ OneMutator
    /\ PointerReadable
    /\ HandlesStored
    /\ LoadsKnown
    /\ BuildsNext
    /\ BornOnce

LEMMA HistoryInit == Init => HistoryInv
BY DEF Init, HistoryInv, OneMutator, PointerReadable, HandlesStored, LoadsKnown,
       BuildsNext, BornOnce, Mutating, Building

LEMMA HistoryStep ==
    ASSUME OneLife
    PROVE  TypeInv /\ HistoryInv /\ [Next]_vars => HistoryInv'
<1> SUFFICES ASSUME TypeInv, HistoryInv, [Next]_vars PROVE HistoryInv'
  OBVIOUS
<1> USE DEF HistoryInv
<1>t. TypeOK /\ PhaseOK
  BY DEF TypeInv
<1>h. hint # 0 => hint \in Versions
  BY <1>t DEF TypeOK, Versions
<1>a. SingleWriter
  BY DEF OneLife
<1>b. Building \subseteq Mutating /\ "load" \notin Mutating /\ "idle" \notin Mutating
  BY DEF Building, Mutating
<1>1. CASE UNCHANGED vars
  BY <1>1 DEF vars, OneMutator, PointerReadable, Readable, HandlesStored,
              LoadsKnown, BuildsNext, BornOnce
<1>2. ASSUME NEW c \in Clients, Create(c) PROVE HistoryInv'
  <2> PICK id \in TableIds : CreateTable(c, id)
    BY <1>2 DEF Create
  <2> USE DEF CreateTable, Goto
  <2>1. TableIds \subseteq born'
    BY DEF OneLife
  <2>2. \A d \in Clients : handle[d] = None /\ pc[d] # "load"
    BY DEF BornOnce
  <2>3. \A d \in Clients : pc[d] \notin Mutating
    BY <1>a DEF Free
  <2>4. OneMutator'
    BY <1>t, <2>3 DEF OneMutator, TypeOK
  <2>5. BuildsNext'
    BY <1>t, <1>b, <2>3 DEF BuildsNext, TypeOK
  <2>6. BornOnce'
    BY <1>t, <2>1, <2>2 DEF BornOnce, TypeOK
  <2> QED
    BY <1>t, <2>2, <2>4, <2>5, <2>6
    DEF TypeOK, PointerReadable, Readable, HandlesStored, LoadsKnown
<1>3. ASSUME NEW c \in Clients, LoadHint(c) PROVE HistoryInv'
  <2> USE DEF LoadHint, Goto
  <2>1. OneMutator'
    BY <1>3, <1>t, <1>b DEF OneMutator, TypeOK
  <2>2. BuildsNext'
    BY <1>3, <1>t DEF BuildsNext, TypeOK, Building
  <2>3. BornOnce'
    BY <1>3, <1>t DEF BornOnce, TypeOK, Building
  <2>4. LoadsKnown'
    BY <1>3, <1>t DEF LoadsKnown, TypeOK
  <2> QED
    BY <1>3, <2>1, <2>2, <2>3, <2>4 DEF PointerReadable, Readable, HandlesStored
<1>4. ASSUME NEW c \in Clients, LoadMeta(c) PROVE HistoryInv'
  <2> USE DEF LoadMeta, Goto
  <2>1. OneMutator'
    BY <1>4, <1>t, <1>b DEF OneMutator, TypeOK
  <2>2. BuildsNext'
    BY <1>4, <1>t DEF BuildsNext, TypeOK, Building
  <2>3. BornOnce'
    BY <1>4, <1>t DEF BornOnce, TypeOK, Building
  <2>4. LoadsKnown'
    BY <1>4, <1>t DEF LoadsKnown, TypeOK
  <2>5. HandlesStored'
    BY <1>4, <1>t DEF HandlesStored, LoadsKnown, TypeOK
  <2> QED
    BY <1>4, <2>1, <2>2, <2>3, <2>4, <2>5 DEF PointerReadable, Readable
<1>5. ASSUME NEW c \in Clients, Commit(c) PROVE HistoryInv'
  <2> PICK x \in Changes : CommitCheck(c, x)
    BY <1>5 DEF Commit
  <2> USE DEF CommitCheck, Goto
  <2>1. handle[c] \in Handles /\ hint # 0
    BY <1>t DEF TypeOK, Handles, Versions
  <2>2. handle[c].meta = vfile[hint]
    BY DEF HandlesStored
  <2>3. \A d \in Clients : pc[d] \notin Mutating
    BY <1>a DEF Free
  <2>4. OneMutator'
    BY <1>t, <2>3 DEF OneMutator, TypeOK
  <2>5. BuildsNext'
    BY <1>t, <1>b, <2>1, <2>2, <2>3 DEF BuildsNext, TypeOK
  <2>6. BornOnce'
    BY <1>t, <2>1 DEF BornOnce, TypeOK
  <2>7. LoadsKnown'
    BY <1>t DEF LoadsKnown, TypeOK
  <2> QED
    BY <2>4, <2>5, <2>6, <2>7 DEF PointerReadable, Readable, HandlesStored
<1>6. ASSUME NEW c \in Clients, Put(c) PROVE HistoryInv'
  <2> USE DEF Put, Goto
  <2>1. work[c] \in Handles /\ work[c].version = hint + 1
    BY <1>6, <1>t DEF PhaseOK, Building, BuildsNext
  <2>2. \A d \in Clients \ {c} : pc[d] \notin Mutating
    BY <1>6 DEF OneMutator, Mutating
  <2>3. OneMutator'
    BY <1>6, <1>t, <2>2 DEF OneMutator, TypeOK, Mutating
  <2>4. hint # 0 => vfile'[hint] = vfile[hint]
    BY <1>6, <1>h, <1>t, <2>1 DEF TypeOK, Handles
  <2>5. BuildsNext'
    BY <1>6, <1>b, <1>t, <2>1, <2>2, <2>4 DEF BuildsNext, TypeOK, Handles, Building
  <2>6. BornOnce'
    BY <1>6, <1>t DEF BornOnce, TypeOK, Building
  <2>7. HandlesStored'
    <3>1. \A d \in Clients : handle[d] # None => handle[d].version # work[c].version
      <4>1. CASE hint = 0
        BY <4>1, <1>6 DEF BornOnce, Building
      <4>2. CASE hint # 0
        BY <4>2, <2>1, <1>t DEF HandlesStored, TypeOK, Handles, Versions
      <4> QED BY <4>1, <4>2
    <3>2. \A d \in Clients : handle[d] # None => handle[d].version \in Versions
      BY <1>t DEF TypeOK, Handles
    <3> QED
      BY <1>6, <1>t, <2>1, <3>1, <3>2 DEF HandlesStored, TypeOK
  <2>8. PointerReadable'
    BY <1>6, <2>4 DEF PointerReadable, Readable
  <2>9. LoadsKnown'
    BY <1>6, <1>t DEF LoadsKnown, TypeOK
  <2> QED BY <2>3, <2>5, <2>6, <2>7, <2>8, <2>9
<1>7. ASSUME NEW c \in Clients, Fill(c) PROVE HistoryInv'
  <2> USE DEF Fill, Goto
  <2>1. /\ work[c] \in Handles /\ work[c].version = hint + 1
        /\ vfile[work[c].version] = Truncated
    BY <1>7, <1>t DEF PhaseOK, Building, BuildsNext
  <2>2. \A d \in Clients \ {c} : pc[d] \notin Mutating
    BY <1>7 DEF OneMutator, Mutating
  <2>3. Written(c) = {work[c].meta}
    BY <2>1, <2>2, SentinelsAssumption DEF Written, Mutating
  <2>4. vfile' = [vfile EXCEPT ![work[c].version] = work[c].meta]
    BY <1>7, <2>3
  <2>5. OneMutator'
    BY <1>7, <1>t, <2>2 DEF OneMutator, TypeOK, Mutating
  <2>6. hint # 0 => vfile'[hint] = vfile[hint]
    BY <1>h, <1>t, <2>1, <2>4 DEF TypeOK, Handles
  <2>7. BuildsNext'
    BY <1>7, <1>b, <1>t, <2>1, <2>2, <2>4, <2>6
    DEF BuildsNext, TypeOK, Handles, Building
  <2>8. BornOnce'
    BY <1>7, <1>t DEF BornOnce, TypeOK, Building
  <2>9. HandlesStored'
    <3>1. \A d \in Clients : handle[d] # None =>
                vfile[handle[d].version] \in Metadata
      BY <1>t DEF HandlesStored, TypeOK, Handles
    <3>2. \A d \in Clients : handle[d] # None => handle[d].version # work[c].version
      BY <2>1, <3>1, SentinelsAssumption
    <3>3. \A d \in Clients : handle[d] # None => handle[d].version \in Versions
      BY <1>t DEF TypeOK, Handles
    <3> QED
      BY <1>7, <1>t, <2>1, <2>4, <3>2, <3>3 DEF HandlesStored, TypeOK
  <2>10. PointerReadable' /\ LoadsKnown'
    BY <1>7, <1>t, <2>6 DEF PointerReadable, Readable, LoadsKnown, TypeOK
  <2> QED BY <2>5, <2>7, <2>8, <2>9, <2>10
<1>8. ASSUME NEW c \in Clients, Point(c) \/ PointReplyLost(c) PROVE HistoryInv'
  <2> USE DEF Point, PointReplyLost, Goto
  <2>1. /\ work[c] \in Handles /\ work[c].version = hint + 1
        /\ vfile[work[c].version] = work[c].meta
        /\ hint' = work[c].version
        /\ pc[c] \in Building
    BY <1>8, <1>t DEF PhaseOK, Building, BuildsNext
  <2>2. \A d \in Clients \ {c} : pc[d] \notin Mutating
    BY <1>8 DEF OneMutator, Mutating
  <2>3. OneMutator'
    BY <1>8, <1>t, <1>b, <2>2 DEF OneMutator, TypeOK
  <2>4. \A d \in Clients : pc'[d] \notin Mutating
    BY <1>8, <1>t, <1>b, <2>2 DEF TypeOK
  <2>5. BuildsNext'
    BY <1>b, <2>4 DEF BuildsNext
  <2>6. BornOnce'
    BY <1>8, <1>t, <2>1 DEF BornOnce, TypeOK, Handles, Versions
  <2>7. HandlesStored'
    <3>1. \A d \in Clients : handle[d] # None => handle[d] \in Handles
      BY <1>t DEF TypeOK
    <3>2. \A d \in Clients : handle[d] # None => handle[d].version <= hint'
      <4>1. CASE hint = 0
        BY <4>1, <2>1 DEF BornOnce
      <4>2. CASE hint # 0
        BY <4>2, <2>1, <3>1, <1>h DEF HandlesStored, Handles, Versions
      <4> QED BY <4>1, <4>2
    <3>3. work[c].version <= hint'
      BY <2>1 DEF Handles, Versions
    <3>4. handle' = handle \/ handle' = [handle EXCEPT ![c] = work[c]]
      BY <1>8
    <3> QED
      BY <1>8, <1>t, <2>1, <3>2, <3>3, <3>4 DEF HandlesStored, TypeOK
  <2>8. PointerReadable'
    BY <1>8, <2>1, SentinelsAssumption DEF PointerReadable, Readable, Handles
  <2>9. LoadsKnown'
    BY <1>8, <1>t, <2>1
    DEF LoadsKnown, TypeOK, PhaseOK, Handles, Versions, BornOnce
  <2> QED BY <2>3, <2>5, <2>6, <2>7, <2>8, <2>9
<1>9. ASSUME NEW c \in Clients, Drop(c) PROVE HistoryInv'
  <2>1. \/ DropCheck(c, FALSE) /\ FALSE \in PurgeArgs
        \/ UnlinkHint(c)
    <3>1. \/ \E purge \in PurgeArgs : DropCheck(c, purge)
          \/ UnlinkHint(c)
      BY <1>9
      DEF Drop, ListFiles, RemoveFile, SkipFile, RemoveRaises, PurgeReturns,
          OneMutator
    <3>2. \A purge \in PurgeArgs : purge = FALSE
      BY ConstantsAssumption DEF OneLife
    <3> QED BY <3>1, <3>2
  <2> USE DEF Goto
  <2>2. CASE DropCheck(c, FALSE)
    <3>1. \A d \in Clients : pc[d] \notin Mutating
      BY <1>a, <2>2 DEF Free, DropCheck
    <3>2. OneMutator'
      BY <1>t, <2>2, <3>1 DEF OneMutator, TypeOK, DropCheck
    <3>3. BuildsNext'
      BY <1>t, <1>b, <2>2, <3>1 DEF BuildsNext, TypeOK, DropCheck, Building
    <3>4. BornOnce' /\ LoadsKnown'
      BY <1>t, <2>2 DEF BornOnce, LoadsKnown, TypeOK, DropCheck, Building
    <3> QED
      BY <2>2, <3>2, <3>3, <3>4
      DEF DropCheck, PointerReadable, Readable, HandlesStored
  <2>3. CASE UnlinkHint(c)
    <3> USE DEF UnlinkHint
    <3>1. \A d \in Clients \ {c} : pc[d] \notin Mutating
      BY <2>3 DEF OneMutator, Mutating
    <3>2. \A d \in Clients : pc'[d] \notin Mutating
      BY <2>3, <1>t, <1>b, <3>1 DEF TypeOK
    <3>3. OneMutator'
      BY <3>2 DEF OneMutator, Mutating
    <3>4. BuildsNext'
      BY <1>b, <3>2 DEF BuildsNext
    <3>5. TableIds \subseteq born
      BY <2>3, <1>t, <1>b DEF BornOnce, OneLife, Building
    <3>6. BornOnce'
      BY <2>3, <1>b, <3>2, <3>5 DEF BornOnce
    <3> QED
      BY <2>3, <3>3, <3>4, <3>6 DEF PointerReadable, HandlesStored, LoadsKnown
  <2> QED BY <2>1, <2>2, <2>3
<1>10. ASSUME NEW c \in Clients, Fail(c) PROVE HistoryInv'
  <2> USE DEF Fail, Crash, Raise, Abandon, Goto
  <2>1. OneMutator'
    BY <1>10, <1>t, <1>b DEF OneMutator, TypeOK
  <2>2. BuildsNext'
    BY <1>10, <1>t DEF BuildsNext, TypeOK, Building
  <2>3. BornOnce'
    BY <1>10, <1>t DEF BornOnce, TypeOK, Building
  <2>4. HandlesStored' /\ LoadsKnown'
    BY <1>10, <1>t DEF HandlesStored, LoadsKnown, TypeOK
  <2> QED
    BY <1>10, <2>1, <2>2, <2>3, <2>4 DEF PointerReadable, Readable
<1> QED
  BY <1>1, <1>2, <1>3, <1>4, <1>5, <1>6, <1>7, <1>8, <1>9, <1>10
  DEF Next, Load, Write

LEMMA HistoryInvariant ==
    ASSUME OneLife
    PROVE  Spec => [](TypeInv /\ HistoryInv)
BY TypeInvariant, HistoryInit, HistoryStep, PTL DEF Spec

\* Every step of the catalog is a step of the abstract table, or leaves it as
\* it is.
LEMMA HistoryRefinementStep ==
    ASSUME OneLife
    PROVE  TypeInv /\ HistoryInv /\ [Next]_vars => [History!Next]_Current
<1> SUFFICES ASSUME TypeInv, HistoryInv, [Next]_vars
             PROVE  [History!Next]_Current
  OBVIOUS
<1> USE DEF HistoryInv
<1>t. TypeOK /\ PhaseOK
  BY DEF TypeInv
<1>h. hint # 0 => hint \in Versions
  BY <1>t DEF TypeOK, Versions
<1>1. CASE UNCHANGED <<hint, vfile>>
  BY <1>1 DEF Current
<1>2. ASSUME NEW c \in Clients, Put(c) \/ Fill(c) PROVE Current' = Current
  <2>1. work[c] \in Handles /\ work[c].version = hint + 1 /\ hint' = hint
    BY <1>2, <1>t DEF Put, Fill, PhaseOK, Building, BuildsNext
  <2>2. PICK content : vfile' = [vfile EXCEPT ![work[c].version] = content]
    BY <1>2 DEF Put, Fill
  <2> QED
    BY <1>h, <1>t, <2>1, <2>2 DEF Current, Handles, TypeOK
<1>3. ASSUME NEW c \in Clients, Point(c) \/ PointReplyLost(c)
      PROVE  History!Next
  <2>1. /\ work[c] \in Handles /\ work[c].version = hint + 1
        /\ vfile[work[c].version] = work[c].meta
        /\ hint' = work[c].version /\ vfile' = vfile
        /\ pc[c] \in Building
    BY <1>3, <1>t DEF Point, PointReplyLost, PhaseOK, Building, BuildsNext
  <2>2. Current' = work[c].meta /\ work[c].meta \in Metadata
    BY <2>1 DEF Current, Handles, Versions
  <2>3. CASE hint = 0
    <3>1. work[c].meta = [uuid |-> work[c].meta.uuid, log |-> <<>>]
      BY <2>1, <2>2, <2>3 DEF BuildsNext, Metadata
    <3>2. History!Create(work[c].meta.uuid)
      BY <2>2, <2>3, <3>1 DEF History!Create, Current
    <3> QED
      BY <2>2, <3>2 DEF History!Next, Metadata
  <2>4. CASE hint # 0
    <3>1. PICK x \in Changes : work[c].meta = WithChange(vfile[hint], x)
      BY <2>1, <2>4 DEF BuildsNext
    <3>2. Current # None
      BY <2>4 DEF PointerReadable, Readable, Current
    <3>3. History!Commit(x)
      BY <2>2, <2>4, <3>1, <3>2 DEF History!Commit, Current, WithChange
    <3> QED
      BY <3>3 DEF History!Next
  <2> QED BY <2>3, <2>4
<1>4. ASSUME NEW c \in Clients, UnlinkHint(c) PROVE [History!Next]_Current
  BY <1>4
  DEF UnlinkHint, Current, History!Next, History!Drop, PointerReadable, Readable
<1>5. ASSUME NEW c \in Clients, Drop(c), ~UnlinkHint(c)
      PROVE  UNCHANGED <<hint, vfile>>
  BY <1>5
  DEF Drop, DropCheck, ListFiles, RemoveFile, SkipFile, RemoveRaises,
      PurgeReturns, OneMutator
<1>6. ASSUME NEW c \in Clients, Create(c) \/ Load(c) \/ Commit(c) \/ Fail(c)
      PROVE  UNCHANGED <<hint, vfile>>
  BY <1>6
  DEF Create, CreateTable, Load, LoadHint, LoadMeta, Commit, CommitCheck, Fail,
      Crash, Raise, Abandon
<1>7. CASE UNCHANGED vars
  BY <1>7 DEF vars, Current
<1> QED
  BY <1>1, <1>2, <1>3, <1>4, <1>5, <1>6, <1>7 DEF Next, Write

\* With one writer at a time, no purge and no reuse of a dropped name, the
\* files always are a table of TableHistory: commits only ever extend what was
\* committed before them, across crashes, errors and lost replies.
THEOREM CatalogRefinesHistory ==
    ASSUME OneLife
    PROVE  Spec => RefinesHistory
<1>1. Init => History!Init
  BY DEF Init, History!Init, Current
<1> QED
  BY <1>1, HistoryInvariant, HistoryRefinementStep, PTL
  DEF Spec, RefinesHistory, History!Spec

\* Under the same conditions a version once loaded or committed stays on
\* storage as it was, so that a commit never overwrites one.
THEOREM LoadedVersionsSafe ==
    ASSUME OneLife
    PROVE  Spec => []LoadedVersionsStay
<1>1. TypeInv /\ HistoryInv => LoadedVersionsStay
  BY DEF HistoryInv, HandlesStored, LoadedVersionsStay
<1> QED
  BY <1>1, HistoryInvariant, PTL

\* Under the same conditions two Table objects of one version are equal: of two
\* commits on one version only one succeeds.
THEOREM OneWinnerPerVersion ==
    ASSUME OneLife
    PROVE  Spec => []SameVersionSameState
<1>1. TypeInv /\ HistoryInv => SameVersionSameState
  BY DEF HistoryInv, HandlesStored, SameVersionSameState
<1> QED
  BY <1>1, HistoryInvariant, PTL

-----------------------------------------------------------------------------
(* A purge removes all it found.                                              *)

Purging(d) == pc[d] \in {"rm", "sweep"}

\* What is there during a purge is yet to be removed, or may stay.
PurgeInv == \A d \in Clients : Purging(d) => Present \subseteq doomed[d] \cup left[d]

\* A step that adds no file and does not go on with any purge.
LEMMA PurgesWait ==
    ASSUME PurgeInv, Present' \subseteq Present,
           \A d \in Clients : Purging(d)' => Purging(d) /\ doomed'[d] = doomed[d] /\ left'[d] = left[d]
    PROVE  PurgeInv'
BY DEF PurgeInv

\* A step that may write the file f.
LEMMA PurgesSpare ==
    ASSUME PurgeInv, TypeOK, NEW f \in Files, Present' \subseteq Present \cup {f}, MayRemain(f),
           UNCHANGED doomed, \A d \in Clients : Purging(d)' => Purging(d)
    PROVE  PurgeInv'
<1> SUFFICES ASSUME NEW d \in Clients, Purging(d)'
             PROVE  Present' \subseteq doomed'[d] \cup left'[d]
  BY DEF PurgeInv
<1>1. Purging(d) /\ Present \subseteq doomed[d] \cup left[d]
  BY DEF PurgeInv
<1>2. left'[d] = left[d] \cup {f}
  BY <1>1 DEF MayRemain, Purging
<1> QED BY <1>1, <1>2

LEMMA PurgeStep == TypeInv /\ PurgeInv /\ [Next]_vars => PurgeInv'
<1> SUFFICES ASSUME TypeInv, PurgeInv, [Next]_vars PROVE PurgeInv'
  OBVIOUS
<1>0. /\ TypeOK /\ pc \in [Clients -> Phases] /\ doomed \in [Clients -> SUBSET Files]
      /\ left \in [Clients -> SUBSET Files] /\ vfile \in [Versions -> Contents]
  BY DEF TypeInv, TypeOK
<1>a. UNCHANGED <<hint, vfile>> => Present' = Present
  BY DEF Present
<1>1. CASE UNCHANGED vars
  BY <1>1, <1>a, PurgesWait DEF vars, Purging
<1>2. ASSUME NEW c \in Clients, Create(c) \/ Load(c) \/ Commit(c) PROVE PurgeInv'
  <2>1. UNCHANGED <<hint, vfile, doomed, left>> /\ pc' = [pc EXCEPT ![c] = pc'[c]]
        /\ pc'[c] \in {"put", "load", "idle"}
    BY <1>0, <1>2 DEF Create, CreateTable, Load, LoadHint, LoadMeta, Commit, CommitCheck, Goto
  <2>2. \A d \in Clients : Purging(d)' => Purging(d)
    BY <1>0, <2>1 DEF Purging
  <2> QED BY <1>a, <2>1, <2>2, PurgesWait
<1>3. ASSUME NEW c \in Clients, Put(c) \/ Fill(c) PROVE PurgeInv'
  <2> DEFINE v == work[c].version
  <2>1. v \in Versions /\ v \in Files
    BY <1>3 DEF Put, Fill, TypeInv, PhaseOK, Building, Handles, Files
  <2>2. /\ UNCHANGED <<hint, doomed>> /\ MayRemain(v)
        /\ pc' = [pc EXCEPT ![c] = pc'[c]] /\ pc'[c] \in {"point", "fill"}
        /\ \E content : vfile' = [vfile EXCEPT ![v] = content]
    BY <1>0, <1>3 DEF Put, Fill, Goto
  <2> HIDE DEF v
  <2>3. \A u \in Versions : u # v => vfile'[u] = vfile[u]
    BY <1>0, <2>1, <2>2
  <2>4. Present' \subseteq Present \cup {v}
    BY <2>2, <2>3 DEF Present
  <2>5. \A d \in Clients : Purging(d)' => Purging(d)
    BY <1>0, <2>2 DEF Purging
  <2> QED BY <1>0, <2>1, <2>2, <2>4, <2>5, PurgesSpare
<1>4. ASSUME NEW c \in Clients, Point(c) \/ PointReplyLost(c) PROVE PurgeInv'
  <2>1. /\ UNCHANGED <<vfile, doomed>> /\ MayRemain(HintFile)
        /\ pc' = [pc EXCEPT ![c] = "idle"]
    BY <1>4 DEF Point, PointReplyLost, Goto
  <2>2. Present' \subseteq Present \cup {HintFile}
    BY <2>1 DEF Present
  <2>3. \A d \in Clients : Purging(d)' => Purging(d)
    BY <1>0, <2>1 DEF Purging
  <2>4. HintFile \in Files
    BY DEF Files
  <2> QED BY <1>0, <2>1, <2>2, <2>3, <2>4, PurgesSpare
<1>5. ASSUME NEW c \in Clients, \/ \E purge \in PurgeArgs : DropCheck(c, purge)
                                \/ UnlinkHint(c) \/ RemoveRaises(c) \/ PurgeReturns(c) \/ Fail(c)
      PROVE  PurgeInv'
  <2>1. /\ UNCHANGED vfile /\ (hint' = hint \/ hint' = 0)
        /\ pc' = [pc EXCEPT ![c] = pc'[c]] /\ pc'[c] \in {"list", "unlink", "find", "idle"}
    BY <1>0, <1>5
       DEF DropCheck, UnlinkHint, RemoveRaises, PurgeReturns, Fail, Crash, Raise, Abandon, Goto
  <2>2. \A d \in Clients : d # c => doomed'[d] = doomed[d] /\ left'[d] = left[d]
    BY <1>0, <1>5
       DEF DropCheck, UnlinkHint, RemoveRaises, PurgeReturns, Fail, Crash, Raise, Abandon
  <2>3. Present' \subseteq Present
    BY <2>1 DEF Present
  <2>4. \A d \in Clients : Purging(d)' => d # c /\ Purging(d)
    BY <1>0, <2>1 DEF Purging
  <2> QED BY <2>2, <2>3, <2>4, PurgesWait
<1>6. ASSUME NEW c \in Clients, ListFiles(c) PROVE PurgeInv'
  <2>1. /\ UNCHANGED <<hint, vfile>> /\ doomed' = [doomed EXCEPT ![c] = Present]
        /\ left' = [left EXCEPT ![c] = {}] /\ pc' = [pc EXCEPT ![c] = pc'[c]]
    BY <1>0, <1>6 DEF ListFiles, Goto
  <2>2. ASSUME NEW d \in Clients, Purging(d)' PROVE Present' \subseteq doomed'[d] \cup left'[d]
    <3>1. CASE d = c
      BY <1>0, <1>a, <2>1, <3>1
    <3>2. CASE d # c
      <4>1. Purging(d) /\ doomed'[d] = doomed[d] /\ left'[d] = left[d]
        BY <1>0, <2>1, <2>2, <3>2 DEF Purging
      <4> QED BY <1>a, <2>1, <4>1 DEF PurgeInv
    <3> QED BY <3>1, <3>2
  <2> QED BY <2>2 DEF PurgeInv
<1>7. ASSUME NEW c \in Clients, NEW f \in Files, RemoveFile(c, f) PROVE PurgeInv'
  <2>1. /\ hint' = IF f = HintFile THEN 0 ELSE hint
        /\ vfile' = IF f = HintFile THEN vfile ELSE [vfile EXCEPT ![f] = None]
        /\ doomed' = [doomed EXCEPT ![c] = @ \ {f}] /\ UNCHANGED <<pc, left>>
    BY <1>7 DEF RemoveFile
  <2>2. Present' \subseteq Present \ {f}
    <3>1. CASE f = HintFile
      <4>1. HintFile \notin Versions
        BY DEF HintFile, Versions
      <4> QED BY <2>1, <3>1, <4>1 DEF Present
    <3>2. CASE f # HintFile
      <4>1. \A v \in Versions : vfile'[v] = IF v = f THEN None ELSE vfile[v]
        BY <1>0, <2>1, <3>2
      <4> QED BY <2>1, <3>2, <4>1 DEF Present
    <3> QED BY <3>1, <3>2
  <2>3. ASSUME NEW d \in Clients, Purging(d)' PROVE Present' \subseteq doomed'[d] \cup left'[d]
    <3>1. Present \subseteq doomed[d] \cup left[d]
      BY <2>1, <2>3 DEF PurgeInv, Purging
    <3>2. doomed[d] \ {f} \subseteq doomed'[d] /\ left'[d] = left[d]
      BY <1>0, <2>1
    <3> QED BY <2>2, <3>1, <3>2
  <2> QED BY <2>3 DEF PurgeInv
<1>8. ASSUME NEW c \in Clients, NEW f \in Files, SkipFile(c, f) PROVE PurgeInv'
  <2>1. /\ UNCHANGED <<hint, vfile, pc>>
        /\ doomed' = [doomed EXCEPT ![c] = @ \ {f}] /\ left' = [left EXCEPT ![c] = @ \cup {f}]
    BY <1>8 DEF SkipFile
  <2>2. ASSUME NEW d \in Clients, Purging(d)' PROVE Present' \subseteq doomed'[d] \cup left'[d]
    <3>1. Present \subseteq doomed[d] \cup left[d]
      BY <2>1, <2>2 DEF PurgeInv, Purging
    <3>2. doomed[d] \cup left[d] \subseteq doomed'[d] \cup left'[d]
      BY <1>0, <2>1
    <3> QED BY <1>a, <2>1, <3>1, <3>2
  <2> QED BY <2>2 DEF PurgeInv
<1>9. ASSUME NEW c \in Clients, Drop(c) PROVE PurgeInv'
  BY <1>5, <1>6, <1>7, <1>8, <1>9 DEF Drop
<1> QED BY <1>1, <1>2, <1>3, <1>4, <1>5, <1>9 DEF Next, Write

\* However clients, errors and crashes interleave with it, a purge that returns has
\* removed every file there was when its last pass listed the directory, but for
\* those that pass could not remove and those written meanwhile.
THEOREM PurgesAreThorough == Spec => PurgeLeavesOnlyNew
<1>1. Init => PurgeInv
  BY DEF Init, PurgeInv, Purging
<1>2. Spec => []PurgeInv
  BY <1>1, PurgeStep, TypeInvariant, PTL DEF Spec
<1>3. TypeInv /\ PurgeInv /\ [Next]_vars
        => [\A c \in Clients : PurgeReturns(c) => Present' \subseteq left[c]]_vars
  <2> SUFFICES ASSUME PurgeInv, NEW c \in Clients, PurgeReturns(c)
               PROVE  Present' \subseteq left[c]
    OBVIOUS
  <2>1. Purging(c) /\ doomed[c] = {} /\ Present' = Present
    BY DEF PurgeReturns, Purging, Present
  <2> QED BY <2>1 DEF PurgeInv
<1> QED BY <1>2, <1>3, TypeInvariant, PTL DEF Spec, PurgeLeavesOnlyNew

===============================================================================
