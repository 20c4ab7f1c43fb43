---------------------------- MODULE PartitionProofs ----------------------------
(***************************************************************************)
(* Theorems about PartitionedTable, for every partition spec, schema and   *)
(* set of records.                                                         *)
(***************************************************************************)
EXTENDS PartitionedTable, FiniteBounds, SequenceTheorems

Content(files) == UNION {f.rows : f \in files}
Disjoint(files) == \A f, g \in files : f # g => f.rows \cap g.rows = {}

\* What is known of the file of the w-th call or an earlier one.
FileOK(f, w) ==
    /\ f.write \in 1 .. w
    /\ IsFiniteSet(f.rows) /\ f.columns \subseteq Columns
    /\ \A c \in f.columns : f.stats[c] = StatsOf(f.rows, c)
    /\ \A r \in f.rows :
          /\ r \in Rows /\ r.write = f.write
          /\ PartitionKey(r) = f.key
          /\ \A c \in Columns : r.val[c] # None => c \in f.columns
          /\ \A k \in DOMAIN spec : Supported(spec[k], r.val[spec[k].source])

Counted ==
    /\ spec \in Specs
    /\ schema \in Seq(Columns)
    /\ writes \in 0 .. MaxWrites /\ failures \in 0 .. MaxFailures

Snaps(files) == [op : {"append", "overwrite"}, files : SUBSET files]

HistoryOK ==
    /\ snapshots \in Seq(Snaps(stored))
    /\ meant \in Seq(SUBSET Rows)
    /\ Len(meant) = Len(snapshots)
    /\ \A i \in 1 .. Len(snapshots) :
          /\ Content(snapshots[i].files) = meant[i]
          /\ Disjoint(snapshots[i].files)

\* The inductive invariant: what every file holds, and what every snapshot adds up to.
Inv ==
    /\ Counted
    /\ \A f \in stored : FileOK(f, writes)
    /\ HistoryOK

-----------------------------------------------------------------------------
(* Operators.                                                               *)

\* A scan without filters reads every file of the snapshot.
LEMMA ScanAll ==
    ASSUME NEW i
    PROVE  ScanRows(i, NoFilter) = Content(snapshots[i].files)
BY DEF ScanRows, ScanFiles, PartitionMatches, NoFilter, Content

\* The rows of a call are rows of its own, over the columns of the schema.
LEMMA GivenRows ==
    ASSUME Counted, writes < MaxWrites, NEW records \in SUBSET Records
    PROVE  \A r \in Given(records) :
              /\ r \in Rows /\ r.write = writes + 1
              /\ \A c \in Columns : r.val[c] # None => c \in ColumnSet(schema)
<1> SUFFICES ASSUME NEW x \in records
             PROVE  /\ ToArrow(x) \in Rows /\ ToArrow(x).write = writes + 1
                    /\ \A c \in Columns : ToArrow(x).val[c] # None => c \in ColumnSet(schema)
  BY DEF Given
<1>1. ColumnSet(schema) \in SUBSET Columns
  BY DEF Counted, ColumnSet
<1>2. writes + 1 \in 1 .. MaxWrites
  BY PartitionAssumption DEF Counted
<1>3. ToArrow(x).val \in {[c \in Columns |-> IF c \in d THEN r[c] ELSE None] :
                            r \in Records, d \in SUBSET Columns}
  BY <1>1 DEF ToArrow
<1> QED BY <1>1, <1>2, <1>3 DEF ToArrow, Rows

LEMMA GivenFinite ==
    ASSUME NEW records, IsFiniteSet(records)
    PROVE  IsFiniteSet(Given(records))
<1> DEFINE f == [r \in records |-> ToArrow(r)]
<1>1. f \in Surjection(records, Given(records))
  <2>1. f \in [records -> Given(records)] /\ \A r \in records : f[r] = ToArrow(r)
    BY DEF Given
  <2>2. \A t \in Given(records) : \E r \in records : t = ToArrow(r)
    BY DEF Given
  <2> HIDE DEF f
  <2> QED BY <2>1, <2>2 DEF Surjection
<1> HIDE DEF f
<1> QED BY <1>1, FS_Surjection

\* Every row goes to the one group that has its key.
LEMMA GroupsPartition ==
    ASSUME NEW rows, NEW S, S = PartitionGroups(rows)
    PROVE  /\ UNION S = rows
           /\ \A g, h \in S : g # h => g \cap h = {}
           /\ \A g \in S : \A r \in g : PartitionKey(r) = KeyOf(g)
<1>1. CASE DOMAIN spec = {}
  <2>1. \A r : PartitionKey(r) = NoFilter
    BY <1>1 DEF PartitionKey, NoFilter
  <2> QED BY <1>1, <2>1 DEF PartitionGroups, KeyOf
<1>2. CASE DOMAIN spec # {}
  <2>1. S = {{r \in rows : PartitionKey(r) = key} : key \in {PartitionKey(r) : r \in rows}}
    BY <1>2 DEF PartitionGroups
  <2>2. UNION S = rows
    BY <2>1
  <2>3. \A g, h \in S : g # h => g \cap h = {}
    BY <2>1
  <2>4. ASSUME NEW g \in S, NEW r \in g PROVE PartitionKey(r) = KeyOf(g)
    <3>1. PICK key : g = {q \in rows : PartitionKey(q) = key}
      BY <2>1
    <3>2. (CHOOSE q \in g : TRUE) \in g
      OBVIOUS
    <3> QED BY <1>2, <3>1, <3>2 DEF KeyOf
  <2> QED BY <2>2, <2>3, <2>4
<1> QED BY <1>1, <1>2

\* The files of a call hold its rows, each of them once.
LEMMA NewFilesHold ==
    ASSUME Counted, writes < MaxWrites, NEW records \in SUBSET Records, IsFiniteSet(records),
           ~TransformRaises(Given(records))
    PROVE  /\ Content(NewFiles(Given(records))) = Given(records)
           /\ Disjoint(NewFiles(Given(records)))
           /\ \A f \in NewFiles(Given(records)) : f.write = writes + 1 /\ FileOK(f, writes + 1)
<1> DEFINE rows == Given(records)
           groups == PartitionGroups(rows)
           fresh == NewFiles(rows)
<1>1. /\ UNION groups = rows
      /\ \A g, h \in groups : g # h => g \cap h = {}
      /\ \A g \in groups : \A r \in g : PartitionKey(r) = KeyOf(g)
  BY GroupsPartition
<1>2. \A g : WriteParquet(g).rows = g /\ WriteParquet(g).key = KeyOf(g)
             /\ WriteParquet(g).write = writes + 1 /\ WriteParquet(g).columns = ColumnSet(schema)
             /\ \A c \in ColumnSet(schema) : WriteParquet(g).stats[c] = StatsOf(g, c)
  BY DEF WriteParquet, ComputeStats
<1>3. fresh = {WriteParquet(g) : g \in groups}
  BY DEF NewFiles
<1> HIDE DEF groups, fresh
<1>4. Content(fresh) = rows
  <2>1. Content(fresh) = UNION groups
    BY <1>2, <1>3 DEF Content
  <2> QED BY <2>1, <1>1
<1>5. Disjoint(fresh)
  BY <1>1, <1>2, <1>3 DEF Disjoint
<1>6. ASSUME NEW f \in fresh PROVE f.write = writes + 1 /\ FileOK(f, writes + 1)
  <2>1. PICK g \in groups : f = WriteParquet(g)
    BY <1>3
  <2>2. g \subseteq rows
    BY <1>1
  <2>3. writes + 1 \in 1 .. writes + 1
    BY PartitionAssumption DEF Counted
  <2>4. \A r \in rows, k \in DOMAIN spec : Supported(spec[k], r.val[spec[k].source])
    BY DEF TransformRaises
  <2>5. IsFiniteSet(g) /\ ColumnSet(schema) \subseteq Columns
    <3>1. IsFiniteSet(rows)
      BY GivenFinite
    <3>2. ColumnSet(schema) \subseteq Columns
      BY DEF Counted, ColumnSet
    <3> QED BY <2>2, <3>1, <3>2, FS_Subset
  <2>6. IsFiniteSet(f.rows) /\ f.columns \subseteq Columns /\ f.write = writes + 1
    BY <1>2, <2>1, <2>5
  <2>7. \A c \in f.columns : f.stats[c] = StatsOf(f.rows, c)
    BY <1>2, <2>1
  <2>8. \A r \in f.rows :
           /\ r \in Rows /\ r.write = f.write
           /\ PartitionKey(r) = f.key
           /\ \A c \in Columns : r.val[c] # None => c \in f.columns
           /\ \A k \in DOMAIN spec : Supported(spec[k], r.val[spec[k].source])
    BY <1>1, <1>2, <2>1, <2>2, <2>4, GivenRows
  <2> QED BY <2>3, <2>6, <2>7, <2>8 DEF FileOK
<1> QED BY <1>4, <1>5, <1>6 DEF fresh

\* The files of a snapshot are on storage, also after others have been added.
LEMMA SnapFiles ==
    ASSUME HistoryOK, NEW i \in 1 .. Len(snapshots)
    PROVE  snapshots[i].files \in SUBSET stored
<1>1. snapshots[i] \in Snaps(stored)
  BY DEF HistoryOK
<1> QED BY <1>1 DEF Snaps

LEMMA SnapsGrow ==
    ASSUME NEW S, NEW T, S \subseteq T, NEW s \in Seq(Snaps(S))
    PROVE  s \in Seq(Snaps(T))
<1>1. Snaps(S) \subseteq Snaps(T)
  BY DEF Snaps
<1> QED BY <1>1

-----------------------------------------------------------------------------
(* The invariant.                                                           *)

LEMMA InitInv == Init => Inv
BY PartitionAssumption DEF Init, Inv, Counted, HistoryOK

LEMMA StepInv == Inv /\ [Next]_vars => Inv'
<1> SUFFICES ASSUME Inv, [Next]_vars PROVE Inv'
  OBVIOUS
<1> USE PartitionAssumption DEF Inv
<1>0. writes \in Nat /\ failures \in Nat
  BY DEF Counted
<1>a. ASSUME spec' = spec PROVE \A r : PartitionKey(r)' = PartitionKey(r)
  BY <1>a DEF PartitionKey
<1>1. CASE UNCHANGED vars
  BY <1>1, <1>a DEF vars, Counted, HistoryOK, FileOK
<1>2. ASSUME NEW op \in {"append", "overwrite"}, NEW records \in Batches, Write(op, records)
      PROVE  Inv'
  <2> DEFINE rows == Given(records)
             fresh == NewFiles(rows)
             files == LiveAfter(op, fresh)
             expected == rows \cup (IF op = "append" /\ meant # <<>> THEN meant[Len(meant)] ELSE {})
  <2>1. /\ records \in SUBSET Records /\ IsFiniteSet(records)
        /\ writes < MaxWrites /\ ~TransformRaises(rows)
    BY <1>2 DEF Write, Batches, Succeeds
  <2>2. /\ Content(fresh) = rows
        /\ Disjoint(fresh)
        /\ \A f \in fresh : f.write = writes + 1 /\ FileOK(f, writes + 1)
    BY <2>1, NewFilesHold
  <2>3. rows \in SUBSET Rows
    BY <2>1, GivenRows
  <2>4. /\ writes' = writes + 1 /\ UNCHANGED <<spec, schema, failures>>
        /\ stored' = stored \cup fresh
        /\ snapshots' = Append(snapshots, [op |-> op, files |-> files])
        /\ meant' = Append(meant, expected)
    BY <1>2 DEF Write
  <2>5. /\ LiveFiles \subseteq stored
        /\ Disjoint(LiveFiles)
        /\ Content(LiveFiles) = IF meant # <<>> THEN meant[Len(meant)] ELSE {}
    <3>1. CASE snapshots = <<>>
      BY <3>1 DEF LiveFiles, HistoryOK, Disjoint, Content
    <3>2. CASE snapshots # <<>>
      <4>1. Len(snapshots) \in 1 .. Len(snapshots)
        BY <3>2 DEF HistoryOK
      <4>2. meant # <<>> /\ Len(meant) = Len(snapshots)
        BY <3>2, <4>1 DEF HistoryOK
      <4> QED BY <3>2, <4>1, <4>2, SnapFiles DEF LiveFiles, HistoryOK
    <3> QED BY <3>1, <3>2
  <2> HIDE DEF rows, fresh
  <2>6. Content(files) = expected
    <3>1. CASE op = "append"
      <4>1. files = fresh \cup LiveFiles
        BY <3>1 DEF LiveAfter
      <4>2. Content(files) = Content(fresh) \cup Content(LiveFiles)
        BY <4>1 DEF Content
      <4> QED BY <3>1, <4>2, <2>2, <2>5
    <3>2. CASE op = "overwrite"
      <4>1. files = fresh
        BY <3>2 DEF LiveAfter
      <4> QED BY <3>2, <4>1, <2>2
    <3> QED BY <3>1, <3>2
  <2>7. Disjoint(files)
    <3>1. \A f \in fresh, g \in LiveFiles : f.rows \cap g.rows = {}
      BY <1>0, <2>2, <2>5 DEF FileOK
    <3> QED BY <3>1, <2>2, <2>5 DEF LiveAfter, Disjoint
  <2>8. files \in SUBSET stored'
    BY <2>4, <2>5 DEF LiveAfter
  <2>9. expected \in SUBSET Rows
    BY <2>3 DEF HistoryOK
  <2> HIDE DEF files, expected
  <2>10. Counted'
    BY <2>1, <2>4 DEF Counted
  <2>11. (\A f \in stored : FileOK(f, writes))'
    BY <1>0, <1>a, <2>2, <2>4 DEF FileOK
  <2>12. HistoryOK'
    <3>1. snapshots \in Seq(Snaps(stored'))
      BY <2>4, SnapsGrow DEF HistoryOK
    <3>2. snapshots' \in Seq(Snaps(stored'))
      <4>1. [op |-> op, files |-> files] \in Snaps(stored')
        BY <2>8 DEF Snaps
      <4> QED BY <3>1, <4>1, <2>4
    <3>3. meant' \in Seq(SUBSET Rows) /\ Len(meant') = Len(snapshots')
      BY <2>4, <2>9 DEF HistoryOK
    <3>4. ASSUME NEW i \in 1 .. Len(snapshots')
          PROVE  Content(snapshots'[i].files) = meant'[i] /\ Disjoint(snapshots'[i].files)
      <4>1. CASE i \in 1 .. Len(snapshots)
        BY <4>1, <2>4 DEF HistoryOK
      <4>2. CASE i = Len(snapshots) + 1
        BY <4>2, <2>4, <2>6, <2>7 DEF HistoryOK
      <4> QED BY <4>1, <4>2, <2>4 DEF HistoryOK
    <3> QED BY <3>2, <3>3, <3>4 DEF HistoryOK
  <2> QED BY <2>10, <2>11, <2>12
<1>3. ASSUME NEW records \in Batches, WriteRaises(records) PROVE Inv'
  <2>1. /\ records \in SUBSET Records /\ IsFiniteSet(records) /\ ~TransformRaises(Given(records))
        /\ writes < MaxWrites /\ failures < MaxFailures
    BY <1>3 DEF WriteRaises, Batches
  <2>2. \A f \in NewFiles(Given(records)) : FileOK(f, writes + 1)
    BY <2>1, NewFilesHold
  <2>3. PICK written \in SUBSET NewFiles(Given(records)) : stored' = stored \cup written
    BY <1>3 DEF WriteRaises
  <2>4. writes' = writes + 1 /\ failures' = failures + 1 /\ UNCHANGED <<spec, schema, snapshots, meant>>
    BY <1>3 DEF WriteRaises
  <2>5. Counted'
    BY <2>1, <2>4 DEF Counted
  <2>6. (\A f \in stored : FileOK(f, writes))'
    BY <1>0, <1>a, <2>2, <2>3, <2>4 DEF FileOK
  <2>7. HistoryOK'
    BY <2>3, <2>4, SnapsGrow DEF HistoryOK
  <2> QED BY <2>5, <2>6, <2>7
<1>4. ASSUME NEW c \in Columns, AddColumn(c) PROVE Inv'
  BY <1>4, <1>a DEF AddColumn, Counted, HistoryOK, FileOK
<1> QED BY <1>1, <1>2, <1>3, <1>4 DEF Next

-----------------------------------------------------------------------------
(* The order of the values of a column.                                     *)

\* The strings v and w have the same first n characters.
Agree(v, w, n) == \A j \in 1 .. n : v[j] = w[j]

LEMMA PrefixAgrees ==
    ASSUME NEW v \in Seq(Nat), NEW w \in Seq(Nat), NEW n \in 0 .. Len(v), n <= Len(w)
    PROVE  SubSeq(v, 1, n) = SubSeq(w, 1, n) <=> Agree(v, w, n)
<1>1. Len(v) \in Nat /\ Len(w) \in Nat /\ n \in Nat
  OBVIOUS
<1>2. \A s \in Seq(Nat) : n <= Len(s) =>
         /\ SubSeq(s, 1, n) \in Seq(Nat) /\ Len(SubSeq(s, 1, n)) = n
         /\ \A j \in 1 .. n : SubSeq(s, 1, n)[j] = s[j]
  BY <1>1
<1> DEFINE a == SubSeq(v, 1, n)
           b == SubSeq(w, 1, n)
<1>3. /\ a \in Seq(Nat) /\ b \in Seq(Nat) /\ Len(a) = n /\ Len(b) = n
      /\ \A j \in 1 .. n : a[j] = v[j] /\ b[j] = w[j]
  BY <1>1, <1>2
<1> HIDE DEF a, b
<1>4. a = b <=> \A j \in 1 .. n : a[j] = b[j]
  BY <1>1, <1>3, SeqEqual
<1>5. a = b <=> Agree(v, w, n)
  BY <1>3, <1>4 DEF Agree
<1> QED BY <1>5 DEF a, b

\* Where v is before w: at the first character in which they differ, or at its end.
LEMMA StringOrder ==
    ASSUME NEW c, TypeOf[c] = "string", NEW v \in Seq(Nat), NEW w \in Seq(Nat)
    PROVE  Leq(c, v, w) <=>
              \/ Len(v) <= Len(w) /\ Agree(v, w, Len(v))
              \/ \E i \in 1 .. Len(v) : i <= Len(w) /\ v[i] < w[i] /\ Agree(v, w, i - 1)
<1>1. Len(v) \in Nat /\ Len(w) \in Nat
  OBVIOUS
<1>2. Len(v) <= Len(w) => (v = SubSeq(w, 1, Len(v)) <=> Agree(v, w, Len(v)))
  <2> SUFFICES ASSUME Len(v) <= Len(w)
               PROVE  v = SubSeq(w, 1, Len(v)) <=> Agree(v, w, Len(v))
    OBVIOUS
  <2>1. SubSeq(v, 1, Len(v)) = v
    OBVIOUS
  <2>2. Len(v) \in 0 .. Len(v)
    BY <1>1
  <2>3. SubSeq(v, 1, Len(v)) = SubSeq(w, 1, Len(v)) <=> Agree(v, w, Len(v))
    BY <2>2, PrefixAgrees
  <2> QED BY <2>1, <2>3
<1>3. \A i \in 1 .. Len(v) : i <= Len(w) =>
         (SubSeq(v, 1, i - 1) = SubSeq(w, 1, i - 1) <=> Agree(v, w, i - 1))
  <2> SUFFICES ASSUME NEW i \in 1 .. Len(v), i <= Len(w)
               PROVE  SubSeq(v, 1, i - 1) = SubSeq(w, 1, i - 1) <=> Agree(v, w, i - 1)
    OBVIOUS
  <2>1. i - 1 \in 0 .. Len(v) /\ i - 1 <= Len(w)
    BY <1>1
  <2> QED BY <2>1, PrefixAgrees
<1> QED BY <1>2, <1>3 DEF Leq

LEMMA StringsCompare ==
    ASSUME NEW c, TypeOf[c] = "string", NEW v \in Seq(Nat), NEW w \in Seq(Nat)
    PROVE  Leq(c, v, w) \/ Leq(c, w, v)
<1>1. Len(v) \in Nat /\ Len(w) \in Nat
  OBVIOUS
<1> DEFINE D == {i \in 1 .. Len(v) : i <= Len(w) /\ v[i] # w[i]}
<1>2. CASE D = {}
  <2>1. \A i \in 1 .. Len(v) : i <= Len(w) => v[i] = w[i]
    BY <1>2
  <2>2. CASE Len(v) <= Len(w)
    <3>1. Agree(v, w, Len(v))
      BY <1>1, <2>1, <2>2 DEF Agree
    <3> QED BY <2>2, <3>1, StringOrder
  <2>3. CASE Len(w) <= Len(v)
    <3>1. Agree(w, v, Len(w))
      BY <1>1, <2>1, <2>3 DEF Agree
    <3> QED BY <2>3, <3>1, StringOrder
  <2> QED BY <1>1, <2>2, <2>3
<1>3. CASE D # {}
  <2>1. D \in SUBSET Nat
    OBVIOUS
  <2> HIDE DEF D
  <2>2. PICK i \in D : \A j \in D : i <= j
    BY <1>3, <2>1, SmallestNat
  <2>3. i \in 1 .. Len(v) /\ i \in 1 .. Len(w) /\ i <= Len(w) /\ i <= Len(v) /\ v[i] # w[i]
    BY <1>1, <2>2 DEF D
  <2>4. \A j \in 1 .. i - 1 : v[j] = w[j]
    <3> SUFFICES ASSUME NEW j \in 1 .. i - 1 PROVE v[j] = w[j]
      OBVIOUS
    <3>1. j \in 1 .. Len(v) /\ j <= Len(w) /\ ~ (i <= j)
      BY <1>1, <2>3
    <3> QED BY <2>2, <3>1 DEF D
  <2>5. Agree(v, w, i - 1) /\ Agree(w, v, i - 1)
    BY <2>4 DEF Agree
  <2>6. v[i] \in Nat /\ w[i] \in Nat
    BY <2>3
  <2>7. v[i] < w[i] \/ w[i] < v[i]
    BY <2>3, <2>6
  <2> QED BY <2>3, <2>5, <2>7, StringOrder
<1> QED BY <1>2, <1>3

LEMMA StringsChain ==
    ASSUME NEW c, TypeOf[c] = "string", NEW u \in Seq(Nat), NEW v \in Seq(Nat), NEW w \in Seq(Nat),
           Leq(c, u, v), Leq(c, v, w)
    PROVE  Leq(c, u, w)
<1>1. Len(u) \in Nat /\ Len(v) \in Nat /\ Len(w) \in Nat
  OBVIOUS
<1>2. /\ \A i \in 1 .. Len(u) : u[i] \in Int
      /\ \A i \in 1 .. Len(v) : v[i] \in Int
      /\ \A i \in 1 .. Len(w) : w[i] \in Int
  OBVIOUS
<1>3. CASE Len(u) <= Len(v) /\ Agree(u, v, Len(u)) /\ Len(v) <= Len(w) /\ Agree(v, w, Len(v))
  <2>1. Len(u) <= Len(w) /\ Agree(u, w, Len(u))
    BY <1>1, <1>3 DEF Agree
  <2> QED BY <2>1, StringOrder
<1>4. CASE /\ Len(u) <= Len(v) /\ Agree(u, v, Len(u))
           /\ \E i \in 1 .. Len(v) : i <= Len(w) /\ v[i] < w[i] /\ Agree(v, w, i - 1)
  <2>1. PICK i \in 1 .. Len(v) : i <= Len(w) /\ v[i] < w[i] /\ Agree(v, w, i - 1)
    BY <1>4
  <2>2. CASE i <= Len(u)
    <3>1. i \in 1 .. Len(u) /\ u[i] = v[i]
      BY <1>1, <1>4, <2>1, <2>2 DEF Agree
    <3>2. Agree(u, w, i - 1)
      BY <1>1, <1>4, <2>1, <2>2 DEF Agree
    <3> QED BY <2>1, <3>1, <3>2, StringOrder
  <2>3. CASE ~ (i <= Len(u))
    <3>1. Len(u) <= Len(w) /\ Agree(u, w, Len(u))
      BY <1>1, <1>4, <2>1, <2>3 DEF Agree
    <3> QED BY <3>1, StringOrder
  <2> QED BY <2>2, <2>3
<1>5. CASE \E i \in 1 .. Len(u) : i <= Len(v) /\ u[i] < v[i] /\ Agree(u, v, i - 1)
  <2>1. PICK i \in 1 .. Len(u) : i <= Len(v) /\ u[i] < v[i] /\ Agree(u, v, i - 1)
    BY <1>5
  <2>2. CASE Len(v) <= Len(w) /\ Agree(v, w, Len(v))
    <3>1. i \in 1 .. Len(v) /\ i <= Len(w) /\ v[i] = w[i]
      BY <1>1, <2>1, <2>2 DEF Agree
    <3>2. Agree(u, w, i - 1)
      BY <1>1, <2>1, <2>2 DEF Agree
    <3> QED BY <2>1, <3>1, <3>2, StringOrder
  <2>3. CASE \E k \in 1 .. Len(v) : k <= Len(w) /\ v[k] < w[k] /\ Agree(v, w, k - 1)
    <3>1. PICK k \in 1 .. Len(v) : k <= Len(w) /\ v[k] < w[k] /\ Agree(v, w, k - 1)
      BY <2>3
    <3>2. i \in 1 .. Len(v) /\ u[i] \in Int /\ v[i] \in Int /\ v[k] \in Int /\ w[k] \in Int
      BY <1>1, <1>2, <2>1, <3>1
    <3>3. CASE i < k
      <4>1. i <= Len(w) /\ v[i] = w[i]
        BY <1>1, <2>1, <3>1, <3>3 DEF Agree
      <4>2. Agree(u, w, i - 1)
        BY <1>1, <2>1, <3>1, <3>3 DEF Agree
      <4> QED BY <2>1, <4>1, <4>2, StringOrder
    <3>4. CASE i = k
      <4>1. i <= Len(w) /\ u[i] < w[i]
        <5>1. u[i] < v[i] /\ v[i] < w[i] /\ w[i] \in Int
          BY <2>1, <3>1, <3>2, <3>4
        <5> QED BY <3>1, <3>2, <3>4, <5>1
      <4>2. Agree(u, w, i - 1)
        BY <1>1, <2>1, <3>1, <3>4 DEF Agree
      <4> QED BY <4>1, <4>2, StringOrder
    <3>5. CASE k < i
      <4>1. k \in 1 .. Len(u) /\ u[k] = v[k]
        BY <1>1, <2>1, <3>1, <3>5 DEF Agree
      <4>2. Agree(u, w, k - 1)
        BY <1>1, <2>1, <3>1, <3>5 DEF Agree
      <4> QED BY <3>1, <4>1, <4>2, StringOrder
    <3> QED BY <3>3, <3>4, <3>5
  <2> QED BY <2>2, <2>3, StringOrder
<1> QED BY <1>3, <1>4, <1>5, StringOrder

\* Leq is a total order of the values of a column.
LEMMA Compare ==
    ASSUME NEW c, NEW v \in Values(TypeOf[c]), NEW w \in Values(TypeOf[c])
    PROVE  Leq(c, v, w) \/ Leq(c, w, v)
<1>1. CASE TypeOf[c] = "string"
  BY <1>1, StringsCompare DEF Values
<1>2. CASE TypeOf[c] # "string"
  BY <1>2 DEF Values, Leq
<1> QED BY <1>1, <1>2

LEMMA Chain ==
    ASSUME NEW c, NEW u \in Values(TypeOf[c]), NEW v \in Values(TypeOf[c]), NEW w \in Values(TypeOf[c]),
           Leq(c, u, v), Leq(c, v, w)
    PROVE  Leq(c, u, w)
<1>1. CASE TypeOf[c] = "string"
  <2>1. u \in Seq(Nat) /\ v \in Seq(Nat) /\ w \in Seq(Nat)
    BY <1>1 DEF Values
  <2> QED BY <1>1, <2>1, StringsChain
<1>2. CASE TypeOf[c] # "string"
  BY <1>2 DEF Values, Leq
<1> QED BY <1>1, <1>2

\* The values of a column have a first one and a last one.
LEMMA FirstAndLast ==
    ASSUME NEW c, NEW S \in SUBSET Values(TypeOf[c]), IsFiniteSet(S), S # {}
    PROVE  /\ \E v \in S : \A w \in S : Leq(c, v, w)
           /\ \E v \in S : \A w \in S : Leq(c, w, v)
<1> DEFINE R == {p \in S \X S : Leq(c, p[1], p[2])}
           Q == {p \in S \X S : Leq(c, p[2], p[1])}
<1>1. \A v, w \in S : <<v, w>> \in R <=> Leq(c, v, w)
  OBVIOUS
<1>2. \A v, w \in S : <<v, w>> \in Q <=> Leq(c, w, v)
  OBVIOUS
<1> HIDE DEF R, Q
<1>3. \A v, w \in S : Leq(c, v, w) \/ Leq(c, w, v)
  BY Compare
<1>4. \A u, v, w \in S : Leq(c, u, v) /\ Leq(c, v, w) => Leq(c, u, w)
  BY Chain
<1>5. \E v \in S : \A w \in S : <<v, w>> \in R
  <2>1. \A v, w \in S : <<v, w>> \in R \/ <<w, v>> \in R
    BY <1>1, <1>3
  <2>2. \A u, v, w \in S : <<u, v>> \in R /\ <<v, w>> \in R => <<u, w>> \in R
    BY <1>1, <1>4
  <2> QED BY <2>1, <2>2, LeastElement
<1>6. \E v \in S : \A w \in S : <<v, w>> \in Q
  <2>1. \A v, w \in S : <<v, w>> \in Q \/ <<w, v>> \in Q
    BY <1>2, <1>3
  <2>2. \A u, v, w \in S : <<u, v>> \in Q /\ <<v, w>> \in Q => <<u, w>> \in Q
    BY <1>2, <1>4
  <2> QED BY <2>1, <2>2, LeastElement
<1> QED BY <1>1, <1>2, <1>5, <1>6

-----------------------------------------------------------------------------
(* The statistics of a file.                                                *)

LEMMA RowValues ==
    ASSUME NEW r \in Rows, NEW c \in Columns, r.val[c] # None
    PROVE  r.val[c] \in Values(TypeOf[c])
<1>1. PICK x \in Records, d \in SUBSET Columns : r.val = [k \in Columns |-> IF k \in d THEN x[k] ELSE None]
  BY DEF Rows
<1>2. r.val[c] = x[c] /\ x[c] # None
  BY <1>1
<1> QED BY <1>2, PartitionAssumption

LEMMA NotNullFinite ==
    ASSUME NEW rows, IsFiniteSet(rows), NEW c
    PROVE  IsFiniteSet(NotNull(rows, c))
<1> DEFINE T == {q \in rows : q.val[c] # None}
           f == [r \in T |-> r.val[c]]
<1>1. IsFiniteSet(T)
  BY FS_Subset
<1>2. f \in [T -> NotNull(rows, c)] /\ \A r \in T : f[r] = r.val[c]
  BY DEF NotNull
<1>3. \A t \in NotNull(rows, c) : \E r \in T : t = r.val[c]
  BY DEF NotNull
<1> HIDE DEF f, T
<1>4. f \in Surjection(T, NotNull(rows, c))
  BY <1>2, <1>3 DEF Surjection
<1> QED BY <1>1, <1>4, FS_Surjection

LEMMA BoundsOfRows ==
    ASSUME NEW rows \in SUBSET Rows, IsFiniteSet(rows), NEW c \in Columns, NEW r \in rows
    PROVE  IF r.val[c] = None THEN StatsOf(rows, c).null_count > 0
           ELSE /\ StatsOf(rows, c).min # None /\ Leq(c, StatsOf(rows, c).min, r.val[c])
                /\ StatsOf(rows, c).max # None /\ Leq(c, r.val[c], StatsOf(rows, c).max)
<1>1. CASE r.val[c] = None
  <2> DEFINE T == {q \in rows : q.val[c] = None}
  <2>1. IsFiniteSet(T) /\ r \in T
    BY <1>1, FS_Subset
  <2> HIDE DEF T
  <2>2. Cardinality(T) \in Nat /\ Cardinality(T) # 0
    BY <2>1, FS_CardinalityType, FS_EmptySet
  <2>3. StatsOf(rows, c).null_count = Cardinality(T)
    BY DEF StatsOf, T
  <2>4. StatsOf(rows, c).null_count > 0
    BY <2>2, <2>3
  <2> QED BY <1>1, <2>4
<1>2. CASE r.val[c] # None
  <2> DEFINE vs == NotNull(rows, c)
             min == CHOOSE v \in vs : \A w \in vs : Leq(c, v, w)
             max == CHOOSE v \in vs : \A w \in vs : Leq(c, w, v)
  <2>1. r.val[c] \in vs /\ None \notin vs
    BY <1>2 DEF NotNull
  <2>2. vs \in SUBSET Values(TypeOf[c])
    BY RowValues DEF NotNull
  <2>3. IsFiniteSet(vs)
    BY NotNullFinite
  <2>4. StatsOf(rows, c).min = min /\ StatsOf(rows, c).max = max
    BY <2>1 DEF StatsOf
  <2> HIDE DEF vs
  <2>5. /\ \E v \in vs : \A w \in vs : Leq(c, v, w)
        /\ \E v \in vs : \A w \in vs : Leq(c, w, v)
    BY <2>1, <2>2, <2>3, FirstAndLast
  <2>6. min \in vs /\ \A w \in vs : Leq(c, min, w)
    BY <2>5
  <2>7. max \in vs /\ \A w \in vs : Leq(c, w, max)
    BY <2>5
  <2> HIDE DEF min, max
  <2> QED BY <1>2, <2>1, <2>4, <2>6, <2>7
<1> QED BY <1>1, <1>2

-----------------------------------------------------------------------------
(* Theorems.                                                                *)

\* Every variable keeps its type, for any specs, records and bounds.
THEOREM TypeCorrect == Spec => []TypeOK
<1>1. Inv => TypeOK
  BY SnapFiles DEF Inv, Counted, HistoryOK, FileOK, TypeOK
<1> QED BY <1>1, InitInv, StepInv, PTL DEF Spec

\* Whatever the partition spec, the schema changes and the failed calls, a scan
\* returns the rows the callers gave, once each, with every column they filled.
THEOREM ScansReturnRows == Spec => []ScanReturnsMeant
<1>1. Inv => ScanReturnsMeant
  <2> SUFFICES ASSUME Inv, NEW i \in 1 .. Len(snapshots)
               PROVE  /\ ScanRows(i, NoFilter) = meant[i]
                      /\ \A f, g \in snapshots[i].files : f # g => f.rows \cap g.rows = {}
                      /\ \A r \in meant[i], c \in Columns : r.val[c] # None => c \in ScanColumns(i)
    BY DEF ScanReturnsMeant
  <2>1. Content(snapshots[i].files) = meant[i] /\ Disjoint(snapshots[i].files)
    BY DEF Inv, HistoryOK
  <2>2. snapshots[i].files \subseteq stored
    BY SnapFiles DEF Inv
  <2>3. ASSUME NEW r \in meant[i], NEW c \in Columns, r.val[c] # None PROVE c \in ScanColumns(i)
    <3>1. PICK f \in snapshots[i].files : r \in f.rows
      BY <2>1 DEF Content
    <3>2. c \in f.columns
      BY <2>2, <2>3, <3>1 DEF Inv, FileOK
    <3> QED BY <3>1, <3>2 DEF ScanColumns
  <2> QED BY <2>1, <2>3, ScanAll DEF Disjoint
<1> QED BY <1>1, InitInv, StepInv, PTL DEF Spec

\* A filter selects exactly the rows whose transformed column has that value, for
\* every spec, every filter and every value of the hash.
THEOREM FiltersSelect == Spec => []FilterSelects
<1>1. Inv => FilterSelects
  <2> SUFFICES ASSUME Inv, NEW i \in 1 .. Len(snapshots), NEW filters \in Filters
               PROVE  ScanRows(i, filters) =
                        {r \in ScanRows(i, NoFilter) :
                            \A k \in DOMAIN filters : filters[k] = PartitionKey(r)[k]}
    BY DEF FilterSelects
  <2>0. DOMAIN filters \subseteq DOMAIN spec
    BY DEF Filters
  <2>1. snapshots[i].files \subseteq stored
    BY SnapFiles DEF Inv
  <2>2. ASSUME NEW f \in snapshots[i].files, NEW r \in f.rows
        PROVE  PartitionMatches(f, filters) <=>
                 \A k \in DOMAIN filters : filters[k] = PartitionKey(r)[k]
    <3>1. f.key = PartitionKey(r)
      BY <2>1 DEF Inv, FileOK
    <3>2. DOMAIN f.key = DOMAIN spec
      BY <3>1 DEF PartitionKey
    <3> QED BY <2>0, <3>1, <3>2 DEF PartitionMatches
  <2>3. ScanRows(i, filters) = UNION {f.rows : f \in {g \in snapshots[i].files : PartitionMatches(g, filters)}}
    BY DEF ScanRows, ScanFiles
  <2>4. ScanRows(i, NoFilter) = UNION {f.rows : f \in snapshots[i].files}
    BY ScanAll DEF Content
  <2> QED BY <2>2, <2>3, <2>4
<1> QED BY <1>1, InitInv, StepInv, PTL DEF Spec

\* The bounds of a column hold for all of its values in the file, strings of any
\* length included, and a file that has a null in a column counts it.
THEOREM StatsHoldForRows == Spec => []StatsBoundRows
<1>1. Inv => StatsBoundRows
  <2> SUFFICES ASSUME Inv, NEW f \in stored, NEW c \in f.columns, NEW r \in f.rows
               PROVE  IF r.val[c] = None THEN f.stats[c].null_count > 0
                      ELSE /\ f.stats[c].min # None /\ Leq(c, f.stats[c].min, r.val[c])
                           /\ f.stats[c].max # None /\ Leq(c, r.val[c], f.stats[c].max)
    BY DEF StatsBoundRows
  <2>1. FileOK(f, writes)
    BY DEF Inv
  <2>2. /\ f.rows \in SUBSET Rows /\ IsFiniteSet(f.rows) /\ c \in Columns
        /\ f.stats[c] = StatsOf(f.rows, c)
    BY <2>1 DEF FileOK
  <2> QED BY <2>2, BoundsOfRows
<1> QED BY <1>1, InitInv, StepInv, PTL DEF Spec

LEMMA TruncatedNumber ==
    ASSUME NEW v \in Int, NEW w \in Nat \ {0}
    PROVE  (v \div w) * w <= v /\ v < (v \div w) * w + w
OBVIOUS

LEMMA TruncatedString ==
    ASSUME NEW v \in Seq(Nat), NEW w \in Nat \ {0}, NEW t,
           t = SubSeq(v, 1, IF Len(v) < w THEN Len(v) ELSE w)
    PROVE  t = SubSeq(v, 1, Len(t)) /\ Len(t) <= w
<1> DEFINE n == IF Len(v) < w THEN Len(v) ELSE w
<1>1. n \in 0 .. Len(v) /\ n <= w
  OBVIOUS
<1>2. Len(SubSeq(v, 1, n)) = n
  BY <1>1
<1> QED BY <1>1, <1>2

\* A partition of truncated values holds the numbers from its value to the next
\* multiple, or the strings with its prefix, for every width and for every number of
\* every type that truncate takes.
THEOREM TruncationHoldsRange == Spec => []TruncateHoldsRange
<1>1. Inv => TruncateHoldsRange
  <2> SUFFICES ASSUME Inv, NEW f \in stored, NEW k \in DOMAIN spec, spec[k].kind = "truncate",
                      NEW r \in f.rows, NEW v, v = r.val[spec[k].source]
               PROVE  IF v = None THEN f.key[k] = None
                      ELSE IF TypeOf[spec[k].source] = "string"
                           THEN f.key[k] = SubSeq(v, 1, Len(f.key[k])) /\ Len(f.key[k]) <= spec[k].n
                           ELSE f.key[k] <= v /\ v < f.key[k] + spec[k].n
    BY DEF TruncateHoldsRange
  <2> DEFINE type == TypeOf[spec[k].source]
  <2>1. spec[k].source \in Columns /\ spec[k].n \in Nat \ {0}
    BY PartitionAssumption DEF Inv, Counted
  <2>2. FileOK(f, writes)
    BY DEF Inv
  <2>3. f.key[k] = Transform(spec[k], v)
    BY <2>2 DEF FileOK, PartitionKey
  <2>4. CASE v = None
    BY <2>3, <2>4 DEF Transform
  <2>5. CASE v # None
    <3>1. f.key[k] = Truncate(type, v, spec[k].n)
      BY <2>3, <2>5 DEF Transform
    <3>2. PICK x \in Records : v = x[spec[k].source]
      BY <2>1, <2>2, <2>5 DEF FileOK, Rows
    <3>4. CASE type = "string"
      <4>1. v \in Seq(Nat)
        BY <2>1, <2>5, <3>2, <3>4, PartitionAssumption DEF Values
      <4>2. f.key[k] = SubSeq(v, 1, IF Len(v) < spec[k].n THEN Len(v) ELSE spec[k].n)
        BY <3>1, <3>4 DEF Truncate
      <4> QED BY <2>1, <2>5, <3>4, <4>1, <4>2, TruncatedString
    <3>5. CASE type # "string"
      <4>1. v \in Int
        BY <2>1, <2>5, <3>2, <3>5, PartitionAssumption DEF Values
      <4>2. f.key[k] = (v \div spec[k].n) * spec[k].n
        BY <3>1, <3>5 DEF Truncate
      <4> QED BY <2>1, <2>5, <3>5, <4>1, <4>2, TruncatedNumber
    <3> QED BY <3>4, <3>5
  <2> QED BY <2>4, <2>5
<1> QED BY <1>1, InitInv, StepInv, PTL DEF Spec

LEMMA PrefixOf ==
    ASSUME NEW n \in Nat, NEW s, NEW t,
           s = [i \in 1 .. n |-> s[i]], t = [i \in 1 .. n + 1 |-> t[i]],
           \A i \in 1 .. n : t[i] = s[i]
    PROVE  SubSeq(t, 1, n) = s
OBVIOUS

\* Row by row the table is a TimeTravelTable, whatever its partition spec.
THEOREM PartitionedRefinesTimeTravel == Spec => RefinesTimeTravel
<1> DEFINE views == [i \in 1 .. Len(snapshots) |-> [op |-> snapshots[i].op, files |-> ScanRows(i, NoFilter)]]
<1>1. Init => TimeTravel!Init
  BY DEF Init, TimeTravel!Init
<1>2. Inv /\ Inv' /\ [Next]_vars => [TimeTravel!Next]_views
  <2> SUFFICES ASSUME Inv, Inv', [Next]_vars PROVE [TimeTravel!Next]_views
    OBVIOUS
  <2>1. ASSUME snapshots' = snapshots PROVE UNCHANGED views
    BY <2>1, ScanAll DEF ScanRows, ScanFiles, PartitionMatches
  <2>2. ASSUME NEW op \in {"append", "overwrite"}, NEW records \in Batches, Write(op, records)
        PROVE  TimeTravel!Next
    <3> DEFINE n == Len(snapshots)
               view(i) == [op |-> snapshots[i].op, files |-> ScanRows(i, NoFilter)]
               rows == Given(records)
    <3>1. n \in Nat /\ Len(snapshots') = n + 1 /\ Len(meant) = n
      BY <2>2 DEF Write, Inv, HistoryOK
    <3>2. /\ \A i \in 1 .. n : view(i).files = meant[i]
          /\ \A i \in 1 .. n + 1 : view(i)'.files = meant'[i]
      BY <3>1, ScanAll DEF Inv, HistoryOK, ScanRows, ScanFiles, PartitionMatches, NoFilter, Content
    <3>3. /\ \A i \in 1 .. n : snapshots'[i] = snapshots[i] /\ meant'[i] = meant[i]
          /\ snapshots'[n + 1].op = op
          /\ meant'[n + 1] = rows \cup (IF op = "append" /\ n # 0 THEN meant[n] ELSE {})
      BY <2>2, <3>1 DEF Write, Inv, HistoryOK
    <3>4. \A i \in 1 .. n : view(i)' = view(i)
      BY <3>1, <3>2, <3>3
    <3>5. views = [i \in 1 .. n |-> view(i)] /\ views' = [i \in 1 .. n + 1 |-> view(i)']
      BY <3>1
    <3>6. \A i \in 1 .. n + 1 : i = n + 1 => view(i)'.op = op /\ view(i)'.files = meant'[n + 1]
      BY <3>2, <3>3
    <3>7. Len(views) = n /\ Len(views') = n + 1
      BY <3>1, <3>5
    <3> HIDE DEF view
    <3>8. SubSeq(views', 1, n) = views
      <4> HIDE DEF views
      <4>1. views = [i \in 1 .. n |-> views[i]] /\ views' = [i \in 1 .. n + 1 |-> views'[i]]
        BY <3>5
      <4>2. \A i \in 1 .. n : views'[i] = views[i]
        BY <3>1, <3>4, <3>5
      <4> QED BY <3>1, <4>1, <4>2, PrefixOf
    <3>9. rows \in SUBSET Rows /\ (op = "append" => rows # {}) /\ \A r \in rows : r.write = writes + 1
      <4>1. Counted /\ writes < MaxWrites /\ records \in SUBSET Records
        BY <2>2 DEF Inv, Write, Batches
      <4>2. op = "append" => rows # {}
        BY <2>2 DEF Write, Given
      <4> QED BY <4>1, <4>2, GivenRows
    <3>10. ASSUME NEW i \in 1 .. n
           PROVE  meant[i] \in SUBSET Rows /\ meant[i] \cap rows = {}
      <4>1. meant[i] = Content(snapshots[i].files) /\ meant[i] \in SUBSET Rows
        BY <3>1 DEF Inv, HistoryOK
      <4>2. ASSUME NEW r \in meant[i] PROVE r.write \in 1 .. writes
        <5>1. PICK f \in snapshots[i].files : r \in f.rows
          BY <4>1 DEF Content
        <5>2. f \in stored
          BY SnapFiles DEF Inv
        <5> QED BY <5>1, <5>2 DEF Inv, FileOK
      <4>3. writes \in Nat
        BY PartitionAssumption DEF Inv, Counted
      <4> QED BY <3>9, <4>1, <4>2, <4>3
    <3>11. /\ TimeTravel!Latest = IF n = 0 THEN {} ELSE meant[n]
           /\ TimeTravel!Latest' = meant'[n + 1]
           /\ TimeTravel!Seen = UNION {meant[i] : i \in 1 .. n}
      <4>1. n # 0 => n \in 1 .. n
        BY <3>1
      <4>2. \A i \in 1 .. n : views[i].files = meant[i]
        BY <3>2 DEF view
      <4>3. (views = <<>>) <=> n = 0
        BY <3>1, <3>7
      <4>4. views'[n + 1].files = meant'[n + 1] /\ views' # <<>>
        <5>1. n + 1 \in 1 .. n + 1
          BY <3>1
        <5> QED BY <5>1, <3>1, <3>5, <3>6, <3>7
      <4> HIDE DEF views
      <4>5. \A v : (v = views) => (IF v = <<>> THEN {} ELSE v[Len(v)].files) = IF n = 0 THEN {} ELSE meant[n]
        BY <3>7, <4>1, <4>2, <4>3
      <4>6. (IF views' = <<>> THEN {} ELSE views'[Len(views')].files) = meant'[n + 1]
        BY <3>7, <4>4
      <4>7. UNION {views[i].files : i \in 1 .. Len(views)} = UNION {meant[i] : i \in 1 .. n}
        BY <3>7, <4>2
      <4> USE DEF views
      <4> QED BY <4>5, <4>6, <4>7 DEF TimeTravel!Latest, TimeTravel!Seen
    <3>12. TimeTravel!AddView(op)
      <4>1. meant'[n + 1] \in SUBSET Rows
        <5>1. n # 0 => n \in 1 .. n
          BY <3>1
        <5> QED BY <3>3, <3>9, <3>10, <5>1
      <4>2. views'[n + 1].op = op
        <5>1. n + 1 \in 1 .. n + 1
          BY <3>1
        <5> QED BY <5>1, <3>5, <3>6
      <4> QED BY <3>7, <3>8, <3>11, <4>1, <4>2 DEF TimeTravel!AddView
    <3>13. CASE op = "append"
      <4>1. n # 0 => n \in 1 .. n
        BY <3>1
      <4>2. meant'[n + 1] = TimeTravel!Latest \cup rows
        BY <3>3, <3>11, <3>13
      <4>3. rows \cap TimeTravel!Latest = {} /\ rows \cap TimeTravel!Seen = {} /\ rows # {}
        BY <3>9, <3>10, <3>11, <3>13, <4>1
      <4> QED BY <3>11, <3>12, <3>13, <4>2, <4>3 DEF TimeTravel!Next, TimeTravel!AppendRows
    <3>14. CASE op = "overwrite"
      <4>1. meant'[n + 1] = rows /\ rows \cap TimeTravel!Seen = {}
        BY <3>3, <3>10, <3>11, <3>14
      <4> QED BY <3>11, <3>12, <3>14, <4>1 DEF TimeTravel!Next, TimeTravel!OverwriteRows
    <3> QED BY <3>13, <3>14
  <2>3. CASE UNCHANGED vars
    BY <2>1, <2>3 DEF vars
  <2>4. ASSUME NEW records \in Batches, WriteRaises(records) PROVE UNCHANGED views
    BY <2>1, <2>4 DEF WriteRaises
  <2>5. ASSUME NEW c \in Columns, AddColumn(c) PROVE UNCHANGED views
    BY <2>1, <2>5 DEF AddColumn
  <2> QED BY <2>2, <2>3, <2>4, <2>5 DEF Next
<1> QED BY <1>1, <1>2, InitInv, StepInv, PTL DEF Spec, RefinesTimeTravel, TimeTravel!Spec

===============================================================================
