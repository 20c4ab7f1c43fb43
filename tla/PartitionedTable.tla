--------------------------- MODULE PartitionedTable ---------------------------
(***************************************************************************)
(* Rows in a partitioned mini-iceberg table: how append and overwrite      *)
(* split rows into data files (table.py, transforms.py, types.py), which   *)
(* statistics each file gets (stats.py), and which rows a scan with or     *)
(* without filters returns for each snapshot, while columns are added.     *)
(*                                                                         *)
(* One caller at a time, and every call is one step; what concurrent       *)
(* callers and crashes do to manifests is in IcebergTable.tla.  A call     *)
(* that raises is a step too when it has left data files behind.           *)
(***************************************************************************)
EXTENDS Integers, Sequences, FiniteSets

CONSTANTS
    Columns,        \* column names
    TypeOf,         \* TypeOf[c]: "long", "string" or another primitive type
    Records,        \* the dicts callers write: a value or None for each column
    FirstSchema,    \* the columns of create_table
    Specs,          \* partition specs: partition name to source and transform
    None,           \* Python's None, JSON's null
    Hash(_, _),     \* murmur3 of the bytes of a value of a type
    MaxWrites,      \* bound: calls of append and overwrite
    MaxRows,        \* bound: rows in one call
    MaxColumns,     \* bound: columns of the schema
    MaxFailures     \* bound: calls that raise after writing files

\* A string is the sequence of its characters.  A value of another type stands
\* for its place in the order of the type: a date for its day, False and True, which
\* Python counts as integers, for 0 and 1; NaN, which has none, is not modelled.
Values(type) == IF type = "string" THEN Seq(Nat) ELSE Int

ASSUME PartitionAssumption ==
    /\ TypeOf \in [Columns -> STRING]
    /\ \A r \in Records : DOMAIN r = Columns
    /\ FirstSchema \in Seq(Columns)
    /\ \A s \in Specs : \A k \in DOMAIN s :
          /\ s[k].source \in Columns
          /\ s[k].kind \in {"identity", "bucket", "truncate"}
          /\ s[k].kind # "identity" => s[k].n \in Nat \ {0}
    /\ \A r \in Records, c \in Columns : r[c] # None =>
          /\ Hash(TypeOf[c], r[c]) \in Nat
          /\ r[c] \in Values(TypeOf[c])
    /\ {MaxWrites, MaxRows, MaxColumns, MaxFailures} \subseteq Nat

VARIABLES
    spec,       \* the partition spec of the table
    schema,     \* the columns of its current schema, in order
    snapshots,  \* snapshots[i]: operation and live data files of the i-th snapshot
    stored,     \* the data files on storage
    writes,     \* calls so far, to tell equal rows of two calls apart
    failures,   \* only for the bound MaxFailures
    meant       \* history: meant[i] are the rows callers expect in snapshot i

vars == <<spec, schema, snapshots, stored, writes, failures, meant>>

ColumnSet(s) == {s[i] : i \in 1 .. Len(s)}

-----------------------------------------------------------------------------
(* Transforms.  On a value it does not support, truncate raises.            *)

\* isinstance(value, int) holds of booleans too, but not of floats, dates and timestamps.
Truncatable == {"int", "long", "boolean", "string"}
Supported(pf, v) == pf.kind = "truncate" /\ v # None => TypeOf[pf.source] \in Truncatable

\* A faulty variant, not part of Spec: division that rounds towards zero.
TruncateToZero(type, v, w) ==
    IF type = "string" THEN SubSeq(v, 1, IF Len(v) < w THEN Len(v) ELSE w)
    ELSE IF v < 0 THEN -((-v) \div w) * w ELSE (v \div w) * w

\* The first w characters of a string; the multiple of w at or below a number.
Truncate(type, v, w) ==
    IF type = "string" THEN SubSeq(v, 1, IF Len(v) < w THEN Len(v) ELSE w)
    ELSE (v \div w) * w

Bucket(type, v, n) == Hash(type, v) % n

Transform(pf, v) ==
    CASE v = None                              -> None
      [] v # None /\ pf.kind = "identity"      -> v
      [] v # None /\ pf.kind = "bucket"        -> Bucket(TypeOf[pf.source], v, pf.n)
      [] v # None /\ pf.kind = "truncate"      -> Truncate(TypeOf[pf.source], v, pf.n)

\* The partition values of a row; its columns are the schema's, padded with None.
PartitionKey(r) == [k \in DOMAIN spec |-> Transform(spec[k], r.val[spec[k].source])]

-----------------------------------------------------------------------------
(* Statistics of a data file.                                               *)

\* The order min_max goes by: of numbers and dates, and of strings by their characters.
Leq(c, v, w) ==
    IF TypeOf[c] # "string" THEN v <= w
    ELSE \/ Len(v) <= Len(w) /\ v = SubSeq(w, 1, Len(v))
         \/ \E i \in 1 .. Len(v) : /\ i <= Len(w) /\ v[i] < w[i]
                                  /\ SubSeq(v, 1, i - 1) = SubSeq(w, 1, i - 1)

NotNull(rows, c) == {r.val[c] : r \in {q \in rows : q.val[c] # None}}

StatsOf(rows, c) ==
    LET vs == NotNull(rows, c) IN
    [min |-> IF vs = {} THEN None ELSE CHOOSE v \in vs : \A w \in vs : Leq(c, v, w),
     max |-> IF vs = {} THEN None ELSE CHOOSE v \in vs : \A w \in vs : Leq(c, w, v),
     null_count |-> Cardinality({r \in rows : r.val[c] = None})]

\* A faulty variant, not part of Spec: nulls are dropped before they are counted.
StatsSkippingNulls(rows, columns) ==
    [c \in columns |-> StatsOf({r \in rows : r.val[c] # None}, c)]

ComputeStats(rows, columns) == [c \in columns |-> StatsOf(rows, c)]

-----------------------------------------------------------------------------
(* Scans.                                                                   *)

\* Faulty variants of the operations below, none of them part of Spec.

\* A file without a partition value passes every filter.
MatchesUnlessNull(f, filters) ==
    \A k \in DOMAIN filters : k \in DOMAIN f.key /\ f.key[k] # None => f.key[k] = filters[k]

\* df.partition.get(k) is None for a name that is no partition name.
PartitionMatches(f, filters) ==
    \A k \in DOMAIN filters :
        (IF k \in DOMAIN f.key THEN f.key[k] ELSE None) = filters[k]

ScanFiles(i, filters) == {f \in snapshots[i].files : PartitionMatches(f, filters)}

\* concat_tables pads the columns a file does not have with None, and a row is
\* padded here from the start.  Every file adds its own rows.
ScanRows(i, filters) == UNION {f.rows : f \in ScanFiles(i, filters)}

\* The columns of the arrow table that a scan returns.
ScanColumns(i) ==
    IF snapshots[i].files = {} THEN ColumnSet(schema)
    ELSE UNION {f.columns : f \in snapshots[i].files}

NoFilter == [k \in {} |-> None]

\* _live_files: the files of the last snapshot.
LiveFiles == IF snapshots = <<>> THEN {} ELSE snapshots[Len(snapshots)].files

-----------------------------------------------------------------------------
(* Writes.                                                                  *)

\* _rows_to_arrow: the columns of the schema, None where a dict has no value;
\* what a dict has besides them is dropped.
ToArrow(r) == [write |-> writes + 1,
               val |-> [c \in Columns |-> IF c \in ColumnSet(schema) THEN r[c] ELSE None]]

\* A faulty variant, not part of Spec: a row without a partition value is lost.
GroupsWithKey(rows) ==
    {{r \in rows : PartitionKey(r) = key} :
        key \in {k \in {PartitionKey(r) : r \in rows} : \A n \in DOMAIN k : k[n] # None}}

\* An unpartitioned table gets one file, even for no rows.
PartitionGroups(rows) ==
    IF DOMAIN spec = {} THEN {rows}
    ELSE {{r \in rows : PartitionKey(r) = key} : key \in {PartitionKey(r) : r \in rows}}

KeyOf(group) == IF DOMAIN spec = {} THEN NoFilter
                ELSE PartitionKey(CHOOSE r \in group : TRUE)

WriteParquet(group) ==
    [write |-> writes + 1, key |-> KeyOf(group), rows |-> group,
     columns |-> ColumnSet(schema), stats |-> ComputeStats(group, ColumnSet(schema))]

NewFiles(rows) == {WriteParquet(group) : group \in PartitionGroups(rows)}

\* Two columns of one name: compute_stats cannot look the column up and raises.
Ambiguous == Cardinality(ColumnSet(schema)) # Len(schema)

\* json.dump raises on a partition value that is a date or a timestamp.
NotSerialisable(f) ==
    \E k \in DOMAIN f.key : /\ spec[k].kind = "identity" /\ f.key[k] # None
                            /\ TypeOf[spec[k].source] \in {"date", "timestamp"}

TransformRaises(rows) ==
    \E r \in rows, k \in DOMAIN spec : ~Supported(spec[k], r.val[spec[k].source])

Succeeds(rows) ==
    /\ ~TransformRaises(rows)
    /\ Ambiguous => NewFiles(rows) = {}
    /\ \A f \in NewFiles(rows) : ~NotSerialisable(f)

\* A faulty variant, not part of Spec: an overwrite that only adds.
AppendAlways(op, new) == new \cup LiveFiles

LiveAfter(op, new) == IF op = "append" THEN new \cup LiveFiles ELSE new

Given(records) == {ToArrow(r) : r \in records}

Write(op, records) ==
    /\ writes < MaxWrites
    /\ op = "append" => records # {}
    /\ Succeeds(Given(records))
    /\ writes' = writes + 1
    /\ stored' = stored \cup NewFiles(Given(records))
    /\ snapshots' = Append(snapshots, [op |-> op, files |-> LiveAfter(op, NewFiles(Given(records)))])
    /\ meant' = Append(meant, Given(records) \cup
                              (IF op = "append" /\ meant # <<>> THEN meant[Len(meant)] ELSE {}))
    /\ UNCHANGED <<spec, schema, failures>>

\* A faulty variant, not part of Spec: an upload that fails is taken for done.
WriteRaisesUnnoticed(records) ==
    /\ writes < MaxWrites
    /\ failures < MaxFailures
    /\ Succeeds(Given(records))
    /\ \E written \in SUBSET NewFiles(Given(records)) : stored' = stored \cup written
    /\ snapshots' = Append(snapshots, [op |-> "append", files |-> LiveAfter("append", NewFiles(Given(records)))])
    /\ meant' = Append(meant, Given(records))
    /\ writes' = writes + 1
    /\ failures' = failures + 1
    /\ UNCHANGED <<spec, schema>>

\* A call that raises, for a reason above or because storage does, leaves some or
\* all of its data files behind and commits nothing.
WriteRaises(records) ==
    /\ writes < MaxWrites
    /\ failures < MaxFailures
    /\ ~TransformRaises(Given(records))
    /\ \E written \in SUBSET NewFiles(Given(records)) :
          /\ written # {}
          /\ Ambiguous => Cardinality(written) = 1
          /\ stored' = stored \cup written
    /\ writes' = writes + 1
    /\ failures' = failures + 1
    /\ UNCHANGED <<spec, schema, snapshots, meant>>

\* with_added does not look whether the schema has the column already.
AddColumn(c) ==
    /\ Len(schema) < MaxColumns
    /\ schema' = Append(schema, c)
    /\ UNCHANGED <<spec, snapshots, stored, writes, failures, meant>>

Init ==
    /\ spec \in Specs
    /\ schema = FirstSchema
    /\ snapshots = <<>> /\ meant = <<>>
    /\ stored = {}
    /\ writes = 0 /\ failures = 0

Batches == {b \in SUBSET Records : IsFiniteSet(b) /\ Cardinality(b) <= MaxRows}

Next ==
    \/ \E op \in {"append", "overwrite"}, b \in Batches : Write(op, b)
    \/ \E b \in Batches : WriteRaises(b)
    \/ \E c \in Columns : AddColumn(c)

Spec == Init /\ [][Next]_vars

-----------------------------------------------------------------------------
(* Properties.                                                              *)

Rows == [write : 1 .. MaxWrites, val : {[c \in Columns |-> IF c \in d THEN r[c] ELSE None] :
                                           r \in Records, d \in SUBSET Columns}]

\* Every variable has the type its comment says.
TypeOK ==
    /\ spec \in Specs
    /\ schema \in Seq(Columns)
    /\ writes \in 0 .. MaxWrites /\ failures \in 0 .. MaxFailures
    /\ Len(meant) = Len(snapshots)
    /\ \A f \in stored : f.write \in 1 .. writes /\ f.rows \subseteq Rows
    /\ \A i \in 1 .. Len(snapshots) : snapshots[i].files \subseteq stored

\* Whatever the partition spec, the schema changes and the failed calls before it,
\* a scan of a snapshot returns the rows its callers gave, each of them from one
\* file only, and every column in which one of them has a value (table.py 53-61,
\* 194-215, 250-257).
ScanReturnsMeant ==
    \A i \in 1 .. Len(snapshots) :
        /\ ScanRows(i, NoFilter) = meant[i]
        /\ \A f, g \in snapshots[i].files : f # g => f.rows \cap g.rows = {}
        /\ \A r \in meant[i], c \in Columns : r.val[c] # None => c \in ScanColumns(i)

\* What callers compare partition columns with: what a record is transformed to, and None.
FilterValues ==
    {None} \cup UNION {{Transform(spec[k], r[spec[k].source]) :
                           r \in {q \in Records : Supported(spec[k], q[spec[k].source])}} :
                       k \in DOMAIN spec}
Filters == UNION {[names -> FilterValues] : names \in SUBSET DOMAIN spec}

\* "Filter on partition column directly": a filter on partition columns selects
\* exactly the rows whose columns are transformed to those values, nulls included,
\* although only whole files are chosen and nothing looks at their rows
\* (table.py 34-51).
FilterSelects ==
    \A i \in 1 .. Len(snapshots), filters \in Filters :
        ScanRows(i, filters) =
            {r \in ScanRows(i, NoFilter) : \A k \in DOMAIN filters : filters[k] = PartitionKey(r)[k]}

\* "The user just queries `user_id = 42` and Iceberg handles the bucket-to-partition
\* mapping under the hood": a filter on the source column of a partition column does
\* not lose rows that have the value.
HiddenPartitioning ==
    \A i \in 1 .. Len(snapshots), k \in DOMAIN spec, r \in Records :
        LET c == spec[k].source IN
        {q \in ScanRows(i, NoFilter) : q.val[c] = r[c]} \subseteq ScanRows(i, [n \in {c} |-> r[c]])

\* The statistics may be used to skip a file: no value of a column is outside its
\* bounds, and a column that has no null among null_count rows has none at all,
\* also after other columns were added (stats.py 18-29).
StatsBoundRows ==
    \A f \in stored : \A c \in f.columns : \A r \in f.rows :
        IF r.val[c] = None THEN f.stats[c].null_count > 0
        ELSE /\ f.stats[c].min # None /\ Leq(c, f.stats[c].min, r.val[c])
             /\ f.stats[c].max # None /\ Leq(c, r.val[c], f.stats[c].max)

\* A truncated partition holds a range: the numbers from its value up to the next
\* multiple, below zero as above, whatever integer type or boolean they are, or the
\* strings with its prefix (transforms.py 82-88).
TruncateHoldsRange ==
    \A f \in stored, k \in DOMAIN spec :
        spec[k].kind = "truncate" =>
            \A r \in f.rows :
                LET v == r.val[spec[k].source] IN
                IF v = None THEN f.key[k] = None
                ELSE IF TypeOf[spec[k].source] = "string"
                     THEN f.key[k] = SubSeq(v, 1, Len(f.key[k])) /\ Len(f.key[k]) <= spec[k].n
                     ELSE f.key[k] <= v /\ v < f.key[k] + spec[k].n

\* Row by row the table is a TimeTravelTable: an append adds rows nobody has seen to
\* those of the last snapshot, an overwrite replaces them, and failed calls and
\* schema changes are not seen at all.
TimeTravel == INSTANCE TimeTravelTable WITH
    views <- [i \in 1 .. Len(snapshots) |-> [op |-> snapshots[i].op, files |-> ScanRows(i, NoFilter)]],
    Files <- Rows
RefinesTimeTravel == TimeTravel!Spec

===============================================================================
