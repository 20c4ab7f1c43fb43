--------------------------- MODULE MCPartitionedTable ---------------------------
(* Instances of PartitionedTable for TLC.                                       *)
EXTENDS PartitionedTable, TLC

\* Five columns; "day" is added later, and each may be added again.
MCColumns == {"key", "total", "paid", "name", "day"}
MCTypeOf == ("key" :> "long") @@ ("total" :> "int") @@ ("paid" :> "boolean") @@
            ("name" :> "string") @@ ("day" :> "date")
MCFirstSchema == <<"key", "total", "paid", "name">>

\* Numbers on both sides of zero, a string that is the prefix of another, nulls.
MCRecord(k, t, b, s, d) ==
    ("key" :> k) @@ ("total" :> t) @@ ("paid" :> b) @@ ("name" :> s) @@ ("day" :> d)
MCRecords == {MCRecord(-1, 4, 1, <<1>>, None), MCRecord(3, -3, 0, <<1, 2>>, None),
              MCRecord(None, None, None, None, 1)}

\* A string is the sequence of its characters, a date its number.
MCHash(type, v) == IF type = "string" THEN v[1] + Len(v) ELSE v + 7

Identity(c) == [source |-> c, kind |-> "identity"]
BucketOf(c, n) == [source |-> c, kind |-> "bucket", n |-> n]
TruncateOf(c, n) == [source |-> c, kind |-> "truncate", n |-> n]

MCSpecs == {[k \in {} |-> None],
            "name" :> Identity("name"),
            ("key_bucket" :> BucketOf("key", 2)) @@ ("day" :> Identity("day")),
            "key_trunc" :> TruncateOf("key", 2),
            ("total_trunc" :> TruncateOf("total", 3)) @@ ("paid_trunc" :> TruncateOf("paid", 2)),
            "name_trunc" :> TruncateOf("name", 1),
            "day_trunc" :> TruncateOf("day", 1)}

\* The table of examples/04_partitioned.py, with fewer buckets.
MCBucketed == {"key_bucket" :> BucketOf("key", 2)}
===============================================================================
