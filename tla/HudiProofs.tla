------------------------------ MODULE HudiProofs ------------------------------
(***************************************************************************)
(* Theorems about HudiTable, for any keys, partitions, batches, options of *)
(* the jobs, instants and crashes.                                         *)
(***************************************************************************)
EXTENDS HudiTable, FiniteBounds

-----------------------------------------------------------------------------
(* What the files in a listing L say about the writes in bs that completed   *)
(* at the instants in D, when cleans have retained what is after cl.         *)

UpTo(D, t) == {i \in D : i <= t}

\* The keys a write has put into a file group.
KeysAt(rs, i, g) == {k \in DOMAIN rs[i] : rs[i][k].group = g}
Touches(rs, i, g) == rs[i] # None /\ KeysAt(rs, i, g) # {}

\* The writes of a key to a file group, and the row they leave there.
Writes(rs, g, k, D) == {i \in D : rs[i] # None /\ k \in KeysAt(rs, i, g)}
Row(rs, g, k, D) ==
    LET is == Writes(rs, g, k, D)
    IN  IF is = {} \/ rs[Newest(is)][k].op = "d" THEN None ELSE Newest(is)

RowsOf(rs, g, D) == [k \in KeysOf(g.part) |-> Row(rs, g, k, D)]

\* The row of a key in the table, from the batches, and the file group that has it.
KeyWrites(bs, k, D) == {i \in D : bs[i] # None /\ k \in DOMAIN bs[i]}
KeyRow(bs, k, D) ==
    LET is == KeyWrites(bs, k, D)
    IN  IF is = {} \/ bs[Newest(is)][k] = "d" THEN None ELSE Newest(is)
Routings(rs, k, D) == {i \in D : rs[i] # None /\ k \in DOMAIN rs[i]}
Place(rs, k, D) ==
    LET is == Routings(rs, k, D)
    IN  IF is = {} \/ rs[Newest(is)][k].op = "d" THEN None ELSE rs[Newest(is)][k].group

\* At every instant a key is in one file group at most, with the row the table has.
Agree(rs, bs, D) ==
    \A t \in Int : \A k \in Keys :
        /\ Place(rs, k, UpTo(D, t)) = None <=> KeyRow(bs, k, UpTo(D, t)) = None
        /\ \A g \in Groups :
              Row(rs, g, k, UpTo(D, t)) =
                  IF Place(rs, k, UpTo(D, t)) = g THEN KeyRow(bs, k, UpTo(D, t)) ELSE None

\* The write at i puts a key into g that was not there.
Inserts(rs, g, k, i, D) ==
    rs[i] # None /\ k \in KeysAt(rs, i, g) /\ Row(rs, g, k, {j \in D : j < i}) = None

\* A completed base file of g that holds what was written up to i.
Based(L, D, g, i) == \E x \in L : x.group = g /\ x.kind = "base" /\ x.at \in D /\ i <= x.at

BaseOnly(slice) == {f \in slice : f.kind = "base"}

Shaped(L) ==
    \A f \in L : /\ f \in Files /\ f.group.from <= f.at
                 /\ f.kind = "base" => f.slice = f.at
                 /\ f.kind = "log" => f.slice < f.at

\* A log has the rows of its write, a base file all the rows up to its instant.
LogContent(f, rs) ==
    /\ rs[f.at] # None
    /\ DOMAIN f.rows = KeysAt(rs, f.at, f.group)
    /\ \A k \in DOMAIN f.rows : f.rows[k] = IF rs[f.at][k].op = "d" THEN None ELSE f.at
BaseContent(f, D, rs) ==
    /\ DOMAIN f.rows = KeysOf(f.group.part)
    /\ \A k \in KeysOf(f.group.part) : f.rows[k] = Row(rs, f.group, k, UpTo(D \cup {f.at}, f.at))
Content(L, D, rs) ==
    \A f \in L : /\ f.kind = "log" => LogContent(f, rs)
                 /\ f.kind = "base" => BaseContent(f, D, rs)

\* What was written to g at i is in a file of its own, or in a base file that a clean
\* has left.
Stored(L, D, cl, g, i) ==
    \/ \E f \in L : f.group = g /\ f.at = i
    \/ \E x \in L : x.group = g /\ x.kind = "base" /\ x.at \in D /\ i <= x.at /\ x.at < cl
Complete(L, D, rs, cl) ==
    \A g \in Groups : \A i \in D : Touches(rs, i, g) => Stored(L, D, cl, g, i)

\* File slices do not overlap.
Disjoint(L) == \A f, w \in L : f.group = w.group /\ f.slice < w.slice => f.at < w.slice

\* There is a completed base file under every log.
Grounded(L, D) ==
    \A h \in L : h.kind = "log" =>
        \E x \in L : x.group = h.group /\ x.kind = "base" /\ x.at \in D /\ x.at <= h.slice

History(L, D, rs, cl) ==
    /\ Shaped(L) /\ Content(L, D, rs) /\ Complete(L, D, rs, cl)
    /\ Disjoint(L) /\ Grounded(L, D)

-----------------------------------------------------------------------------
(* The inductive invariant.                                                  *)

Planned == IF cleaning = None THEN {} ELSE cleaning.plan
Kept == files \ Planned
GroupsOf(cp) == {f.group : f \in cp.source}

\* Keys stay in their partition, in file groups that are not newer than the write.
RouteTyped(route, b, i) ==
    /\ route = None <=> b = None
    /\ route # None =>
          \A k \in DOMAIN route : route[k].group.part = PartitionOf[k] /\ route[k].group.from <= i

\* Where a batch sends a key that is in the file group at.
KeyRouted(route, b, k, at) ==
    /\ k \in DOMAIN route <=> k \in DOMAIN b /\ (b[k] = "u" \/ at # None)
    /\ k \in DOMAIN route => route[k].op = b[k] /\ (at # None => route[k].group = at)

ClockOK ==
    /\ config \in Configs
    /\ last \in 0 .. MaxInstants /\ done \subseteq 1 .. last
    /\ archived \in 0 .. last /\ cleaned \in 0 .. last
    /\ crashes \in 0 .. MaxCrashes
    /\ batches \in [Instants -> Batches \cup {None}]
    /\ \A i \in Instants : last < i => batches[i] = None
    /\ routes \in [Instants -> Routes \cup {None}]
    /\ \A i \in Instants : RouteTyped(routes[i], batches[i], i)
    /\ Agree(routes, batches, done)

UpsertOK ==
    upsert # None =>
        /\ upsert \in Upserts
        /\ upsert.at = last /\ last \notin done /\ archived < last
        /\ batches[last] # None
        /\ \A k \in Keys : KeyRouted(routes[last], batches[last], k, Place(routes, k, done))
        /\ compaction # None => compaction.at < last
        /\ upsert.todo \subseteq RoutedTo(routes[last])
        /\ \A g \in Groups : Touches(routes, last, g) =>
              \/ g \in upsert.todo
              \/ \E f \in Listing : f.group = g /\ f.at = last /\ (g \in upsert.bases => f.kind = "base")
        /\ \A g \in Groups : \A k \in Keys : Inserts(routes, g, k, last, done) => g \in upsert.bases
        /\ \A g \in upsert.todo \cap upsert.bases : compaction # None => g \notin GroupsOf(compaction)
        /\ \A g \in upsert.todo \ upsert.bases : Based(Listing, done, g, 0)

CompactionOK ==
    compaction # None =>
        /\ compaction \in Compactions
        /\ compaction.at \in 1 .. last /\ compaction.at \notin done /\ archived < compaction.at
        /\ routes[compaction.at] = None
        /\ config.type = "MERGE_ON_READ"

\* A file is of a completed instant or of one that is under way.
FilesAt(L, D, up, cp) ==
    \A f \in L : \/ f.at \in D
                 \/ up # None /\ f.at = up.at /\ f.group \notin up.todo
                 \/ cp # None /\ f.at = cp.at /\ f.kind = "base" /\ f.group \in GroupsOf(cp)

SliceHasBase(L, D, cp) ==
    \A h \in L : h.kind = "log" =>
        \/ \E x \in L : x.group = h.group /\ x.kind = "base" /\ x.at \in D /\ x.at = h.slice
        \/ cp # None /\ h.slice = cp.at /\ h.group \in GroupsOf(cp)

\* A clean leaves a newer base file from before the retained commits, whole slices go,
\* and none that is being compacted.
PlanOK(P, K, D, cp, earliest) ==
    /\ \A f \in P : /\ f.at \in D
                    /\ \E x \in K : /\ x.group = f.group /\ x.kind = "base" /\ x.at \in D
                                    /\ f.slice < x.at /\ x.at < earliest
                    /\ \A w \in K : w.group = f.group => w.slice # f.slice
                    /\ cp # None => \A w \in cp.source : w.group = f.group => w.slice # f.slice

CleaningOK ==
    /\ cleaned <= EarliestRetained(done)
    /\ cleaning # None =>
          /\ cleaning \in Cleanings
          /\ cleaned <= cleaning.earliest /\ cleaning.earliest <= EarliestRetained(done)
          /\ PlanOK(cleaning.plan, Kept, done, compaction, cleaning.earliest)

\* The source of a pending compaction of p is the slice of a base file x that no clean
\* removes, and what was written since is in the slice of the compaction.
SourceOK(L, K, D, cp, g) ==
    \E x \in K : /\ x.group = g /\ x.kind = "base" /\ x.at \in D /\ x.at < cp.at
                 /\ \A f \in cp.source : f.group = g => f.slice = x.at
                 /\ \A h \in L : h.group = g =>
                       \/ h.slice <= x.at /\ h.at < cp.at
                       \/ h.slice = cp.at
CompactionContent(cp, rs, D, g) ==
    Merged(g, {f \in cp.source : f.group = g}) = RowsOf(rs, g, UpTo(D, cp.at))

PendingOK(L, K, D, rs, cp) ==
    cp # None =>
        /\ \A f \in cp.source : f.at \in D /\ f.at < cp.at
        /\ cp.todo \subseteq GroupsOf(cp)
        /\ \A g \in GroupsOf(cp) : SourceOK(L, K, D, cp, g) /\ CompactionContent(cp, rs, D, g)
        /\ cp.state = "running" =>
              \A g \in GroupsOf(cp) \ cp.todo : \E x \in K : x.group = g /\ x.kind = "base" /\ x.at = cp.at
        /\ \A g \in Groups \ GroupsOf(cp) : \A i \in D :
              i < cp.at /\ Touches(rs, i, g) => Based(L, D, g, i)

\* What was written before a completed compaction is in a base file.
Compacted(L, D, rs) ==
    \A g \in Groups : \A c \in D : rs[c] = None =>
        \A i \in D : i < c /\ Touches(rs, i, g) => Based(L, D, g, i)

\* A key that is new in a file group goes to a base file.
InsertsBased(L, D, rs) ==
    \A g \in Groups : \A i \in D : \A k \in Keys : Inserts(rs, g, k, i, D) => Based(L, D, g, i)

TableData(L, K, D, rs, cl, up, cp) ==
    /\ K \subseteq L /\ Shaped(L) /\ Content(L, D, rs) /\ Complete(L, D, rs, cl) /\ Disjoint(L)
    /\ FilesAt(L, D, up, cp) /\ SliceHasBase(L, D, cp)
    /\ PendingOK(L, K, D, rs, cp)
    /\ Compacted(L, D, rs) /\ InsertsBased(L, D, rs)

TableInv ==
    /\ ClockOK /\ UpsertOK /\ CompactionOK /\ CleaningOK
    /\ TableData(Listing, Kept, done, routes, cleaned, upsert, compaction)

\* What an open query needs is in the listing, or has left the retained commits.
NeedOK(L, D, q, e) ==
    \A f \in q.need :
        /\ f \in Files /\ f.at \in D /\ f.at \in q.seen
        /\ \A w \in L : w.group = f.group /\ w.kind = "base" /\ w.at \in q.seen => w.at <= f.slice
        /\ f \in L \/ \E i \in D : i \notin q.seen /\ i < e

KeyRows(bs, p, D) == LiveRows([k \in KeysOf(p) |-> KeyRow(bs, k, D)])

FilesOf(q, p) == {f \in q.need : f.group.part = p}

\* What a read-optimized query of p may get.
Lagging(rows, bs, D, seen, p) ==
    /\ \A r \in rows : \E t \in Instants :
          /\ \A i \in seen \cap D : bs[i] = None => i <= t
          /\ r \in KeyRows(bs, p, D \cap {i \in seen : i <= t})
    /\ \A r \in KeyRows(bs, p, D \cap seen) : \E x \in rows : x.key = r.key

\* An open query reads what the completed writes it includes have left; a read-optimized
\* one reads rows that were there at some instant.
OpenOK(L, D, bs, q, up, cp, e, l) ==
    /\ q = [seen |-> q.seen, baseOnly |-> q.baseOnly, state |-> "open", need |-> q.need, got |-> q.got]
    /\ up # None => up.at \notin q.seen
    /\ cp # None => cp.at \notin q.seen
    /\ q.seen \subseteq 1 .. l
    /\ \A p \in DOMAIN q.got : p \in Partitions /\ q.got[p] = RowsIn(FilesOf(q, p))
    /\ NeedOK(L, D, q, e)
    /\ \A p \in Partitions :
          /\ ~q.baseOnly => RowsIn(FilesOf(q, p)) = KeyRows(bs, p, D \cap q.seen)
          /\ q.baseOnly => Lagging(RowsIn(FilesOf(q, p)), bs, D, q.seen, p)

QueryInv ==
    query # None =>
        /\ query.state = "listed" => query.commits \subseteq done
        /\ query.state = "open" =>
              OpenOK(Listing, done, batches, query, upsert, compaction, EarliestRetained(done), last)

\* What a compaction reads stays on storage until it has completed.
SourceKept == compaction # None => compaction.source \subseteq Kept

Inv == TableInv /\ SourceKept /\ QueryInv /\ FailsOutsideWindow

-----------------------------------------------------------------------------
(* Rows and files.                                                           *)

\* A set of integers with an upper bound has a newest element; so do instants.
LEMMA NewestInt ==
    ASSUME NEW S \in SUBSET Int, S # {}, NEW b \in Int, \A x \in S : x <= b
    PROVE  Newest(S) \in S /\ \A j \in S : j <= Newest(S)
<1>1. \E i \in S : \A j \in S : j <= i
  BY LargestInt
<1> QED BY <1>1 DEF Newest

LEMMA NewestOf ==
    ASSUME NEW S \in SUBSET Instants, S # {}
    PROVE  Newest(S) \in S /\ \A j \in S : j <= Newest(S)
<1>1. S \in SUBSET Int /\ MaxInstants \in Int /\ \A x \in S : x <= MaxInstants
  BY HudiAssumption DEF Instants
<1> QED BY <1>1, NewestInt

LEMMA OldestOf ==
    ASSUME NEW S \in SUBSET Instants, S # {}
    PROVE  Oldest(S) \in S /\ \A j \in S : Oldest(S) <= j
<1>1. S \in SUBSET Int /\ 1 \in Int /\ \A x \in S : 1 <= x
  BY HudiAssumption DEF Instants
<1>2. \E i \in S : \A j \in S : i <= j
  BY <1>1, SmallestInt
<1> QED BY <1>2 DEF Oldest

\* The last write of a key is the one that counts.
LEMMA RowOfLast ==
    ASSUME NEW D \in SUBSET Instants, NEW rs, NEW g, NEW k,
           NEW i \in Writes(rs, g, k, D), \A j \in Writes(rs, g, k, D) : j <= i
    PROVE  Row(rs, g, k, D) = IF rs[i][k].op = "d" THEN None ELSE i
<1>1. Writes(rs, g, k, D) \in SUBSET Instants
  BY DEF Writes
<1>2. Newest(Writes(rs, g, k, D)) \in Writes(rs, g, k, D) /\ i <= Newest(Writes(rs, g, k, D))
  BY <1>1, NewestOf
<1>3. Newest(Writes(rs, g, k, D)) = i
  BY <1>1, <1>2, HudiAssumption DEF Instants
<1> QED BY <1>2, <1>3 DEF Row

LEMMA RowOfNone ==
    ASSUME NEW D, NEW rs, NEW g, NEW k, Writes(rs, g, k, D) = {}
    PROVE  Row(rs, g, k, D) = None
BY DEF Row

LEMMA RowType ==
    ASSUME NEW D \in SUBSET Instants, NEW rs, NEW g, NEW k
    PROVE  Row(rs, g, k, D) \in D \cup {None}
<1>1. Writes(rs, g, k, D) \in SUBSET Instants /\ Writes(rs, g, k, D) \subseteq D
  BY DEF Writes
<1>2. Writes(rs, g, k, D) # {} => Newest(Writes(rs, g, k, D)) \in D
  BY <1>1, NewestOf
<1> QED BY <1>2 DEF Row

\* Only the writes of the key matter.
LEMMA SameRow ==
    ASSUME NEW D1 \in SUBSET Instants, NEW D2, NEW rs1, NEW rs2, NEW g, NEW k,
           Writes(rs1, g, k, D1) = Writes(rs2, g, k, D2),
           \A i \in Writes(rs1, g, k, D1) : rs1[i] = rs2[i]
    PROVE  Row(rs1, g, k, D1) = Row(rs2, g, k, D2)
<1>1. Writes(rs1, g, k, D1) \in SUBSET Instants
  BY DEF Writes
<1>2. Writes(rs1, g, k, D1) # {} => Newest(Writes(rs1, g, k, D1)) \in Writes(rs1, g, k, D1)
  BY <1>1, NewestOf
<1> QED BY <1>2 DEF Row

LEMMA FileFields ==
    ASSUME NEW f \in Files
    PROVE  /\ f.at \in Instants /\ f.slice \in Instants
           /\ f.at \in Int /\ f.slice \in Int
           /\ f.group \in Groups /\ f.kind \in {"base", "log"}
BY HudiAssumption DEF Files, Instants

\* Merging takes the row of the newest file that has the key.
LEMMA MergedRow ==
    ASSUME NEW g, NEW slice \in SUBSET Files, NEW k \in KeysOf(g.part),
           \E f \in slice : k \in DOMAIN f.rows
    PROVE  \E f \in slice : /\ k \in DOMAIN f.rows
                            /\ \A w \in slice : k \in DOMAIN w.rows => w.at <= f.at
                            /\ Merged(g, slice)[k] = f.rows[k]
<1> DEFINE with == {f \in slice : k \in DOMAIN f.rows}
           ats == {f.at : f \in with}
<1>1. ats \in SUBSET Instants /\ ats # {}
  BY FileFields
<1>2. Newest(ats) \in ats /\ \A a \in ats : a <= Newest(ats)
  BY <1>1, NewestOf
<1>3. \E f \in with : \A w \in with : w.at <= f.at
  BY <1>2
<1>4. (CHOOSE f \in with : \A w \in with : w.at <= f.at) \in with
      /\ \A w \in with : w.at <= (CHOOSE f \in with : \A h \in with : h.at <= f.at).at
  BY <1>3
<1>5. with # {}
  OBVIOUS
<1>6. Merged(g, slice)[k] = (CHOOSE f \in with : \A w \in with : w.at <= f.at).rows[k]
  BY <1>5 DEF Merged
<1> QED BY <1>4, <1>6

LEMMA MergedNone ==
    ASSUME NEW g, NEW slice, NEW k \in KeysOf(g.part), \A f \in slice : k \notin DOMAIN f.rows
    PROVE  Merged(g, slice)[k] = None
BY DEF Merged

-----------------------------------------------------------------------------
(* What reading the files of a listing gives.                                *)

LEMMA Bases ==
    ASSUME NEW g, NEW L, NEW seen
    PROVE  \A x : x \in BasesOf(g, L, seen) <=> x \in L /\ x.group = g /\ x.kind = "base" /\ x.at \in seen
BY DEF BasesOf

LEMMA NewestBase ==
    ASSUME NEW L, Shaped(L), NEW g, NEW seen, BasesOf(g, L, seen) # {}
    PROVE  \E x \in BasesOf(g, L, seen) : \A w \in BasesOf(g, L, seen) : w.at <= x.at
<1> DEFINE ats == {f.at : f \in BasesOf(g, L, seen)}
<1>1. ats \in SUBSET Instants /\ ats # {}
  BY FileFields DEF Shaped, BasesOf
<1>2. Newest(ats) \in ats /\ \A a \in ats : a <= Newest(ats)
  BY <1>1, NewestOf
<1> QED BY <1>2

\* Without a base file there is nothing to read, and nothing was written.
LEMMA NothingThere ==
    ASSUME NEW L, NEW D \in SUBSET Instants, NEW rs, NEW cl \in Int, History(L, D, rs, cl),
           NEW t \in Int, cl <= t,
           NEW seen, \A f \in L : f.at \in seen <=> f.at \in UpTo(D, t),
           NEW g \in Groups, BasesOf(g, L, seen) = {}
    PROVE  /\ SliceFiles(g, L, seen) = {}
           /\ \A i \in UpTo(D, t) : ~Touches(rs, i, g)
<1>1. \A x \in L : x.group = g /\ x.kind = "base" => ~(x.at \in D /\ x.at <= t)
  BY DEF BasesOf, UpTo
<1>2. ASSUME NEW h \in L, h.group = g, h.at \in D, h.at <= t PROVE FALSE
  <2>1. h \in Files /\ h.kind = "log" /\ h.slice < h.at
    BY <1>1, <1>2, FileFields DEF History, Shaped
  <2>2. PICK x \in L : x.group = g /\ x.kind = "base" /\ x.at \in D /\ x.at <= h.slice
    BY <1>2, <2>1 DEF History, Grounded
  <2>3. x.at <= t
    BY <1>2, <2>1, <2>2, FileFields DEF History, Shaped
  <2> QED BY <1>1, <2>2, <2>3
<1>3. SliceFiles(g, L, seen) = {}
  BY <1>2 DEF SliceFiles, Slices, BasesOf, UpTo
<1>4. ASSUME NEW i \in UpTo(D, t), Touches(rs, i, g) PROVE FALSE
  <2>1. i \in D /\ i <= t
    BY <1>4 DEF UpTo
  <2>2. Stored(L, D, cl, g, i)
    BY <1>4, <2>1 DEF History, Complete
  <2>3. CASE \E f \in L : f.group = g /\ f.at = i
    BY <1>2, <2>1, <2>3
  <2>4. CASE \E x \in L : x.group = g /\ x.kind = "base" /\ x.at \in D /\ i <= x.at /\ x.at < cl
    <3>1. PICK x \in L : x.group = g /\ x.kind = "base" /\ x.at \in D /\ i <= x.at /\ x.at < cl
      BY <2>4
    <3>2. x.at <= t
      BY <3>1, FileFields DEF History, Shaped
    <3> QED BY <1>1, <3>1, <3>2
  <2> QED BY <2>2, <2>3, <2>4 DEF Stored
<1> QED BY <1>3, <1>4

\* The newest base file has everything up to its instant; what was written later is in
\* the logs of its slice.
LEMMA LaterWrites ==
    ASSUME NEW L, NEW D \in SUBSET Instants, NEW rs, NEW cl \in Int, History(L, D, rs, cl),
           NEW t \in Int, cl <= t,
           NEW seen, \A f \in L : f.at \in seen <=> f.at \in UpTo(D, t),
           NEW g \in Groups,
           NEW x \in BasesOf(g, L, seen), \A w \in BasesOf(g, L, seen) : w.at <= x.at,
           NEW i \in UpTo(D, t), Touches(rs, i, g), x.at < i
    PROVE  \E f \in SliceFiles(g, L, seen) : f.kind = "log" /\ f.at = i
<1>1. x \in L /\ x.group = g /\ x.kind = "base" /\ x.at \in D /\ x.at <= t /\ x.slice = x.at /\ x.at \in Int
  BY FileFields DEF BasesOf, UpTo, History, Shaped
<1>2. i \in D /\ i <= t /\ i \in Int
  BY HudiAssumption DEF UpTo, Instants
<1>3. \A w \in L : w.group = g /\ w.kind = "base" /\ w.at \in D /\ w.at <= t => w.at <= x.at
  BY DEF BasesOf, UpTo
<1>4. Stored(L, D, cl, g, i)
  BY <1>2 DEF History, Complete
<1>5. ~ \E y \in L : y.group = g /\ y.kind = "base" /\ y.at \in D /\ i <= y.at /\ y.at < cl
  BY <1>1, <1>2, <1>3, FileFields DEF History, Shaped
<1>6. PICK f \in L : f.group = g /\ f.at = i
  BY <1>4, <1>5 DEF Stored
<1>7. f \in Files /\ f.kind \in {"base", "log"} /\ f.slice \in Int
  BY FileFields DEF History, Shaped
<1>8. f.kind = "log"
  BY <1>1, <1>2, <1>3, <1>6, <1>7
<1>9. ~ (f.slice < x.slice)
  BY <1>1, <1>2, <1>6, <1>7 DEF History, Disjoint
<1>10. f \in SliceFiles(g, L, seen)
  <2>1. f.at \in seen
    BY <1>2, <1>6 DEF UpTo
  <2>2. ASSUME NEW w \in BasesOf(g, L, seen) PROVE w.at <= f.slice
    BY <1>1, <1>7, <1>9, <2>2, FileFields DEF BasesOf, History, Shaped
  <2> QED BY <1>6, <2>1, <2>2 DEF SliceFiles, Slices, BasesOf
<1> QED BY <1>6, <1>8, <1>10

\* A read-optimized query of a partition gets it as it was at the newest base file.
LEMMA ReadsBase ==
    ASSUME NEW L, NEW D \in SUBSET Instants, NEW rs, Shaped(L), Content(L, D, rs),
           NEW seen, \A f \in L : f.at \in seen => f.at \in D,
           NEW g \in Groups,
           NEW x \in BasesOf(g, L, seen), \A w \in BasesOf(g, L, seen) : w.at <= x.at
    PROVE  Merged(g, BaseOnly(SliceFiles(g, L, seen))) = RowsOf(rs, g, UpTo(D, x.at))
<1> DEFINE slice == BaseOnly(SliceFiles(g, L, seen))
<1>1. x \in L /\ x.group = g /\ x.kind = "base" /\ x.at \in D /\ x.slice = x.at
  BY DEF BasesOf, Shaped
<1>2. x \in slice
  BY <1>1 DEF BaseOnly, SliceFiles, Slices, BasesOf
<1>3. ASSUME NEW f \in slice
      PROVE  f \in L /\ f \in Files /\ f.kind = "base" /\ f.group = g /\ f.at = x.at
  <2>1. f \in L /\ f.kind = "base" /\ f.group = g /\ f.at \in seen /\ f \in Files /\ f.slice = f.at
    BY DEF BaseOnly, SliceFiles, Slices, BasesOf, Shaped
  <2>2. x.at <= f.slice /\ f.at <= x.at
    BY <2>1 DEF BaseOnly, SliceFiles, Slices, BasesOf
  <2> QED BY <1>1, <2>1, <2>2, FileFields DEF Shaped
<1>4. slice \in SUBSET Files
  BY <1>3
<1> HIDE DEF slice
<1>5. ASSUME NEW k \in KeysOf(g.part) PROVE Merged(g, slice)[k] = Row(rs, g, k, UpTo(D, x.at))
  <2>1. k \in DOMAIN x.rows
    BY <1>1 DEF Content, BaseContent
  <2>2. PICK f \in slice : k \in DOMAIN f.rows /\ Merged(g, slice)[k] = f.rows[k]
    BY <1>2, <1>4, <2>1, MergedRow
  <2>3. f.rows[k] = Row(rs, g, k, UpTo(D \cup {x.at}, x.at))
    BY <1>3 DEF Content, BaseContent
  <2>4. D \cup {x.at} = D
    BY <1>1
  <2> QED BY <2>2, <2>3, <2>4
<1> QED BY <1>5 DEF slice, Merged, RowsOf

\* A snapshot or time-travel query gets what was written up to its instant, unless that
\* is before what cleans have retained.
LEMMA ReadsHistory ==
    ASSUME NEW L, NEW D \in SUBSET Instants, NEW rs, NEW cl \in Int, History(L, D, rs, cl),
           NEW t \in Int, cl <= t,
           NEW seen, \A f \in L : f.at \in seen <=> f.at \in UpTo(D, t),
           NEW g \in Groups
    PROVE  Merged(g, SliceFiles(g, L, seen)) = RowsOf(rs, g, UpTo(D, t))
<1> DEFINE slice == SliceFiles(g, L, seen)
<1>1. SUFFICES ASSUME NEW k \in KeysOf(g.part) PROVE Merged(g, slice)[k] = Row(rs, g, k, UpTo(D, t))
  BY DEF Merged, RowsOf
<1>2. CASE BasesOf(g, L, seen) = {}
  <2>1. slice = {} /\ \A i \in UpTo(D, t) : ~Touches(rs, i, g)
    BY <1>2, NothingThere
  <2>2. Writes(rs, g, k, UpTo(D, t)) = {}
    BY <2>1 DEF Writes, Touches
  <2> QED BY <2>1, <2>2, RowOfNone, MergedNone
<1>3. CASE BasesOf(g, L, seen) # {}
  <2>0. Shaped(L) /\ Content(L, D, rs)
    BY DEF History
  <2>1. PICK x \in BasesOf(g, L, seen) : \A w \in BasesOf(g, L, seen) : w.at <= x.at
    BY <1>3, <2>0, NewestBase
  <2>2. x \in L /\ x.group = g /\ x.kind = "base" /\ x.at \in D /\ x.at <= t /\ x.slice = x.at
        /\ x \in Files /\ x.at \in Int
    BY <2>0, FileFields DEF BasesOf, UpTo, Shaped
  <2>3. x \in slice /\ k \in DOMAIN x.rows
    BY <2>0, <2>1, <2>2 DEF SliceFiles, Slices, BasesOf, Content, BaseContent
  <2>4. ASSUME NEW f \in slice
        PROVE  /\ f \in L /\ f \in Files /\ f.group = g /\ f.at \in D /\ f.at <= t
               /\ f.at \in Int /\ x.at <= f.at
               /\ f.kind = "base" => f.at = x.at
    <3>1. f \in L /\ f.group = g /\ f.at \in seen /\ x.at <= f.slice
      BY <2>1 DEF SliceFiles, Slices, BasesOf
    <3>2. f.kind = "base" => f.at <= x.at
      BY <2>1, <3>1 DEF BasesOf
    <3>3. f.at \in UpTo(D, t)
      BY <3>1
    <3> QED BY <2>0, <2>2, <3>1, <3>2, <3>3, FileFields DEF Shaped, UpTo
  <2>5. slice \in SUBSET Files
    BY <2>4
  <2>6. \A i \in UpTo(D, t) : Touches(rs, i, g) /\ x.at < i =>
           \E f \in slice : f.kind = "log" /\ f.at = i
    BY <2>1, LaterWrites
  <2> HIDE DEF slice
  <2>7. PICK f \in slice : /\ k \in DOMAIN f.rows
                           /\ \A w \in slice : k \in DOMAIN w.rows => w.at <= f.at
                           /\ Merged(g, slice)[k] = f.rows[k]
    BY <2>3, <2>5, MergedRow
  <2>8. ASSUME NEW i \in Writes(rs, g, k, UpTo(D, t)) PROVE i <= f.at
    <3>1. i \in UpTo(D, t) /\ i \in Int /\ Touches(rs, i, g) /\ rs[i] # None /\ k \in KeysAt(rs, i, g)
      BY HudiAssumption DEF Writes, UpTo, Touches, Instants
    <3>2. CASE i <= x.at
      BY <2>2, <2>4, <3>1, <3>2
    <3>3. CASE x.at < i
      <4>1. PICK w \in slice : w.kind = "log" /\ w.at = i
        BY <2>6, <3>1, <3>3
      <4>2. k \in DOMAIN w.rows
        BY <2>0, <2>4, <3>1, <4>1 DEF Content, LogContent
      <4> QED BY <2>7, <4>1, <4>2
    <3> QED BY <2>2, <3>1, <3>2, <3>3
  <2>9. UpTo(D, t) \in SUBSET Instants
    BY DEF UpTo
  <2>10. CASE f.kind = "log"
    <3>1. LogContent(f, rs)
      BY <2>0, <2>4, <2>10 DEF Content
    <3>2. f.at \in Writes(rs, g, k, UpTo(D, t))
      BY <2>4, <2>7, <3>1 DEF LogContent, Writes, UpTo
    <3>3. Row(rs, g, k, UpTo(D, t)) = IF rs[f.at][k].op = "d" THEN None ELSE f.at
      BY <2>8, <2>9, <3>2, RowOfLast
    <3> QED BY <2>7, <3>1, <3>3 DEF LogContent
  <2>11. CASE f.kind = "base"
    <3>1. f.at = x.at /\ D \cup {x.at} = D
      BY <2>2, <2>4, <2>11
    <3>2. f.rows[k] = Row(rs, g, k, UpTo(D, x.at))
      BY <2>0, <2>4, <2>11, <3>1 DEF Content, BaseContent
    <3>3. Writes(rs, g, k, UpTo(D, x.at)) = Writes(rs, g, k, UpTo(D, t))
      <4>1. \A i \in UpTo(D, x.at) : i \in UpTo(D, t)
        BY <2>2, HudiAssumption DEF UpTo, Instants
      <4>2. \A i \in Writes(rs, g, k, UpTo(D, t)) : i \in UpTo(D, x.at)
        BY <2>8, <3>1 DEF UpTo, Writes
      <4> QED BY <4>1, <4>2 DEF Writes
    <3>4. UpTo(D, x.at) \in SUBSET Instants
      BY DEF UpTo
    <3>5. Row(rs, g, k, UpTo(D, x.at)) = Row(rs, g, k, UpTo(D, t))
      BY <3>3, <3>4, SameRow
    <3> QED BY <2>7, <3>2, <3>5
  <2>12. f.kind \in {"base", "log"}
    BY <2>4, FileFields
  <2> QED BY <2>10, <2>11, <2>12
<1> QED BY <1>2, <1>3

LEMMA ReadsAll ==
    ASSUME NEW L, NEW D \in SUBSET Instants, NEW rs, NEW cl \in Int, History(L, D, rs, cl),
           NEW t \in Int, cl <= t, UpTo(D, t) = D,
           NEW g \in Groups
    PROVE  Merged(g, SliceFiles(g, L, D)) = RowsOf(rs, g, D)
<1>1. \A f \in L : f.at \in D <=> f.at \in UpTo(D, t)
  OBVIOUS
<1>2. Merged(g, SliceFiles(g, L, D)) = RowsOf(rs, g, UpTo(D, t))
  BY <1>1, ReadsHistory
<1> QED BY <1>2

-----------------------------------------------------------------------------
(* The retained commits.                                                     *)

LEMMA ConfigFields ==
    ASSUME config \in Configs
    PROVE  /\ config.retained \in Nat /\ config.retained > 0
           /\ config.clean = "sync" => config.type = "COPY_ON_WRITE"
           /\ config.type \in {"COPY_ON_WRITE", "MERGE_ON_READ"}
BY HudiAssumption
   DEF Configs, StreamOptions, CleanTestOptions, TimeTravelTestOptions, CompactionTestOptions,
       StandaloneCompactionOptions, RawReadTestOptions

LEMMA FiniteInstants ==
    ASSUME NEW D \in SUBSET Instants
    PROVE  IsFiniteSet(D) /\ Cardinality(D) \in Nat
<1>1. IsFiniteSet(Instants)
  BY HudiAssumption, FS_Interval DEF Instants
<1> QED BY <1>1, FS_Subset, FS_CardinalityType

\* When there are more commits than are retained, some commit is the oldest of the
\* retained ones.
LEMMA RetainedExist ==
    ASSUME NEW D \in SUBSET Instants, NEW r \in Nat, r > 0, Cardinality(D) > r
    PROVE  \E i \in D : Cardinality({j \in D : j >= i}) = r
<1> DEFINE From(i) == {j \in D : j >= i}
           enough == {i \in D : Cardinality(From(i)) >= r}
<1>0. \A j \in D : j \in Int
  BY HudiAssumption DEF Instants
<1>1. \A i \in D : From(i) \in SUBSET Instants /\ IsFiniteSet(From(i)) /\ Cardinality(From(i)) \in Nat
  BY FiniteInstants
<1>2. D # {}
  BY FS_EmptySet
<1>3. PICK o \in D : \A j \in D : o <= j
  BY <1>2, OldestOf
<1>4. From(o) = D
  BY <1>0, <1>3
<1>5. o \in enough
  BY <1>3, <1>4, FiniteInstants
<1>6. enough \in SUBSET Instants /\ enough # {}
  BY <1>5
<1>7. PICK i \in enough : \A j \in enough : j <= i
  BY <1>6, NewestOf
<1>8. i \in D /\ i \in Int /\ i \in From(i) /\ Cardinality(From(i)) >= r
  BY <1>0, <1>7
<1>9. SUFFICES ASSUME Cardinality(From(i)) # r PROVE FALSE
  BY <1>8
<1> DEFINE rest == From(i) \ {i}
<1>10. IsFiniteSet(rest) /\ Cardinality(rest) = Cardinality(From(i)) - 1 /\ rest \in SUBSET Instants
  BY <1>1, <1>8, FS_RemoveElement
<1>11. Cardinality(rest) >= r /\ Cardinality(rest) # 0
  <2> DEFINE c == Cardinality(From(i))
             d == Cardinality(rest)
  <2>0. c \in Nat
    BY <1>1, <1>8
  <2>1. c \in Nat /\ c >= r /\ c # r /\ d = c - 1
    BY <1>8, <1>9, <1>10, <2>0
  <2> HIDE DEF c, d
  <2>2. d >= r /\ d # 0
    BY <2>1
  <2> QED BY <2>2 DEF d
<1>12. rest # {}
  BY <1>11, FS_EmptySet
<1>13. PICK n \in rest : \A j \in rest : n <= j
  BY <1>10, <1>12, OldestOf
<1>14. n \in D /\ n \in Int /\ n > i
  BY <1>0, <1>8, <1>13
<1>15. From(n) = rest
  <2>1. ASSUME NEW j \in D, j >= n PROVE j \in rest
    BY <1>0, <1>8, <1>14, <2>1
  <2>2. ASSUME NEW j \in rest PROVE j \in D /\ j >= n
    BY <1>0, <1>13, <1>14, <2>2
  <2> HIDE DEF rest
  <2> QED BY <2>1, <2>2
<1>16. n \in enough
  BY <1>11, <1>14, <1>15
<1>17. n <= i
  BY <1>7, <1>16
<1> QED BY <1>8, <1>14, <1>17

LEMMA EarliestType ==
    ASSUME config \in Configs, NEW D \in SUBSET Instants
    PROVE  /\ EarliestRetained(D) \in D \cup {0}
           /\ EarliestRetained(D) \in Nat
           /\ Cardinality(D) <= config.retained => EarliestRetained(D) = 0
           /\ Cardinality(D) > config.retained =>
                 /\ EarliestRetained(D) \in D
                 /\ Cardinality({j \in D : j >= EarliestRetained(D)}) = config.retained
<1> DEFINE r == config.retained
<1>1. r \in Nat /\ r > 0 /\ Cardinality(D) \in Nat
  BY ConfigFields, FiniteInstants
<1>2. CASE Cardinality(D) <= r
  <2>1. EarliestRetained(D) = 0 /\ ~(Cardinality(D) > r)
    BY <1>1, <1>2 DEF EarliestRetained
  <2> QED BY <2>1
<1>3. CASE ~(Cardinality(D) <= r)
  <2>0. Cardinality(D) > r
    BY <1>1, <1>3
  <2>1. \E i \in D : Cardinality({j \in D : j >= i}) = r
    BY <1>1, <2>0, RetainedExist
  <2>2. EarliestRetained(D) = CHOOSE i \in D : Cardinality({j \in D : j >= i}) = r
    BY <1>3 DEF EarliestRetained
  <2>3. EarliestRetained(D) \in D /\ Cardinality({j \in D : j >= EarliestRetained(D)}) = r
    BY <2>1, <2>2
  <2>4. \A j \in D : j \in Nat
    BY HudiAssumption DEF Instants
  <2>5. EarliestRetained(D) \in Nat
    BY <2>3, <2>4
  <2> QED BY <1>3, <2>3, <2>5
<1> QED BY <1>2, <1>3

\* The window only moves forward.
LEMMA EarliestGrows ==
    ASSUME config \in Configs, NEW D \in SUBSET Instants, NEW E \in SUBSET Instants, D \subseteq E
    PROVE  EarliestRetained(D) <= EarliestRetained(E)
<1> DEFINE r == config.retained
           d == EarliestRetained(D)
           e == EarliestRetained(E)
           late == {j \in D : j >= d}
           later == {j \in E : j >= e}
<1>1. /\ r \in Nat /\ r > 0 /\ d \in Nat /\ e \in Nat
      /\ Cardinality(D) \in Nat /\ Cardinality(E) \in Nat /\ Cardinality(D) <= Cardinality(E)
  BY ConfigFields, EarliestType, FiniteInstants, FS_Subset
<1>2. CASE Cardinality(D) <= r
  <2>1. d = 0
    BY <1>2, EarliestType
  <2> QED BY <1>1, <2>1
<1>3. CASE Cardinality(D) > r
  <2>1. Cardinality(E) > r
    <3> HIDE DEF r
    <3> QED BY <1>1, <1>3
  <2>2. d \in D /\ Cardinality(late) = r /\ e \in E /\ Cardinality(later) = r
    BY <1>3, <2>1, EarliestType
  <2>3. ASSUME e < d PROVE FALSE
    <3>1. \A j \in E : j \in Int
      BY HudiAssumption DEF Instants
    <3>2. e \in later
      BY <1>1, <2>2
    <3>3. \A j \in late : j \in E /\ j >= d /\ j \in Int
      BY <3>1
    <3>4. late \subseteq later \ {e}
      <4> HIDE DEF d, e, late
      <4> QED BY <1>1, <2>3, <3>3
    <3>5. IsFiniteSet(later)
      BY FiniteInstants
    <3> HIDE DEF late, later, d, e, r
    <3>6. Cardinality(later \ {e}) = r - 1 /\ IsFiniteSet(later \ {e})
      BY <2>2, <3>2, <3>5, FS_RemoveElement
    <3>7. Cardinality(late) <= r - 1
      BY <3>4, <3>6, FS_Subset
    <3> QED BY <1>1, <2>2, <3>7
  <2>4. d <= e
    <3> HIDE DEF d, e
    <3> QED BY <1>1, <2>3
  <2> QED BY <2>4
<1> QED
  <2> HIDE DEF r
  <2> QED BY <1>1, <1>2, <1>3

-----------------------------------------------------------------------------
(* How the files of the table change.                                        *)

LEMMA DataHistory ==
    ASSUME NEW L, NEW K, NEW D, NEW rs, NEW cl, NEW up, NEW cp,
           TableData(L, K, D, rs, cl, up, cp)
    PROVE  History(L, D, rs, cl)
<1>1. ASSUME NEW h \in L, h.kind = "log"
      PROVE  \E x \in L : x.group = h.group /\ x.kind = "base" /\ x.at \in D /\ x.at <= h.slice
  <2>0. h.slice \in Int /\ \A x \in L : x.at \in Int
    BY FileFields DEF TableData, Shaped
  <2>1. CASE \E x \in L : x.group = h.group /\ x.kind = "base" /\ x.at \in D /\ x.at = h.slice
    BY <2>0, <2>1
  <2>2. CASE cp # None /\ h.slice = cp.at /\ h.group \in GroupsOf(cp)
    <3>1. PICK x \in K : x.group = h.group /\ x.kind = "base" /\ x.at \in D /\ x.at < cp.at
      BY <2>2 DEF TableData, PendingOK, SourceOK
    <3>2. x \in L
      BY <3>1 DEF TableData
    <3> QED BY <2>0, <2>2, <3>1, <3>2
  <2> QED BY <1>1, <2>1, <2>2 DEF TableData, SliceHasBase
<1> QED BY <1>1 DEF History, Grounded, TableData

\* Another name for the instants a reader believes.
LEMMA SameSlice ==
    ASSUME NEW L, NEW s1, NEW s2, \A f \in L : f.at \in s1 <=> f.at \in s2, NEW g
    PROVE  SliceFiles(g, L, s1) = SliceFiles(g, L, s2) /\ BasesOf(g, L, s1) = BasesOf(g, L, s2)
<1>1. BasesOf(g, L, s1) = BasesOf(g, L, s2)
  BY DEF BasesOf
<1> QED BY <1>1 DEF SliceFiles, Slices, BasesOf

\* The files a clean takes away are not read: a newer base file is left.
LEMMA SliceOfKept ==
    ASSUME NEW F, NEW P, Shaped(F \cup P), NEW seen,
           \A f \in P : \E x \in F : /\ x.group = f.group /\ x.kind = "base" /\ x.at \in seen
                                     /\ f.slice < x.at,
           NEW g
    PROVE  /\ SliceFiles(g, F, seen) = SliceFiles(g, F \cup P, seen)
           /\ BasesOf(g, F, seen) = {} <=> BasesOf(g, F \cup P, seen) = {}
<1>0. \A f \in F \cup P : f.at \in Int /\ f.slice \in Int /\ (f.kind = "base" => f.slice = f.at)
  BY FileFields DEF Shaped
<1>1. ASSUME NEW f \in SliceFiles(g, F, seen) PROVE f \in SliceFiles(g, F \cup P, seen)
  <2>1. f \in F /\ f.group = g /\ f.at \in seen /\ \A w \in BasesOf(g, F, seen) : w.at <= f.slice
    BY DEF SliceFiles, Slices, BasesOf
  <2>2. ASSUME NEW w \in BasesOf(g, F \cup P, seen) PROVE w.at <= f.slice
    <3>1. CASE w \in F
      BY <2>1, <2>2, <3>1 DEF BasesOf
    <3>2. CASE w \in P
      <4>1. PICK x \in F : x.group = w.group /\ x.kind = "base" /\ x.at \in seen /\ w.slice < x.at
        BY <3>2
      <4>2. x \in BasesOf(g, F, seen) /\ w.kind = "base"
        BY <4>1 DEF BasesOf
      <4> QED BY <1>0, <2>1, <3>2, <4>1, <4>2
    <3> QED BY <3>1, <3>2 DEF BasesOf
  <2> QED BY <2>1, <2>2 DEF SliceFiles, Slices, BasesOf
<1>2. ASSUME NEW f \in SliceFiles(g, F \cup P, seen) PROVE f \in SliceFiles(g, F, seen)
  <2>1. f \in F \cup P /\ f.group = g /\ f.at \in seen /\ \A w \in BasesOf(g, F \cup P, seen) : w.at <= f.slice
    BY DEF SliceFiles, Slices, BasesOf
  <2>2. CASE f \in P
    <3>1. PICK x \in F : x.group = g /\ x.kind = "base" /\ x.at \in seen /\ f.slice < x.at
      BY <2>1, <2>2
    <3>2. x.at <= f.slice
      BY <2>1, <3>1 DEF BasesOf
    <3> QED BY <1>0, <2>1, <3>1, <3>2
  <2>3. CASE f \in F
    BY <2>1, <2>3 DEF SliceFiles, Slices, BasesOf
  <2> QED BY <2>1, <2>2, <2>3
<1>3. BasesOf(g, F, seen) = {} <=> BasesOf(g, F \cup P, seen) = {}
  BY DEF BasesOf
<1> QED BY <1>1, <1>2, <1>3

LEMMA RowAgrees ==
    ASSUME NEW D \in SUBSET Instants, NEW rs1, NEW rs2, NEW g, NEW k, \A i \in D : rs1[i] = rs2[i]
    PROVE  Row(rs1, g, k, D) = Row(rs2, g, k, D)
<1>1. \A i \in D : KeysAt(rs1, i, g) = KeysAt(rs2, i, g)
  BY DEF KeysAt
<1>2. Writes(rs1, g, k, D) = Writes(rs2, g, k, D)
  BY <1>1 DEF Writes
<1>3. \A i \in Writes(rs1, g, k, D) : rs1[i] = rs2[i]
  BY DEF Writes
<1> QED BY <1>2, <1>3, SameRow

\* A write starts: what it is going to do changes nothing yet.
LEMMA DataOfNewBatch ==
    ASSUME NEW L, NEW K, NEW D \in SUBSET Instants, NEW rs, NEW cl, NEW up, NEW cp,
           TableData(L, K, D, rs, cl, None, cp),
           NEW rs2, \A i \in D : rs2[i] = rs[i], \A f \in L : rs2[f.at] = rs[f.at]
    PROVE  TableData(L, K, D, rs2, cl, up, cp)
<1> USE DEF TableData
<1>0. /\ \A i \in D, g \in Groups : KeysAt(rs2, i, g) = KeysAt(rs, i, g)
      /\ \A f \in L : KeysAt(rs2, f.at, f.group) = KeysAt(rs, f.at, f.group)
  BY DEF KeysAt
<1>1. \A i \in D, g \in Groups : Touches(rs2, i, g) <=> Touches(rs, i, g)
  BY <1>0 DEF Touches
<1>2. Content(L, D, rs2)
  <2>1. ASSUME NEW f \in L, f.kind = "log" PROVE LogContent(f, rs2)
    <3>1. LogContent(f, rs) /\ rs2[f.at] = rs[f.at] /\ KeysAt(rs2, f.at, f.group) = KeysAt(rs, f.at, f.group)
      BY <1>0, <2>1 DEF Content
    <3> QED BY <3>1 DEF LogContent
  <2>2. ASSUME NEW f \in L, f.kind = "base" PROVE BaseContent(f, D, rs2)
    <3>1. f.at \in Instants
      BY FileFields DEF Shaped
    <3>2. UpTo(D \cup {f.at}, f.at) \in SUBSET Instants
      BY <3>1 DEF UpTo
    <3>3. \A i \in UpTo(D \cup {f.at}, f.at) : rs[i] = rs2[i]
      BY DEF UpTo
    <3>4. \A k \in KeysOf(f.group.part) : Row(rs, f.group, k, UpTo(D \cup {f.at}, f.at)) = Row(rs2, f.group, k, UpTo(D \cup {f.at}, f.at))
      BY <3>2, <3>3, RowAgrees
    <3> QED BY <2>2, <3>4 DEF Content, BaseContent
  <2> QED BY <2>1, <2>2 DEF Content
<1>3. Complete(L, D, rs2, cl) /\ Compacted(L, D, rs2)
  BY <1>1 DEF Complete, Compacted
<1>4. FilesAt(L, D, up, cp)
  BY DEF FilesAt
<1>5. PendingOK(L, K, D, rs2, cp)
  <2>1. SUFFICES ASSUME cp # None PROVE PendingOK(L, K, D, rs2, cp)
    BY DEF PendingOK
  <2>2. ASSUME NEW g \in GroupsOf(cp) PROVE CompactionContent(cp, rs2, D, g)
    <3>1. UpTo(D, cp.at) \in SUBSET Instants /\ \A i \in UpTo(D, cp.at) : rs[i] = rs2[i]
      BY DEF UpTo
    <3>2. \A k \in KeysOf(g.part) : Row(rs, g, k, UpTo(D, cp.at)) = Row(rs2, g, k, UpTo(D, cp.at))
      BY <3>1, RowAgrees
    <3> QED BY <2>1, <2>2, <3>2 DEF PendingOK, CompactionContent, RowsOf
  <2> QED BY <1>1, <2>1, <2>2 DEF PendingOK
<1>6. InsertsBased(L, D, rs2)
  <2>1. ASSUME NEW g \in Groups, NEW i \in D, NEW k \in Keys, Inserts(rs2, g, k, i, D)
        PROVE  Inserts(rs, g, k, i, D)
    <3>1. Row(rs, g, k, {j \in D : j < i}) = Row(rs2, g, k, {j \in D : j < i})
      BY RowAgrees
    <3> QED BY <1>0, <2>1, <3>1 DEF Inserts
  <2> QED BY <2>1 DEF InsertsBased
<1> QED BY <1>2, <1>3, <1>4, <1>5, <1>6

\* A roll-back, and a compaction that starts again, take files of instants away that
\* did not complete.
LEMMA DataOfRemoval ==
    ASSUME NEW L, NEW K, NEW D, NEW rs, NEW cl, NEW up, NEW cp, TableData(L, K, D, rs, cl, up, cp),
           NEW L2 \in SUBSET L, \A f \in L : f.at \in D => f \in L2
    PROVE  /\ Shaped(L2) /\ Content(L2, D, rs) /\ Complete(L2, D, rs, cl) /\ Disjoint(L2)
           /\ SliceHasBase(L2, D, cp) /\ FilesAt(L2, D, up, cp)
           /\ Compacted(L2, D, rs) /\ InsertsBased(L2, D, rs)
<1> USE DEF TableData
<1>1. Shaped(L2) /\ Content(L2, D, rs) /\ Disjoint(L2) /\ FilesAt(L2, D, up, cp)
  BY DEF Shaped, Content, Disjoint, FilesAt
<1>2. Complete(L2, D, rs, cl)
  BY DEF Complete, Stored
<1>3. SliceHasBase(L2, D, cp)
  BY DEF SliceHasBase
<1>4. \A g, i : Based(L, D, g, i) => Based(L2, D, g, i)
  BY DEF Based
<1>5. Compacted(L2, D, rs) /\ InsertsBased(L2, D, rs)
  BY <1>4 DEF Compacted, InsertsBased
<1> QED BY <1>1, <1>2, <1>3, <1>5

\* A new plan of a clean takes nothing away that a pending compaction needs.
LEMMA DataOfPlan ==
    ASSUME NEW L, NEW K, NEW D, NEW rs, NEW cl, NEW up, NEW cp, TableData(L, K, D, rs, cl, up, cp),
           NEW P, NEW e, PlanOK(P, K \ P, D, cp, e), cp # None => cp.at \notin D
    PROVE  TableData(L, K \ P, D, rs, cl, up, cp)
<1> USE DEF TableData
<1>1. SUFFICES ASSUME cp # None PROVE PendingOK(L, K \ P, D, rs, cp)
  BY DEF PendingOK
<1>2. ASSUME NEW g \in GroupsOf(cp) PROVE SourceOK(L, K \ P, D, cp, g)
  <2>1. PICK x \in K : /\ x.group = g /\ x.kind = "base" /\ x.at \in D /\ x.at < cp.at
                       /\ \A f \in cp.source : f.group = g => f.slice = x.at
                       /\ \A h \in L : h.group = g =>
                             \/ h.slice <= x.at /\ h.at < cp.at
                             \/ h.slice = cp.at
    BY <1>1, <1>2 DEF PendingOK, SourceOK
  <2>2. PICK w \in cp.source : w.group = g
    BY <1>2 DEF GroupsOf
  <2>3. x.slice = x.at
    BY <2>1 DEF Shaped
  <2>4. x \notin P
    BY <1>1, <2>1, <2>2, <2>3 DEF PlanOK
  <2> QED BY <2>1, <2>4 DEF SourceOK
<1>3. ASSUME cp.state = "running", NEW g \in GroupsOf(cp) \ cp.todo
      PROVE  \E x \in K \ P : x.group = g /\ x.kind = "base" /\ x.at = cp.at
  BY <1>1, <1>3 DEF PendingOK, PlanOK
<1> QED BY <1>1, <1>2, <1>3 DEF PendingOK

\* A clean ends: its files leave the listing, and nothing is lost but old versions.
LEMMA DataOfClean ==
    ASSUME NEW L, NEW K, NEW D \in SUBSET Instants, NEW rs, NEW cl \in Int, NEW up, NEW cp,
           TableData(L, K, D, rs, cl, up, cp),
           NEW P, L = K \cup P, NEW e \in Int, cl <= e, PlanOK(P, K, D, cp, e)
    PROVE  TableData(K, K, D, rs, e, up, cp)
<1> USE DEF TableData
<1>0. \A f \in L : f.at \in Int /\ f.slice \in Int /\ (f.kind = "base" => f.slice = f.at)
  BY FileFields DEF Shaped
<1>1. \A i \in D : i \in Int
  BY HudiAssumption DEF Instants
<1>2. ASSUME NEW g, NEW i \in Int, Based(L, D, g, i) PROVE Based(K, D, g, i)
  <2>1. PICK x \in L : x.group = g /\ x.kind = "base" /\ x.at \in D /\ i <= x.at
    BY <1>2 DEF Based
  <2>2. CASE x \in K
    BY <2>1, <2>2 DEF Based
  <2>3. CASE x \in P
    <3>1. PICK y \in K : y.group = g /\ y.kind = "base" /\ y.at \in D /\ x.slice < y.at
      BY <2>1, <2>3 DEF PlanOK
    <3>2. i <= y.at
      BY <1>0, <2>1, <3>1
    <3> QED BY <3>1, <3>2 DEF Based
  <2> QED BY <2>2, <2>3
<1>3. Shaped(K) /\ Content(K, D, rs) /\ Disjoint(K) /\ FilesAt(K, D, up, cp)
  BY DEF Shaped, Content, Disjoint, FilesAt
<1>4. ASSUME NEW g \in Groups, NEW i \in D, Touches(rs, i, g) PROVE Stored(K, D, e, g, i)
  <2>1. CASE \E f \in L : f.group = g /\ f.at = i
    <3>1. PICK f \in L : f.group = g /\ f.at = i
      BY <2>1
    <3>2. CASE f \in K
      BY <3>1, <3>2 DEF Stored
    <3>3. CASE f \in P
      <4>1. PICK x \in K : x.group = g /\ x.kind = "base" /\ x.at \in D /\ f.slice < x.at /\ x.at < e
        BY <3>1, <3>3 DEF PlanOK
      <4>2. i < x.slice /\ x.slice = x.at
        BY <1>0, <3>1, <4>1 DEF Disjoint
      <4> QED BY <1>0, <3>1, <4>1, <4>2 DEF Stored
    <3> QED BY <3>2, <3>3
  <2>2. CASE \E x \in L : x.group = g /\ x.kind = "base" /\ x.at \in D /\ i <= x.at /\ x.at < cl
    <3>1. PICK x \in L : x.group = g /\ x.kind = "base" /\ x.at \in D /\ i <= x.at /\ x.at < cl
      BY <2>2
    <3>2. CASE x \in K
      BY <1>0, <3>1, <3>2 DEF Stored
    <3>3. CASE x \in P
      <4>1. PICK y \in K : y.group = g /\ y.kind = "base" /\ y.at \in D /\ x.slice < y.at /\ y.at < e
        BY <3>1, <3>3 DEF PlanOK
      <4>2. i <= y.at
        BY <1>0, <1>1, <3>1, <4>1
      <4> QED BY <4>1, <4>2 DEF Stored
    <3> QED BY <3>2, <3>3
  <2> QED BY <1>4, <2>1, <2>2 DEF Complete, Stored
<1>5. SliceHasBase(K, D, cp)
  <2>1. ASSUME NEW h \in K, h.kind = "log",
               NEW x \in L, x.group = h.group, x.kind = "base", x.at \in D, x.at = h.slice
        PROVE  x \in K
    BY <1>0, <2>1 DEF PlanOK
  <2> QED BY <2>1 DEF SliceHasBase
<1>6. PendingOK(K, K, D, rs, cp)
  <2>1. SUFFICES ASSUME cp # None PROVE PendingOK(K, K, D, rs, cp)
    BY DEF PendingOK
  <2>2. \A g \in GroupsOf(cp) : SourceOK(K, K, D, cp, g)
    BY <2>1 DEF PendingOK, SourceOK
  <2>3. ASSUME NEW g \in Groups \ GroupsOf(cp), NEW i \in D, i < cp.at, Touches(rs, i, g)
        PROVE  Based(K, D, g, i)
    BY <1>1, <1>2, <2>1, <2>3 DEF PendingOK
  <2> QED BY <2>1, <2>2, <2>3 DEF PendingOK
<1>7. Compacted(K, D, rs) /\ InsertsBased(K, D, rs)
  BY <1>1, <1>2 DEF Compacted, InsertsBased
<1> QED BY <1>3, <1>4, <1>5, <1>6, <1>7 DEF Complete

\* A write completes: its files count from now on.
LEMMA DataOfCommit ==
    ASSUME NEW L, NEW K, NEW D \in SUBSET Instants, NEW rs, NEW cl, NEW up, NEW cp,
           TableData(L, K, D, rs, cl, up, cp),
           NEW u \in Instants, up.at = u, u \notin D, rs[u] # None,
           \A i \in D : i < u, cp # None => cp.at < u /\ cp.at \in Instants,
           \A g \in Groups : Touches(rs, u, g) => \E f \in L : f.group = g /\ f.at = u,
           \A g \in Groups : \A k \in Keys : Inserts(rs, g, k, u, D) =>
              \E f \in L : f.group = g /\ f.at = u /\ f.kind = "base"
    PROVE  TableData(L, K, D \cup {u}, rs, cl, None, cp)
<1> USE DEF TableData
<1> DEFINE E == D \cup {u}
<1>0. u \in Int /\ (\A i \in D : i \in Int) /\ E \in SUBSET Instants
  BY HudiAssumption DEF Instants
<1>1. \A f \in L : f.at \in Int /\ f.at \in Instants /\ f.at <= u
  BY <1>0, FileFields DEF Shaped, FilesAt
<1>2. ASSUME NEW a \in Int, a < u PROVE UpTo(E, a) = UpTo(D, a)
  BY <1>0, <1>2 DEF UpTo
<1>3. Content(L, E, rs)
  <2>1. ASSUME NEW f \in L, f.kind = "base" PROVE BaseContent(f, E, rs)
    <3>1. UpTo(E \cup {f.at}, f.at) = UpTo(D \cup {f.at}, f.at)
      BY <1>0, <1>1 DEF UpTo
    <3> QED BY <2>1, <3>1 DEF Content, BaseContent
  <2> QED BY <2>1 DEF Content
<1>4. \A g, i : Based(L, D, g, i) => Based(L, E, g, i)
  BY DEF Based
<1>5. Complete(L, E, rs, cl)
  <2>1. ASSUME NEW g \in Groups, NEW i \in E, Touches(rs, i, g) PROVE Stored(L, E, cl, g, i)
    BY <2>1 DEF Complete, Stored
  <2> QED BY <2>1 DEF Complete
<1>6. FilesAt(L, E, None, cp) /\ SliceHasBase(L, E, cp)
  <2>1. FilesAt(L, E, None, cp)
    BY DEF FilesAt
  <2>2. SliceHasBase(L, E, cp)
    BY DEF SliceHasBase
  <2> QED BY <2>1, <2>2
<1>7. PendingOK(L, K, E, rs, cp)
  <2>1. SUFFICES ASSUME cp # None PROVE PendingOK(L, K, E, rs, cp)
    BY DEF PendingOK
  <2>2. cp.at \in Int /\ cp.at < u
    BY <2>1, HudiAssumption DEF Instants
  <2>3. ASSUME NEW g \in GroupsOf(cp) PROVE SourceOK(L, K, E, cp, g) /\ CompactionContent(cp, rs, E, g)
    <3>1. UpTo(E, cp.at) = UpTo(D, cp.at)
      BY <1>2, <2>2
    <3>2. SourceOK(L, K, E, cp, g)
      BY <2>1, <2>3 DEF PendingOK, SourceOK
    <3>3. CompactionContent(cp, rs, D, g)
      BY <2>1, <2>3 DEF PendingOK
    <3>4. CompactionContent(cp, rs, E, g)
      BY <3>1, <3>3 DEF CompactionContent
    <3> QED BY <3>2, <3>4
  <2>4. ASSUME NEW g \in Groups \ GroupsOf(cp), NEW i \in E, i < cp.at, Touches(rs, i, g)
        PROVE  Based(L, E, g, i)
    <3>1. i \in D
      BY <1>0, <2>2, <2>4
    <3> QED BY <1>4, <2>1, <2>4, <3>1 DEF PendingOK
  <2> QED BY <2>1, <2>3, <2>4 DEF PendingOK
<1>8. Compacted(L, E, rs)
  <2>1. ASSUME NEW g \in Groups, NEW c \in E, rs[c] = None, NEW i \in E, i < c, Touches(rs, i, g)
        PROVE  Based(L, E, g, i)
    <3>1. c \in D /\ i \in D
      BY <1>0, <2>1
    <3> QED BY <1>4, <2>1, <3>1 DEF Compacted
  <2> QED BY <2>1 DEF Compacted
<1>9. InsertsBased(L, E, rs)
  <2>1. ASSUME NEW g \in Groups, NEW i \in E, NEW k \in Keys, Inserts(rs, g, k, i, E)
        PROVE  Based(L, E, g, i)
    <3>1. {j \in E : j < i} = {j \in D : j < i}
      BY <1>0
    <3>2. Inserts(rs, g, k, i, D)
      BY <2>1, <3>1 DEF Inserts
    <3>3. CASE i \in D
      BY <1>4, <2>1, <3>2, <3>3 DEF InsertsBased
    <3>4. CASE i = u
      <4>1. PICK f \in L : f.group = g /\ f.at = u /\ f.kind = "base"
        BY <3>2, <3>4
      <4> QED BY <1>0, <3>4, <4>1 DEF Based
    <3> QED BY <3>3, <3>4
  <2> QED BY <2>1 DEF InsertsBased
<1> QED BY <1>3, <1>5, <1>6, <1>7, <1>8, <1>9

\* A compaction completes: it adds nothing to what was written.
LEMMA DataOfCompaction ==
    ASSUME NEW L, NEW K, NEW D \in SUBSET Instants, NEW rs, NEW cl, NEW up, NEW cp,
           TableData(L, K, D, rs, cl, up, cp),
           cp # None, cp.state = "running", cp.todo = {}, cp.at \in Instants, rs[cp.at] = None
    PROVE  TableData(L, K, D \cup {cp.at}, rs, cl, up, None)
<1> USE DEF TableData
<1> DEFINE c == cp.at
           E == D \cup {c}
<1>0. c \in Int /\ (\A i \in D : i \in Int) /\ E \in SUBSET Instants
  <2>1. \A i \in Instants : i \in Int
    BY HudiAssumption DEF Instants
  <2> QED BY <2>1
<1>1. \A f \in L : f.at \in Int /\ f.at \in Instants
  BY FileFields DEF Shaped
<1>2. \A g, i : Based(L, D, g, i) => Based(L, E, g, i)
  BY DEF Based
<1>3. Content(L, E, rs)
  <2>1. ASSUME NEW f \in L, f.kind = "base" PROVE BaseContent(f, E, rs)
    <3>1. ASSUME NEW k \in KeysOf(f.group.part)
          PROVE  Row(rs, f.group, k, UpTo(E \cup {f.at}, f.at)) =
                    Row(rs, f.group, k, UpTo(D \cup {f.at}, f.at))
      <4>1. UpTo(E \cup {f.at}, f.at) \in SUBSET Instants
        BY <1>1 DEF UpTo
      <4>2. Writes(rs, f.group, k, UpTo(E \cup {f.at}, f.at)) =
               Writes(rs, f.group, k, UpTo(D \cup {f.at}, f.at))
        BY DEF Writes, UpTo
      <4> QED BY <4>1, <4>2, SameRow
    <3> QED BY <2>1, <3>1 DEF Content, BaseContent
  <2> QED BY <2>1 DEF Content
<1>4. Complete(L, E, rs, cl)
  <2>1. ASSUME NEW g \in Groups, NEW i \in E, Touches(rs, i, g) PROVE Stored(L, E, cl, g, i)
    <3>1. i \in D
      BY <2>1 DEF Touches
    <3> QED BY <2>1, <3>1 DEF Complete, Stored
  <2> QED BY <2>1 DEF Complete
<1>5. FilesAt(L, E, up, None)
  BY DEF FilesAt
<1>6. \A g \in GroupsOf(cp) : \E x \in L : x.group = g /\ x.kind = "base" /\ x.at = c
  BY DEF PendingOK
<1>7. SliceHasBase(L, E, None)
  <2>1. ASSUME NEW h \in L, h.kind = "log"
        PROVE  \E x \in L : x.group = h.group /\ x.kind = "base" /\ x.at \in E /\ x.at = h.slice
    BY <1>6, <2>1 DEF SliceHasBase
  <2> QED BY <2>1 DEF SliceHasBase
<1>8. PendingOK(L, K, E, rs, None)
  BY DEF PendingOK
<1>9. Compacted(L, E, rs)
  <2>1. ASSUME NEW g \in Groups, NEW d \in E, rs[d] = None, NEW i \in E, i < d, Touches(rs, i, g)
        PROVE  Based(L, E, g, i)
    <3>1. i \in D
      BY <2>1 DEF Touches
    <3>2. CASE d \in D
      BY <1>2, <2>1, <3>1, <3>2 DEF Compacted
    <3>3. CASE d = c /\ g \in GroupsOf(cp)
      BY <1>0, <1>6, <2>1, <3>1, <3>3 DEF Based
    <3>4. CASE d = c /\ g \notin GroupsOf(cp)
      BY <1>2, <2>1, <3>1, <3>4 DEF PendingOK
    <3> QED BY <3>2, <3>3, <3>4
  <2> QED BY <2>1 DEF Compacted
<1>10. InsertsBased(L, E, rs)
  <2>1. ASSUME NEW g \in Groups, NEW i \in E, NEW k \in Keys, Inserts(rs, g, k, i, E)
        PROVE  Based(L, E, g, i)
    <3>1. i \in D
      BY <2>1 DEF Inserts
    <3>2. Writes(rs, g, k, {j \in E : j < i}) = Writes(rs, g, k, {j \in D : j < i})
      BY DEF Writes
    <3>3. {j \in E : j < i} \in SUBSET Instants
      OBVIOUS
    <3>4. Row(rs, g, k, {j \in E : j < i}) = Row(rs, g, k, {j \in D : j < i})
      BY <3>2, <3>3, SameRow
    <3>5. Inserts(rs, g, k, i, D)
      BY <2>1, <3>4 DEF Inserts
    <3> QED BY <1>2, <3>1, <3>5 DEF InsertsBased
  <2> QED BY <2>1 DEF InsertsBased
<1> QED BY <1>3, <1>4, <1>5, <1>7, <1>8, <1>9, <1>10

\* A file is added.
LEMMA DataOfFile ==
    ASSUME NEW L, NEW K, NEW D, NEW rs, NEW cl, NEW up, NEW cp, TableData(L, K, D, rs, cl, up, cp),
           NEW f, Shaped({f}), f.at \notin D, Content({f}, D, rs),
           \A w \in L : w.group = f.group =>
               /\ w.slice < f.slice => w.at < f.slice
               /\ f.slice < w.slice => f.at < w.slice,
           NEW up2, NEW cp2,
           FilesAt(L \cup {f}, D, up2, cp2),
           SliceHasBase(L \cup {f}, D, cp2),
           PendingOK(L \cup {f}, K \cup {f}, D, rs, cp2)
    PROVE  TableData(L \cup {f}, K \cup {f}, D, rs, cl, up2, cp2)
<1> USE DEF TableData
<1> DEFINE M == L \cup {f}
<1>1. Shaped(M) /\ Content(M, D, rs)
  BY DEF Shaped, Content
<1>2. Complete(M, D, rs, cl)
  <2>1. \A g, i : Stored(L, D, cl, g, i) => Stored(M, D, cl, g, i)
    BY DEF Stored
  <2> QED BY <2>1 DEF Complete
<1>3. Disjoint(M)
  <2>1. f.slice \in Int
    BY FileFields DEF Shaped
  <2>2. ASSUME NEW w \in M, NEW h \in M, w.group = h.group, w.slice < h.slice PROVE w.at < h.slice
    <3>1. CASE w \in L /\ h \in L
      BY <2>2, <3>1 DEF Disjoint
    <3>2. CASE w = f /\ h = f
      BY <2>1, <2>2, <3>2
    <3>3. CASE w \in L /\ h = f
      BY <2>2, <3>3
    <3>4. CASE w = f /\ h \in L
      BY <2>2, <3>4
    <3> QED BY <3>1, <3>2, <3>3, <3>4
  <2> QED BY <2>2 DEF Disjoint
<1>4. Compacted(M, D, rs) /\ InsertsBased(M, D, rs)
  <2>1. \A g, i : Based(L, D, g, i) => Based(M, D, g, i)
    BY DEF Based
  <2> QED BY <2>1 DEF Compacted, InsertsBased
<1> QED BY <1>1, <1>2, <1>3, <1>4

\* The rows after one more write.
LEMMA RowAfterWrite ==
    ASSUME NEW D \in SUBSET Instants, NEW u \in Instants, \A i \in D : i < u,
           NEW rs, rs[u] # None, NEW g, NEW k
    PROVE  Row(rs, g, k, D \cup {u}) =
              IF k \in KeysAt(rs, u, g) THEN IF rs[u][k].op = "d" THEN None ELSE u
              ELSE Row(rs, g, k, D)
<1> DEFINE E == D \cup {u}
<1>0. u \in Int /\ (\A i \in D : i <= u) /\ E \in SUBSET Instants
  BY HudiAssumption DEF Instants
<1>1. CASE k \in KeysAt(rs, u, g)
  <2>1. u \in Writes(rs, g, k, E) /\ \A j \in Writes(rs, g, k, E) : j <= u
    BY <1>0, <1>1 DEF Writes
  <2> HIDE DEF E
  <2>2. Row(rs, g, k, E) = IF rs[u][k].op = "d" THEN None ELSE u
    BY <1>0, <2>1, RowOfLast
  <2> QED BY <1>1, <2>2 DEF E
<1>2. CASE k \notin KeysAt(rs, u, g)
  <2>1. Writes(rs, g, k, E) = Writes(rs, g, k, D)
    BY <1>2 DEF Writes
  <2>2. Row(rs, g, k, E) = Row(rs, g, k, D)
    BY <1>0, <2>1, SameRow
  <2> QED BY <1>2, <2>2
<1> QED BY <1>1, <1>2

LEMMA NewestAdded ==
    ASSUME NEW D \in SUBSET Instants, NEW u \in Instants, \A i \in D : i < u
    PROVE  Newest(D \cup {u}) = u
<1> DEFINE E == D \cup {u}
<1>1. E \in SUBSET Instants /\ E # {} /\ u \in E /\ \A i \in E : i \in Int /\ i <= u
  BY HudiAssumption DEF Instants
<1> HIDE DEF E
<1>2. Newest(E) \in E /\ u <= Newest(E)
  BY <1>1, NewestOf
<1> QED BY <1>1, <1>2 DEF E

\* Where a key is, and the row it has, after one more write.
LEMMA PlaceAfterWrite ==
    ASSUME NEW D \in SUBSET Instants, NEW u \in Instants, \A i \in D : i < u,
           NEW rs, rs[u] # None, NEW k
    PROVE  Place(rs, k, D \cup {u}) =
              IF k \in DOMAIN rs[u] THEN IF rs[u][k].op = "d" THEN None ELSE rs[u][k].group
              ELSE Place(rs, k, D)
<1>1. CASE k \in DOMAIN rs[u]
  <2>1. Routings(rs, k, D \cup {u}) = Routings(rs, k, D) \cup {u}
    BY <1>1 DEF Routings
  <2>2. Routings(rs, k, D) \in SUBSET Instants /\ \A i \in Routings(rs, k, D) : i < u
    BY DEF Routings
  <2>3. Newest(Routings(rs, k, D \cup {u})) = u
    BY <2>1, <2>2, NewestAdded
  <2>4. Routings(rs, k, D \cup {u}) # {}
    BY <2>1
  <2> QED BY <1>1, <2>3, <2>4 DEF Place
<1>2. CASE k \notin DOMAIN rs[u]
  <2>1. Routings(rs, k, D \cup {u}) = Routings(rs, k, D)
    BY <1>2 DEF Routings
  <2> QED BY <1>2, <2>1 DEF Place
<1> QED BY <1>1, <1>2

LEMMA KeyRowAfterWrite ==
    ASSUME NEW D \in SUBSET Instants, NEW u \in Instants, \A i \in D : i < u,
           NEW bs, bs[u] # None, NEW k
    PROVE  KeyRow(bs, k, D \cup {u}) =
              IF k \in DOMAIN bs[u] THEN IF bs[u][k] = "d" THEN None ELSE u
              ELSE KeyRow(bs, k, D)
<1>1. CASE k \in DOMAIN bs[u]
  <2>1. KeyWrites(bs, k, D \cup {u}) = KeyWrites(bs, k, D) \cup {u}
    BY <1>1 DEF KeyWrites
  <2>2. KeyWrites(bs, k, D) \in SUBSET Instants /\ \A i \in KeyWrites(bs, k, D) : i < u
    BY DEF KeyWrites
  <2>3. Newest(KeyWrites(bs, k, D \cup {u})) = u
    BY <2>1, <2>2, NewestAdded
  <2>4. KeyWrites(bs, k, D \cup {u}) # {}
    BY <2>1
  <2> QED BY <1>1, <2>3, <2>4 DEF KeyRow
<1>2. CASE k \notin DOMAIN bs[u]
  <2>1. KeyWrites(bs, k, D \cup {u}) = KeyWrites(bs, k, D)
    BY <1>2 DEF KeyWrites
  <2> QED BY <1>2, <2>1 DEF KeyRow
<1> QED BY <1>1, <1>2

\* An instant without a write changes no row.
LEMMA SameAfterCompaction ==
    ASSUME NEW D, NEW c, NEW rs, NEW bs, NEW k, NEW t,
           rs[c] = None, bs[c] = None
    PROVE  /\ Place(rs, k, UpTo(D \cup {c}, t)) = Place(rs, k, UpTo(D, t))
           /\ KeyRow(bs, k, UpTo(D \cup {c}, t)) = KeyRow(bs, k, UpTo(D, t))
           /\ \A g : Row(rs, g, k, UpTo(D \cup {c}, t)) = Row(rs, g, k, UpTo(D, t))
           /\ Place(rs, k, D \cup {c}) = Place(rs, k, D)
<1>1. /\ Routings(rs, k, UpTo(D \cup {c}, t)) = Routings(rs, k, UpTo(D, t))
      /\ Routings(rs, k, D \cup {c}) = Routings(rs, k, D)
  BY DEF Routings, UpTo
<1>2. KeyWrites(bs, k, UpTo(D \cup {c}, t)) = KeyWrites(bs, k, UpTo(D, t))
  BY DEF KeyWrites, UpTo
<1>3. ASSUME NEW g PROVE Row(rs, g, k, UpTo(D \cup {c}, t)) = Row(rs, g, k, UpTo(D, t))
  <2>1. Writes(rs, g, k, UpTo(D \cup {c}, t)) = Writes(rs, g, k, UpTo(D, t))
    BY DEF Writes, UpTo
  <2> QED BY <2>1 DEF Row
<1> QED BY <1>1, <1>2, <1>3 DEF Place, KeyRow

LEMMA AgreeAfterCompaction ==
    ASSUME NEW D, NEW c, NEW rs, NEW bs, rs[c] = None, bs[c] = None, Agree(rs, bs, D)
    PROVE  Agree(rs, bs, D \cup {c})
<1>1. ASSUME NEW t \in Int, NEW k \in Keys
      PROVE  /\ Place(rs, k, UpTo(D \cup {c}, t)) = None <=> KeyRow(bs, k, UpTo(D \cup {c}, t)) = None
             /\ \A g \in Groups :
                  Row(rs, g, k, UpTo(D \cup {c}, t)) =
                     IF Place(rs, k, UpTo(D \cup {c}, t)) = g THEN KeyRow(bs, k, UpTo(D \cup {c}, t)) ELSE None
  <2>1. /\ Place(rs, k, UpTo(D, t)) = None <=> KeyRow(bs, k, UpTo(D, t)) = None
        /\ \A g \in Groups :
              Row(rs, g, k, UpTo(D, t)) =
                 IF Place(rs, k, UpTo(D, t)) = g THEN KeyRow(bs, k, UpTo(D, t)) ELSE None
    BY DEF Agree
  <2>2. Place(rs, k, UpTo(D \cup {c}, t)) = Place(rs, k, UpTo(D, t))
        /\ KeyRow(bs, k, UpTo(D \cup {c}, t)) = KeyRow(bs, k, UpTo(D, t))
    BY SameAfterCompaction
  <2>3. \A g : Row(rs, g, k, UpTo(D \cup {c}, t)) = Row(rs, g, k, UpTo(D, t))
    BY SameAfterCompaction
  <2> QED BY <2>1, <2>2, <2>3
<1> QED BY <1>1 DEF Agree

\* A write that goes where its keys are keeps every key in one file group at most.
LEMMA AgreeAfterCommit ==
    ASSUME NEW D \in SUBSET Instants, NEW u \in Instants, \A i \in D : i < u,
           NEW rs, NEW bs, Agree(rs, bs, D), rs[u] # None, bs[u] # None,
           \A k \in DOMAIN rs[u] : rs[u][k].group \in Groups,
           \A k \in Keys : KeyRouted(rs[u], bs[u], k, Place(rs, k, D)),
           \A k \in DOMAIN bs[u] : bs[u][k] \in {"u", "d"}
    PROVE  Agree(rs, bs, D \cup {u})
<1> DEFINE E == D \cup {u}
<1>0. u \in Int /\ \A i \in D : i \in Int
  BY HudiAssumption DEF Instants
<1>1. SUFFICES ASSUME NEW t \in Int, NEW k \in Keys
               PROVE  /\ Place(rs, k, UpTo(E, t)) = None <=> KeyRow(bs, k, UpTo(E, t)) = None
                      /\ \A g \in Groups :
                           Row(rs, g, k, UpTo(E, t)) =
                              IF Place(rs, k, UpTo(E, t)) = g THEN KeyRow(bs, k, UpTo(E, t)) ELSE None
  BY DEF Agree
<1>2. CASE t < u
  <2>1. UpTo(E, t) = UpTo(D, t)
    BY <1>0, <1>2 DEF UpTo
  <2> QED BY <2>1 DEF Agree
<1>3. CASE ~(t < u)
  <2>0. u <= t /\ \A i \in D : i <= t
    BY <1>0, <1>3
  <2>1. UpTo(E, t) = E /\ UpTo(D, t) = D
    BY <2>0 DEF UpTo
  <2>2. /\ Place(rs, k, D) = None <=> KeyRow(bs, k, D) = None
        /\ \A g \in Groups : Row(rs, g, k, D) = IF Place(rs, k, D) = g THEN KeyRow(bs, k, D) ELSE None
    BY <2>1 DEF Agree
  <2>3. \A x \in Keys : Place(rs, x, E) =
              IF x \in DOMAIN rs[u] THEN IF rs[u][x].op = "d" THEN None ELSE rs[u][x].group
              ELSE Place(rs, x, D)
    BY PlaceAfterWrite, Z3
  <2>4. \A x \in Keys : KeyRow(bs, x, E) =
              IF x \in DOMAIN bs[u] THEN IF bs[u][x] = "d" THEN None ELSE u
              ELSE KeyRow(bs, x, D)
    BY KeyRowAfterWrite, Z3
  <2>5. \A g \in Groups : Row(rs, g, k, E) =
              IF k \in KeysAt(rs, u, g) THEN IF rs[u][k].op = "d" THEN None ELSE u
              ELSE Row(rs, g, k, D)
    BY RowAfterWrite
  <2>6. KeyRouted(rs[u], bs[u], k, Place(rs, k, D))
    OBVIOUS
  <2>7. u # None /\ None \notin Groups
    BY NoneAssumption
  <2> HIDE DEF E
  <2>8. CASE k \in DOMAIN rs[u]
    <3>1. k \in DOMAIN bs[u] /\ rs[u][k].op = bs[u][k]
          /\ (Place(rs, k, D) # None => rs[u][k].group = Place(rs, k, D))
          /\ rs[u][k].group \in Groups
      BY <2>6, <2>8 DEF KeyRouted
    <3>2. Place(rs, k, E) = None <=> KeyRow(bs, k, E) = None
      BY <2>3, <2>4, <2>7, <2>8, <3>1
    <3>3. ASSUME NEW g \in Groups
          PROVE  Row(rs, g, k, E) = IF Place(rs, k, E) = g THEN KeyRow(bs, k, E) ELSE None
      <4>1. CASE rs[u][k].group = g
        <5>1. k \in KeysAt(rs, u, g)
          BY <2>8, <4>1 DEF KeysAt
        <5> QED BY <2>3, <2>4, <2>5, <2>7, <2>8, <3>1, <4>1, <5>1
      <4>2. CASE rs[u][k].group # g
        <5>1. k \notin KeysAt(rs, u, g)
          BY <2>8, <4>2 DEF KeysAt
        <5>2. Row(rs, g, k, E) = None
          BY <2>2, <2>5, <2>7, <3>1, <4>2, <5>1
        <5> QED BY <2>3, <2>7, <2>8, <4>2, <5>2
      <4> QED BY <4>1, <4>2
    <3> QED BY <2>1, <3>2, <3>3
  <2>9. CASE k \notin DOMAIN rs[u]
    <3>1. \A g \in Groups : Row(rs, g, k, E) = Row(rs, g, k, D)
      BY <2>5, <2>9 DEF KeysAt
    <3>2. Place(rs, k, E) = Place(rs, k, D)
      BY <2>3, <2>9
    <3>3. KeyRow(bs, k, E) = KeyRow(bs, k, D)
      <4>1. CASE k \notin DOMAIN bs[u]
        BY <2>4, <4>1
      <4>2. CASE k \in DOMAIN bs[u]
        <5>1. bs[u][k] = "d" /\ Place(rs, k, D) = None
          BY <2>6, <2>9, <4>2 DEF KeyRouted
        <5> QED BY <2>2, <2>4, <4>2, <5>1
      <4> QED BY <4>1, <4>2
    <3> QED BY <2>1, <2>2, <3>1, <3>2, <3>3
  <2> QED BY <2>8, <2>9
<1> QED BY <1>2, <1>3

-----------------------------------------------------------------------------
(* What the invariant says of the state.                                     *)

LEMMA ClockFacts ==
    ASSUME ClockOK
    PROVE  /\ done \in SUBSET Instants /\ 1 .. last \subseteq Instants
           /\ last \in Int /\ archived \in Int /\ cleaned \in Int
           /\ \A i \in done : i \in Int /\ 1 <= i /\ i <= last
           /\ UpTo(done, last) = done
<1>1. last \in Int /\ archived \in Int /\ cleaned \in Int /\ last <= MaxInstants /\ MaxInstants \in Int
  BY HudiAssumption DEF ClockOK
<1>2. \A i \in done : i \in Int /\ 1 <= i /\ i <= last
  BY <1>1 DEF ClockOK
<1>3. 1 .. last \subseteq Instants
  BY <1>1 DEF Instants
<1>4. UpTo(done, last) = done
  BY <1>2 DEF UpTo
<1> QED BY <1>1, <1>2, <1>3, <1>4 DEF ClockOK

LEMMA ListingFacts ==
    ASSUME TableInv
    PROVE  /\ Listing = files \cup Planned /\ Listing = Kept \cup Planned
           /\ Kept \subseteq files /\ Kept \subseteq Listing
           /\ Shaped(Listing)
           /\ \A f \in Listing : /\ f \in Files /\ f.at \in Instants /\ f.slice \in Instants
                                 /\ f.at \in Int /\ f.slice \in Int /\ f.group \in Groups
                                 /\ f.kind \in {"base", "log"}
                                 /\ f.kind = "base" => f.slice = f.at
                                 /\ f.kind = "log" => f.slice < f.at
           /\ History(Listing, done, routes, cleaned)
<1>1. Listing = files \cup Planned /\ Listing = Kept \cup Planned /\ Kept \subseteq files
  BY DEF Listing, Planned, Kept
<1>2. Shaped(Listing)
  BY DEF TableInv, TableData
<1>3. History(Listing, done, routes, cleaned)
  BY DataHistory DEF TableInv
<1> QED BY <1>1, <1>2, <1>3, FileFields DEF Shaped

\* A file in the listing is believed when its instant is completed.
LEMMA VisibleFiles ==
    ASSUME TableInv
    PROVE  \A f \in Listing : f.at \in Visible <=> f.at \in done
<1>1. ASSUME NEW f \in Listing, f.at \in done PROVE f.at \in Visible
  BY <1>1 DEF TableInv, ClockOK, Visible
<1>2. ASSUME NEW f \in Listing, f.at \in Visible PROVE f.at \in done
  <2>1. f.at \in done \/ f.at <= archived
    BY <1>2 DEF Visible
  <2>2. f.at \in Int /\ archived \in Int /\ last \in Int
    BY ListingFacts, ClockFacts DEF TableInv
  <2>3. CASE upsert # None /\ f.at = upsert.at
    BY <2>1, <2>2, <2>3 DEF TableInv, UpsertOK
  <2>4. CASE compaction # None /\ f.at = compaction.at
    BY <2>1, <2>2, <2>4 DEF TableInv, CompactionOK
  <2> QED BY <2>3, <2>4 DEF TableInv, TableData, FilesAt
<1> QED BY <1>1, <1>2

\* What a writer, a reader or a compaction that starts now finds on storage.
LEMMA Snapshot ==
    ASSUME TableInv, NEW g \in Groups
    PROVE  /\ SliceFiles(g, files, Visible) = SliceFiles(g, Listing, done)
           /\ SliceFiles(g, files, done) = SliceFiles(g, Listing, done)
           /\ BasesOf(g, files, Visible) = {} <=> BasesOf(g, Listing, done) = {}
           /\ BasesOf(g, files, Visible) = BasesOf(g, files, done)
           /\ Merged(g, SliceFiles(g, Listing, done)) = RowsOf(routes, g, done)
<1>1. \A f \in files : f.at \in Visible <=> f.at \in done
  BY VisibleFiles, ListingFacts
<1>2. SliceFiles(g, files, Visible) = SliceFiles(g, files, done)
      /\ BasesOf(g, files, Visible) = BasesOf(g, files, done)
  BY <1>1, SameSlice
<1>3. \A f \in Planned : \E x \in files : /\ x.group = f.group /\ x.kind = "base" /\ x.at \in done
                                          /\ f.slice < x.at
  BY ListingFacts DEF TableInv, CleaningOK, PlanOK, Planned
<1>4. Shaped(files \cup Planned) /\ Listing = files \cup Planned
  BY ListingFacts
<1>5. /\ SliceFiles(g, files, done) = SliceFiles(g, Listing, done)
      /\ BasesOf(g, files, done) = {} <=> BasesOf(g, Listing, done) = {}
  <2>1. /\ SliceFiles(g, files, done) = SliceFiles(g, files \cup Planned, done)
        /\ BasesOf(g, files, done) = {} <=> BasesOf(g, files \cup Planned, done) = {}
    BY <1>3, <1>4, SliceOfKept
  <2> QED BY <1>4, <2>1
<1>6. History(Listing, done, routes, cleaned)
  BY ListingFacts
<1>7. last \in Int /\ cleaned \in Int /\ cleaned <= last /\ done \in SUBSET Instants /\ UpTo(done, last) = done
  BY ClockFacts DEF TableInv, ClockOK
<1>8. Merged(g, SliceFiles(g, Listing, done)) = RowsOf(routes, g, done)
  BY <1>6, <1>7, ReadsAll
<1> QED BY <1>2, <1>5, <1>7, <1>8

\* A new file leaves a pending compaction alone when it is in its slice.
LEMMA PendingOfFile ==
    ASSUME NEW L, NEW K, NEW D, NEW rs, NEW cp, PendingOK(L, K, D, rs, cp),
           NEW f, cp # None /\ f.group \in GroupsOf(cp) => f.slice = cp.at,
           NEW cp2, cp2 # None => cp # None,
           cp # None => /\ cp2.at = cp.at /\ cp2.source = cp.source /\ cp2.state = cp.state
                        /\ cp2.todo \subseteq cp.todo
                        /\ \A g \in cp.todo \ cp2.todo : f.group = g /\ f.kind = "base" /\ f.at = cp.at
    PROVE  PendingOK(L \cup {f}, K \cup {f}, D, rs, cp2)
<1>1. SUFFICES ASSUME cp2 # None PROVE PendingOK(L \cup {f}, K \cup {f}, D, rs, cp2)
  BY DEF PendingOK
<1>2. cp # None /\ GroupsOf(cp2) = GroupsOf(cp)
  BY <1>1 DEF GroupsOf
<1>3. ASSUME NEW g \in GroupsOf(cp)
      PROVE  SourceOK(L \cup {f}, K \cup {f}, D, cp2, g) /\ CompactionContent(cp2, rs, D, g)
  <2>1. PICK x \in K : /\ x.group = g /\ x.kind = "base" /\ x.at \in D /\ x.at < cp.at
                       /\ \A w \in cp.source : w.group = g => w.slice = x.at
                       /\ \A h \in L : h.group = g =>
                             \/ h.slice <= x.at /\ h.at < cp.at
                             \/ h.slice = cp.at
    BY <1>2, <1>3 DEF PendingOK, SourceOK
  <2>2. SourceOK(L \cup {f}, K \cup {f}, D, cp2, g)
    BY <1>2, <1>3, <2>1 DEF SourceOK
  <2>3. CompactionContent(cp2, rs, D, g)
    BY <1>2, <1>3 DEF PendingOK, CompactionContent
  <2> QED BY <2>2, <2>3
<1>4. ASSUME cp2.state = "running", NEW g \in GroupsOf(cp) \ cp2.todo
      PROVE  \E x \in K \cup {f} : x.group = g /\ x.kind = "base" /\ x.at = cp2.at
  BY <1>2, <1>4 DEF PendingOK
<1>5. \A g, i : Based(L, D, g, i) => Based(L \cup {f}, D, g, i)
  BY DEF Based
<1> QED BY <1>1, <1>2, <1>3, <1>4, <1>5 DEF PendingOK

\* What the write that is under way may rely on.
LEMMA UpsertFacts ==
    ASSUME TableInv, upsert # None
    PROVE  /\ upsert \in Upserts /\ upsert.at = last /\ last \in Instants /\ last \notin done
           /\ \A i \in done : i < last
           /\ batches[last] # None /\ batches[last] \in Batches
           /\ routes[last] # None /\ routes[last] \in Routes
           /\ \A f \in Listing : f.at <= last /\ f.slice <= last
           /\ \A f \in Planned : f.at \in done
           /\ compaction # None => compaction.at < last
<1> USE DEF TableInv
<1>1. upsert \in Upserts /\ upsert.at = last /\ last \notin done /\ batches[last] # None
      /\ (compaction # None => compaction.at < last)
  BY DEF UpsertOK
<1>2. last \in Instants
  BY <1>1 DEF Upserts
<1>3. \A i \in done : i < last
  BY <1>1, ClockFacts
<1>4. batches[last] \in Batches
  BY <1>1, <1>2 DEF ClockOK
<1>8. routes[last] # None /\ routes[last] \in Routes
  BY <1>1, <1>2 DEF ClockOK, RouteTyped
<1>5. \A f \in Planned : f.at \in done
  BY DEF CleaningOK, PlanOK, Planned
<1>6. ASSUME NEW f \in Listing PROVE f.at <= last
  <2>1. last \in Int /\ f.at \in Int
    BY <1>6, ClockFacts, ListingFacts
  <2> QED BY <1>1, <1>3, <1>6, <2>1 DEF TableData, FilesAt
<1>7. \A f \in Listing : f.slice <= last
  BY <1>6, ClockFacts, ListingFacts
<1> QED BY <1>1, <1>2, <1>3, <1>4, <1>5, <1>6, <1>7, <1>8

LEMMA CompactionFacts ==
    ASSUME TableInv, compaction # None
    PROVE  /\ compaction \in Compactions /\ compaction.at \in Instants /\ compaction.at \notin done
           /\ compaction.at \in Int /\ 1 <= compaction.at /\ compaction.at <= last
           /\ routes[compaction.at] = None /\ config.type = "MERGE_ON_READ"
           /\ \A f \in Planned : f.at # compaction.at
<1> USE DEF TableInv
<1>1. /\ compaction \in Compactions /\ compaction.at \in 1 .. last /\ compaction.at \notin done
      /\ routes[compaction.at] = None /\ config.type = "MERGE_ON_READ"
  BY DEF CompactionOK
<1>2. compaction.at \in Instants /\ compaction.at \in Int
  BY <1>1, HudiAssumption DEF Compactions, Instants
<1>3. \A f \in Planned : f.at \in done
  BY DEF CleaningOK, PlanOK, Planned
<1> QED BY <1>1, <1>2, <1>3, ClockFacts

LEMMA SameWindow ==
    ASSUME UNCHANGED config, UNCHANGED done
    PROVE  EarliestRetained(done)' = EarliestRetained(done)
BY DEF EarliestRetained

\* What the record index says of a write.
LEMMA RouteFacts ==
    ASSUME ClockOK, NEW i \in Instants, routes[i] # None, NEW g
    PROVE  /\ routes[i] \in Routes
           /\ \A k \in DOMAIN routes[i] : /\ k \in Keys /\ routes[i][k].group \in Groups
                                        /\ routes[i][k].op \in {"u", "d"}
                                        /\ routes[i][k].group.part = PartitionOf[k]
                                        /\ routes[i][k].group.from <= i
           /\ KeysAt(routes, i, g) \subseteq KeysOf(g.part)
<1>1. routes[i] \in Routes /\ RouteTyped(routes[i], batches[i], i)
  BY DEF ClockOK
<1>2. PICK ks \in SUBSET Keys : routes[i] \in [ks -> [op : {"u", "d"}, group : Groups]]
  BY <1>1 DEF Routes
<1>3. \A k \in DOMAIN routes[i] : /\ k \in Keys /\ routes[i][k].group \in Groups
                                  /\ routes[i][k].op \in {"u", "d"}
  BY <1>2
<1>4. \A k \in DOMAIN routes[i] : routes[i][k].group.part = PartitionOf[k] /\ routes[i][k].group.from <= i
  BY <1>1 DEF RouteTyped
<1> QED BY <1>1, <1>3, <1>4 DEF KeysAt, KeysOf

\* The new file has the shape and the rows it should have, and its slice is not one
\* that older files are in, except that of the newest base file.
LEMMA NewFileOK ==
    ASSUME TableInv, upsert # None, NEW g \in upsert.todo
    PROVE  /\ NewFile(g).group = g /\ NewFile(g).at = last
           /\ Shaped({NewFile(g)})
           /\ Content({NewFile(g)}, done, routes)
           /\ NewFile(g).kind = IF g \in upsert.bases THEN "base" ELSE "log"
           /\ NewFile(g).kind = "base" =>
                 (compaction # None => g \notin GroupsOf(compaction))
           /\ NewFile(g).kind = "log" =>
                 /\ compaction # None /\ g \in GroupsOf(compaction) => NewFile(g).slice = compaction.at
                 /\ ~(compaction # None /\ g \in GroupsOf(compaction)) =>
                       \E x \in Listing : x.group = g /\ x.kind = "base" /\ x.at \in done /\ x.at = NewFile(g).slice
                 /\ \A x \in Listing : x.group = g /\ x.kind = "base" /\ x.at \in done => x.at <= NewFile(g).slice
<1> DEFINE f == NewFile(g)
           r == routes[last]
<1>0. g \in Groups
  BY UpsertFacts DEF Upserts
<1>1. /\ upsert.at = last /\ last \in Instants /\ (\A i \in done : i < last) /\ done \in SUBSET Instants
      /\ r # None /\ r \in Routes
  BY UpsertFacts, ClockFacts DEF TableInv
<1>2. DOMAIN Changed(g) = KeysAt(routes, last, g)
      /\ \A k \in DOMAIN Changed(g) : Changed(g)[k] = IF r[k].op = "d" THEN None ELSE last
  BY <1>1 DEF Changed, KeysAt
<1>3. KeysAt(routes, last, g) \subseteq KeysOf(g.part) /\ KeysOf(g.part) \subseteq Keys
  BY <1>1, RouteFacts DEF KeysOf, TableInv
<1>4. g.from <= last
  <2>1. g \in RoutedTo(routes[last])
    BY DEF TableInv, UpsertOK
  <2>2. PICK k \in DOMAIN routes[last] : routes[last][k].group = g
    BY <2>1 DEF RoutedTo
  <2> QED BY <1>1, <2>2, RouteFacts DEF TableInv
<1>5. CASE g \in upsert.bases
  <2> DEFINE old == Merged(g, SliceFiles(g, files, Visible))
             rows == [k \in KeysOf(g.part) |-> IF k \in DOMAIN Changed(g) THEN Changed(g)[k] ELSE old[k]]
  <2>1. f = [group |-> g, kind |-> "base", slice |-> last, at |-> last, rows |-> rows]
    BY <1>1, <1>5 DEF NewFile
  <2>2. \A k \in KeysOf(g.part) : old[k] = Row(routes, g, k, done)
    BY <1>0, Snapshot DEF RowsOf
  <2>3. ASSUME NEW k \in KeysOf(g.part) PROVE rows[k] = Row(routes, g, k, done \cup {last})
    <3>1. Row(routes, g, k, done \cup {last}) =
             IF k \in KeysAt(routes, last, g) THEN IF r[k].op = "d" THEN None ELSE last
             ELSE Row(routes, g, k, done)
      <4>1. done \in SUBSET Instants /\ last \in Instants /\ (\A i \in done : i < last) /\ routes[last] # None
        BY <1>1
      <4> QED BY <4>1, RowAfterWrite
    <3> HIDE DEF old, r
    <3>2. rows[k] = IF k \in DOMAIN Changed(g) THEN Changed(g)[k] ELSE old[k]
      OBVIOUS
    <3> HIDE DEF rows
    <3> QED BY <1>2, <2>2, <3>1, <3>2
  <2>4. done \cup {last} \in SUBSET Instants
    BY <1>1
  <2>5. \A k \in KeysOf(g.part) : rows[k] \in Instants \cup {None}
    BY <2>3, <2>4, RowType
  <2> HIDE DEF rows
  <2>6. rows \in Rows
    <3>1. rows \in [KeysOf(g.part) -> Instants \cup {None}]
      BY <2>5 DEF rows
    <3> QED BY <1>3, <3>1 DEF Rows
  <2>7. f \in Files
    BY <1>0, <1>1, <2>1, <2>6 DEF Files
  <2>8. UpTo(done \cup {last}, last) = done \cup {last}
    BY <1>1, ClockFacts DEF UpTo, TableInv
  <2>9. DOMAIN rows = KeysOf(g.part)
    BY DEF rows
  <2>10. Content({f}, done, routes)
    BY <2>1, <2>3, <2>8, <2>9 DEF Content, BaseContent
  <2>11. compaction # None => g \notin GroupsOf(compaction)
    BY <1>5 DEF TableInv, UpsertOK
  <2>12. f.group = g /\ f.kind = "base" /\ f.slice = last /\ f.at = last
    BY <2>1
  <2> HIDE DEF f
  <2>13. Shaped({f})
    BY <1>4, <2>7, <2>12 DEF Shaped
  <2> QED BY <1>5, <2>10, <2>11, <2>12, <2>13 DEF f
<1>6. CASE g \notin upsert.bases
  <2> DEFINE bases == {w.at : w \in BasesOf(g, files, Visible)}
             planned == InCompaction(g)
             starts == bases \cup (IF planned THEN {compaction.at} ELSE {})
  <2>0. BasesOf(g, files, Visible) # {}
    <3>1. Based(Listing, done, g, 0)
      BY <1>6 DEF TableInv, UpsertOK
    <3>2. BasesOf(g, Listing, done) # {}
      BY <3>1 DEF Based, BasesOf
    <3> QED BY <1>0, <3>2, Snapshot
  <2>1. f = [group |-> g, kind |-> "log", slice |-> LogSlice(g), at |-> last, rows |-> Changed(g)]
        /\ LogSlice(g) = Newest(starts)
    BY <1>1, <1>6 DEF NewFile, LogSlice
  <2>2. planned <=> compaction # None /\ g \in GroupsOf(compaction)
    BY DEF GroupsOf, InCompaction
  <2>3. \A w \in BasesOf(g, files, Visible) : w \in Listing /\ w.group = g /\ w.kind = "base" /\ w.at \in done
    BY VisibleFiles, ListingFacts DEF BasesOf
  <2>4. starts # {} /\ starts \in SUBSET Instants
    <3>1. bases # {} /\ bases \in SUBSET Instants
      BY <2>0, <2>3, ListingFacts
    <3>2. planned => compaction.at \in Instants
      BY CompactionFacts DEF InCompaction
    <3> QED BY <3>1, <3>2
  <2>5. Newest(starts) \in starts /\ \A j \in starts : j <= Newest(starts)
    BY <2>4, NewestOf
  <2>6. \A w \in BasesOf(g, files, Visible) : w.at < last
    BY <1>1, <2>3
  <2>7. LogSlice(g) \in Instants /\ LogSlice(g) < last
    <3>1. planned => compaction.at < last
      BY UpsertFacts DEF InCompaction
    <3> QED BY <2>1, <2>4, <2>5, <2>6, <3>1
  <2>8. Changed(g) \in Rows
    <3>1. Changed(g) \in [KeysAt(routes, last, g) -> Instants \cup {None}]
      BY <1>1 DEF Changed, KeysAt
    <3> QED BY <1>3, <3>1 DEF Rows
  <2>9. f \in Files
    BY <1>0, <1>1, <2>1, <2>7, <2>8 DEF Files
  <2>10. Content({f}, done, routes)
    BY <1>1, <1>2, <2>1 DEF Content, LogContent
  <2>11. ASSUME planned PROVE LogSlice(g) = compaction.at
    <3>0. compaction # None
      BY <2>11 DEF InCompaction
    <3>1. PICK x \in Kept : /\ x.group = g /\ x.kind = "base" /\ x.at \in done /\ x.at < compaction.at
                            /\ \A h \in Listing : h.group = g =>
                                  \/ h.slice <= x.at /\ h.at < compaction.at
                                  \/ h.slice = compaction.at
      BY <2>2, <2>11 DEF TableInv, TableData, PendingOK, SourceOK
    <3>2. ASSUME NEW w \in BasesOf(g, files, Visible) PROVE w.at <= compaction.at
      BY <2>3, <3>0, <3>1, <3>2, ListingFacts, CompactionFacts
    <3>3. compaction.at \in starts /\ \A j \in starts : j <= compaction.at
      BY <2>11, <3>0, <3>2, CompactionFacts
    <3>4. Newest(starts) \in Int /\ compaction.at \in Int
      BY <2>4, <2>5, <3>0, CompactionFacts, HudiAssumption DEF Instants
    <3>5. Newest(starts) <= compaction.at /\ compaction.at <= Newest(starts)
      BY <2>5, <3>3
    <3> HIDE DEF starts
    <3> QED BY <2>1, <3>4, <3>5
  <2>12. ASSUME ~planned
         PROVE  \E x \in Listing : x.group = g /\ x.kind = "base" /\ x.at \in done /\ x.at = LogSlice(g)
    BY <2>1, <2>3, <2>5, <2>12
  <2>13. ASSUME NEW x \in Listing, x.group = g, x.kind = "base", x.at \in done PROVE x.at <= LogSlice(g)
    <3>1. \E y \in BasesOf(g, files, Visible) : x.at <= y.at
      <4>1. CASE x \in files
        BY <2>13, <4>1, VisibleFiles, ListingFacts DEF BasesOf
      <4>2. CASE x \in Planned
        <5>1. PICK y \in Kept : y.group = g /\ y.kind = "base" /\ y.at \in done /\ x.slice < y.at
          BY <2>13, <4>2 DEF TableInv, CleaningOK, PlanOK, Planned
        <5>2. y \in BasesOf(g, files, Visible) /\ x.at <= y.at
          BY <2>13, <5>1, VisibleFiles, ListingFacts DEF BasesOf
        <5> QED BY <5>2
      <4> QED BY <2>13, <4>1, <4>2, ListingFacts
    <3>2. PICK y \in BasesOf(g, files, Visible) : x.at <= y.at
      BY <3>1
    <3>3. y.at <= LogSlice(g)
      BY <2>1, <2>5
    <3> QED BY <2>3, <2>7, <2>13, <3>2, <3>3, ListingFacts, HudiAssumption DEF Instants
  <2>14. f.group = g /\ f.kind = "log" /\ f.slice = LogSlice(g) /\ f.at = last
    BY <2>1
  <2> HIDE DEF f, planned
  <2>15. Shaped({f})
    BY <1>4, <2>7, <2>9, <2>14 DEF Shaped
  <2>16. compaction # None /\ g \in GroupsOf(compaction) => f.slice = compaction.at
    BY <2>2, <2>11, <2>14
  <2>17. ~(compaction # None /\ g \in GroupsOf(compaction)) =>
            \E x \in Listing : x.group = g /\ x.kind = "base" /\ x.at \in done /\ x.at = f.slice
    BY <2>2, <2>12, <2>14
  <2> QED BY <1>6, <2>10, <2>13, <2>14, <2>15, <2>16, <2>17 DEF f
<1> QED BY <1>5, <1>6

-----------------------------------------------------------------------------
(* The steps keep the invariant of the table.                                *)

\* A step that changes neither the clocks nor what was written nor the options.
ClockSame == UNCHANGED <<config, last, done, archived, cleaned, crashes, batches, routes>>

LEMMA ClockSteps ==
    ASSUME ClockOK, ClockSame PROVE ClockOK'
BY DEF ClockOK, ClockSame

LEMMA WriteStep ==
    ASSUME TableInv, NEW g \in Groups, WriteFile(g) PROVE TableInv'
<1> USE DEF TableInv
<1> DEFINE f == NewFile(g)
<1>1. upsert # None /\ g \in upsert.todo /\ files' = files \cup {f}
      /\ upsert' = [upsert EXCEPT !.todo = @ \ {g}]
      /\ UNCHANGED <<config, last, done, archived, compaction, cleaning, cleaned, query, crashes, batches, routes>>
  BY DEF WriteFile
<1>2. /\ upsert \in Upserts /\ upsert.at = last /\ last \in Instants /\ last \notin done
      /\ \A i \in done : i < last
      /\ \A h \in Listing : h.at <= last /\ h.slice <= last
      /\ \A h \in Planned : h.at \in done
      /\ compaction # None => compaction.at < last
  BY <1>1, UpsertFacts
<1>3. /\ upsert' \in Upserts /\ upsert'.at = last /\ upsert'.todo = upsert.todo \ {g}
      /\ upsert' # None /\ upsert'.bases = upsert.bases
  BY <1>1, <1>2, NoneAssumption DEF Upserts
<1>4. /\ f.group = g /\ f.at = last
      /\ Shaped({f})
      /\ Content({f}, done, routes)
      /\ f.kind = IF g \in upsert.bases THEN "base" ELSE "log"
      /\ f.kind = "base" => (compaction # None => g \notin GroupsOf(compaction))
      /\ f.kind = "log" =>
           /\ compaction # None /\ g \in GroupsOf(compaction) => f.slice = compaction.at
           /\ ~(compaction # None /\ g \in GroupsOf(compaction)) =>
                 \E x \in Listing : x.group = g /\ x.kind = "base" /\ x.at \in done /\ x.at = f.slice
           /\ \A x \in Listing : x.group = g /\ x.kind = "base" /\ x.at \in done => x.at <= f.slice
  BY <1>1, NewFileOK
<1> HIDE DEF f
<1>5. f.kind \in {"base", "log"} /\ (f.kind = "base" => f.slice = last)
      /\ f.slice \in Int /\ last \in Int /\ f.slice <= last
  BY <1>4, FileFields DEF Shaped
<1>6. Listing' = Listing \cup {f} /\ Planned' = Planned /\ Kept' = Kept \cup {f}
  BY <1>1, <1>2, <1>4, ListingFacts DEF Listing, Planned, Kept
<1>7. FilesAt(Listing \cup {f}, done, upsert', compaction)
  <2>1. \A h \in Listing : h.group = g => h.at # last
    BY <1>1, <1>2, CompactionFacts DEF TableData, FilesAt
  <2> QED BY <1>1, <1>2, <1>3, <1>4, <2>1 DEF TableData, FilesAt
<1>8. SliceHasBase(Listing \cup {f}, done, compaction)
  BY <1>4 DEF TableData, SliceHasBase
<1>9. PendingOK(Listing \cup {f}, Kept \cup {f}, done, routes, compaction)
  <2>1. PendingOK(Listing, Kept, done, routes, compaction)
    BY DEF TableData
  <2>2. compaction # None /\ f.group \in GroupsOf(compaction) => f.slice = compaction.at
    BY <1>4, <1>5
  <2> QED BY <2>1, <2>2, PendingOfFile
<1>10. ASSUME NEW w \in Listing, w.group = g
       PROVE  /\ w.slice < f.slice => w.at < f.slice
              /\ f.slice < w.slice => last < w.slice
  <2>0. w.at \in Int /\ w.slice \in Int /\ w.at <= last /\ w.slice <= last /\ w.kind \in {"base", "log"}
    BY <1>2, <1>10, ListingFacts
  <2>1. w.at # last
    BY <1>1, <1>2, <1>10, CompactionFacts DEF TableData, FilesAt
  <2>2. CASE f.kind = "base"
    BY <1>5, <2>0, <2>1, <2>2
  <2>3. CASE f.kind = "log" /\ compaction # None /\ g \in GroupsOf(compaction)
    <3>1. PICK x \in Kept : /\ x.group = g /\ x.kind = "base" /\ x.at \in done /\ x.at < compaction.at
                            /\ \A h \in Listing : h.group = g =>
                                  \/ h.slice <= x.at /\ h.at < compaction.at
                                  \/ h.slice = compaction.at
      BY <2>3 DEF TableData, PendingOK, SourceOK
    <3>2. x.at \in Int /\ compaction.at \in Int /\ f.slice = compaction.at
      BY <1>4, <2>3, <3>1, ListingFacts, CompactionFacts
    <3> QED BY <1>10, <2>0, <3>1, <3>2
  <2>4. CASE f.kind = "log" /\ ~(compaction # None /\ g \in GroupsOf(compaction))
    <3>1. PICK x \in Listing : x.group = g /\ x.kind = "base" /\ x.at \in done /\ x.at = f.slice
      BY <1>4, <2>4
    <3>2. w.slice < f.slice => w.at < f.slice
      <4>1. x.slice = x.at
        BY <3>1, ListingFacts
      <4> QED BY <1>10, <3>1, <4>1 DEF TableData, Disjoint
    <3>3. w.slice <= f.slice
      <4>1. CASE w.kind = "base"
        <5>1. w.at \in done /\ w.slice = w.at
          BY <1>1, <1>2, <1>10, <2>1, <2>4, <4>1, ListingFacts DEF TableData, FilesAt
        <5> QED BY <1>4, <1>10, <2>4, <4>1, <5>1
      <4>2. CASE w.kind = "log"
        <5>1. PICK y \in Listing : y.group = g /\ y.kind = "base" /\ y.at \in done /\ y.at = w.slice
          BY <1>10, <2>4, <4>2 DEF TableData, SliceHasBase
        <5> QED BY <1>4, <2>4, <5>1
      <4> QED BY <2>0, <4>1, <4>2
    <3> QED BY <1>5, <2>0, <3>2, <3>3
  <2> QED BY <1>5, <2>2, <2>3, <2>4
<1>11. TableData(Listing', Kept', done', routes', cleaned', upsert', compaction')
  <2>1. TableData(Listing \cup {f}, Kept \cup {f}, done, routes, cleaned, upsert', compaction)
    <3>1. TableData(Listing, Kept, done, routes, cleaned, upsert, compaction)
      OBVIOUS
    <3>2. \A w \in Listing : w.group = f.group =>
             /\ w.slice < f.slice => w.at < f.slice
             /\ f.slice < w.slice => f.at < w.slice
      BY <1>4, <1>10
    <3>3. f.at \notin done
      BY <1>2, <1>4
    <3> QED BY <1>4, <1>7, <1>8, <1>9, <3>1, <3>2, <3>3, DataOfFile
  <2> QED BY <1>1, <1>6, <2>1
<1>12. UpsertOK'
  <2>1. ASSUME NEW q \in Groups, Touches(routes, last, q)
        PROVE  \/ q \in upsert'.todo
               \/ \E w \in Listing \cup {f} : w.group = q /\ w.at = last /\ (q \in upsert.bases => w.kind = "base")
    <3>1. CASE q = g
      BY <1>4, <3>1
    <3>2. CASE q # g
      BY <1>1, <1>3, <2>1, <3>2 DEF UpsertOK
    <3> QED BY <3>1, <3>2
  <2>2. /\ batches[last] # None
        /\ \A k \in Keys : KeyRouted(routes[last], batches[last], k, Place(routes, k, done))
        /\ upsert.todo \subseteq RoutedTo(routes[last])
        /\ \A q \in Groups : \A k \in Keys : Inserts(routes, q, k, last, done) => q \in upsert.bases
        /\ \A q \in upsert.todo \cap upsert.bases : compaction # None => q \notin GroupsOf(compaction)
        /\ archived < last
    BY <1>1 DEF UpsertOK
  <2>3. ASSUME NEW q \in upsert'.todo \ upsert.bases PROVE Based(Listing \cup {f}, done, q, 0)
    <3>1. Based(Listing, done, q, 0)
      BY <1>1, <1>3, <2>3 DEF UpsertOK
    <3> QED BY <3>1 DEF Based
  <2>4. upsert'.todo \subseteq upsert.todo
    BY <1>3
  <2>5. /\ upsert'.todo \subseteq RoutedTo(routes[last])
        /\ \A q \in upsert'.todo \cap upsert.bases : compaction # None => q \notin GroupsOf(compaction)
    BY <2>2, <2>4
  <2>6. UNCHANGED <<last, done, archived, routes, batches, compaction>>
    BY <1>1
  <2>7. /\ upsert'.at = last' /\ last' \notin done' /\ archived' < last'
        /\ batches'[last'] # None
        /\ \A k \in Keys : KeyRouted(routes'[last'], batches'[last'], k, Place(routes', k, done'))
        /\ compaction' # None => compaction'.at < last'
        /\ upsert'.todo \subseteq RoutedTo(routes'[last'])
    BY <1>2, <1>3, <2>2, <2>5, <2>6
  <2>8. \A q \in Groups : Touches(routes', last', q) =>
           \/ q \in upsert'.todo
           \/ \E w \in Listing' : w.group = q /\ w.at = last' /\ (q \in upsert'.bases => w.kind = "base")
    BY <1>3, <1>6, <2>1, <2>6
  <2>9. \A q \in Groups : \A k \in Keys : Inserts(routes', q, k, last', done') => q \in upsert'.bases
    BY <1>3, <2>2, <2>6
  <2>10. \A q \in upsert'.todo \cap upsert'.bases : compaction' # None => q \notin GroupsOf(compaction')
    BY <1>3, <2>5, <2>6
  <2>11. \A q \in upsert'.todo \ upsert'.bases : Based(Listing', done', q, 0)
    BY <1>3, <1>6, <2>3, <2>6
  <2> QED BY <1>3, <2>7, <2>8, <2>9, <2>10, <2>11 DEF UpsertOK
<1>13. CompactionOK'
  BY <1>1 DEF CompactionOK
<1>14. CleaningOK'
  <2>1. ASSUME cleaning # None, NEW h \in cleaning.plan PROVE f.group = h.group => f.slice # h.slice
    <3>1. h \in Planned
      BY <2>1 DEF Planned
    <3>2. PICK x \in Kept : x.group = h.group /\ x.kind = "base" /\ x.at \in done /\ h.slice < x.at
      BY <2>1 DEF CleaningOK, PlanOK
    <3>3. x.at < last /\ x \in Listing /\ h \in Listing
      BY <1>2, <3>1, <3>2, ListingFacts
    <3>4. x.at \in Int /\ h.slice \in Int
      BY <3>3, ListingFacts
    <3> QED BY <1>4, <1>5, <3>2, <3>3, <3>4
  <2>2. cleaning # None => PlanOK(cleaning.plan, Kept \cup {f}, done, compaction, cleaning.earliest)
    BY <2>1 DEF CleaningOK, PlanOK
  <2>3. EarliestRetained(done)' = EarliestRetained(done)
    BY <1>1, SameWindow
  <2> QED BY <1>1, <1>6, <2>2, <2>3 DEF CleaningOK
<1>15. ClockOK'
  BY <1>1, ClockSteps DEF ClockSame
<1> QED BY <1>11, <1>12, <1>13, <1>14, <1>15

\* A step that does not touch the writes on storage or what is under way.
LEMMA SameTable ==
    ASSUME TableInv, ClockSame, Listing' = Listing, Kept' = Kept,
           UNCHANGED <<upsert, compaction, cleaning>>
    PROVE  TableInv'
<1> USE DEF TableInv, ClockSame
<1>1. ClockOK'
  BY ClockSteps
<1>2. UpsertOK' /\ CompactionOK'
  BY DEF UpsertOK, CompactionOK
<1>3. EarliestRetained(done)' = EarliestRetained(done)
  BY SameWindow
<1>4. CleaningOK'
  BY <1>3 DEF CleaningOK
<1> QED BY <1>1, <1>2, <1>4

LEMMA CleanFileStep ==
    ASSUME TableInv, NEW f \in files, CleanFile(f) PROVE TableInv'
<1>1. Planned' = Planned /\ f \in Planned
  BY DEF CleanFile, CleanRuns, Planned
<1>2. Listing' = Listing /\ Kept' = Kept
  <2>1. files' = files \ {f}
    BY DEF CleanFile
  <2>2. Listing = files \cup Planned /\ Listing' = files' \cup Planned'
    BY DEF Listing, Planned
  <2> QED BY <1>1, <2>1, <2>2 DEF Kept
<1> QED BY <1>2, SameTable DEF CleanFile, ClockSame

LEMMA QueryStep ==
    ASSUME TableInv, UNCHANGED <<config, tableVars>> PROVE TableInv'
<1>1. Listing' = Listing /\ Kept' = Kept
  BY DEF tableVars, Listing, Kept, Planned
<1> QED BY <1>1, SameTable DEF tableVars, ClockSame

\* A write that died leaves nothing that counted.
LEMMA RollBackStep ==
    ASSUME TableInv, RollBack PROVE TableInv'
<1> USE DEF TableInv
<1>1. upsert # None /\ files' = {f \in files : f.at # upsert.at} /\ upsert' = None
      /\ UNCHANGED <<config, last, done, archived, compaction, cleaning, cleaned, query, crashes, batches, routes>>
  BY DEF RollBack
<1>2. upsert.at = last /\ last \notin done /\ (\A f \in Planned : f.at \in done)
      /\ (compaction # None => compaction.at < last)
  BY <1>1, UpsertFacts
<1> DEFINE L2 == {f \in Listing : f.at # last}
           K2 == {f \in Kept : f.at # last}
<1>3. Listing' = L2 /\ Kept' = K2 /\ Planned' = Planned
  <2>1. Listing' = files' \cup Planned' /\ Planned' = Planned
    BY <1>1 DEF Listing, Planned
  <2> QED BY <1>1, <1>2, <2>1, ListingFacts DEF Kept
<1>4. TableData(Listing, Kept, done, routes, cleaned, upsert, compaction)
  OBVIOUS
<1>5. L2 \in SUBSET Listing /\ \A f \in Listing : f.at \in done => f \in L2
  BY <1>2
<1>6. /\ Shaped(L2) /\ Content(L2, done, routes) /\ Complete(L2, done, routes, cleaned) /\ Disjoint(L2)
      /\ SliceHasBase(L2, done, compaction) /\ FilesAt(L2, done, upsert, compaction)
      /\ Compacted(L2, done, routes) /\ InsertsBased(L2, done, routes)
  BY <1>4, <1>5, DataOfRemoval
<1>7. FilesAt(L2, done, None, compaction)
  BY <1>2, <1>6 DEF FilesAt
<1>8. PendingOK(L2, K2, done, routes, compaction)
  <2>1. SUFFICES ASSUME compaction # None PROVE PendingOK(L2, K2, done, routes, compaction)
    BY DEF PendingOK
  <2>2. PendingOK(Listing, Kept, done, routes, compaction) /\ compaction.at # last
    BY <1>2, <2>1, ClockFacts, CompactionFacts DEF TableData
  <2>3. \A q \in GroupsOf(compaction) : SourceOK(L2, K2, done, compaction, q)
    BY <1>2, <2>1, <2>2 DEF PendingOK, SourceOK
  <2>4. \A q, i : Based(Listing, done, q, i) => Based(L2, done, q, i)
    BY <1>2 DEF Based
  <2>5. ASSUME compaction.state = "running", NEW q \in GroupsOf(compaction) \ compaction.todo
        PROVE  \E x \in K2 : x.group = q /\ x.kind = "base" /\ x.at = compaction.at
    BY <2>1, <2>2, <2>5 DEF PendingOK
  <2> QED BY <2>1, <2>2, <2>3, <2>4, <2>5 DEF PendingOK
<1>9. TableData(Listing', Kept', done', routes', cleaned', upsert', compaction')
  <2>1. K2 \subseteq L2
    BY ListingFacts
  <2>2. TableData(L2, K2, done, routes, cleaned, None, compaction)
    BY <1>6, <1>7, <1>8, <2>1 DEF TableData
  <2> QED BY <1>1, <1>3, <2>2
<1>10. UpsertOK' /\ CompactionOK'
  BY <1>1 DEF UpsertOK, CompactionOK
<1>11. CleaningOK'
  <2>1. EarliestRetained(done)' = EarliestRetained(done)
    BY <1>1, SameWindow
  <2>2. cleaning # None => PlanOK(cleaning.plan, K2, done, compaction, cleaning.earliest)
    BY <1>2 DEF CleaningOK, PlanOK
  <2> QED BY <1>1, <1>3, <2>1, <2>2 DEF CleaningOK
<1>12. ClockOK'
  BY <1>1, ClockSteps DEF ClockSame
<1> QED BY <1>9, <1>10, <1>11, <1>12

\* Nothing that the compaction had written so far counted.
LEMMA StartCompactionStep ==
    ASSUME TableInv, StartCompaction PROVE TableInv'
<1> USE DEF TableInv
<1> DEFINE c == compaction.at
<1>1. compaction # None /\ files' = {f \in files : f.kind = "base" => f.at # c}
      /\ compaction' = [compaction EXCEPT !.state = "running", !.todo = GroupsOf(compaction)]
      /\ UNCHANGED <<config, last, done, archived, upsert, cleaning, cleaned, query, crashes, batches, routes>>
  BY DEF StartCompaction, GroupsOf
<1>2. /\ compaction \in Compactions /\ c \in Instants /\ c \notin done /\ c \in Int
      /\ \A f \in Planned : f.at # c
  BY <1>1, CompactionFacts
<1>3. GroupsOf(compaction) \subseteq Groups
  BY <1>2, FileFields DEF GroupsOf, Compactions
<1>4. /\ compaction' \in Compactions /\ compaction'.at = c /\ compaction'.source = compaction.source
      /\ compaction'.todo = GroupsOf(compaction) /\ compaction' # None
      /\ GroupsOf(compaction') = GroupsOf(compaction)
  BY <1>1, <1>2, <1>3, NoneAssumption DEF Compactions, GroupsOf
<1> DEFINE L2 == {f \in Listing : f.kind = "base" => f.at # c}
           K2 == {f \in Kept : f.kind = "base" => f.at # c}
<1>5. Listing' = L2 /\ Kept' = K2 /\ Planned' = Planned
  <2>1. Listing' = files' \cup Planned' /\ Planned' = Planned
    BY <1>1 DEF Listing, Planned
  <2> QED BY <1>1, <1>2, <2>1, ListingFacts DEF Kept
<1>6. TableData(Listing, Kept, done, routes, cleaned, upsert, compaction)
  OBVIOUS
<1>7. L2 \in SUBSET Listing /\ \A f \in Listing : f.at \in done => f \in L2
  BY <1>2
<1>8. /\ Shaped(L2) /\ Content(L2, done, routes) /\ Complete(L2, done, routes, cleaned) /\ Disjoint(L2)
      /\ SliceHasBase(L2, done, compaction) /\ FilesAt(L2, done, upsert, compaction)
      /\ Compacted(L2, done, routes) /\ InsertsBased(L2, done, routes)
  BY <1>6, <1>7, DataOfRemoval
<1>9. FilesAt(L2, done, upsert, compaction') /\ SliceHasBase(L2, done, compaction')
  BY <1>4, <1>8 DEF FilesAt, SliceHasBase
<1>10. PendingOK(L2, K2, done, routes, compaction')
  <2>1. PendingOK(Listing, Kept, done, routes, compaction)
    BY DEF TableData
  <2>2. \A q \in GroupsOf(compaction) : SourceOK(L2, K2, done, compaction', q)
    BY <1>1, <1>2, <1>4, <2>1 DEF PendingOK, SourceOK
  <2>3. \A q, i : Based(Listing, done, q, i) => Based(L2, done, q, i)
    BY <1>2 DEF Based
  <2>4. \A q \in GroupsOf(compaction) : CompactionContent(compaction', routes, done, q)
    BY <1>1, <1>4, <2>1 DEF PendingOK, CompactionContent
  <2>5. \A f \in compaction'.source : f.at \in done /\ f.at < compaction'.at
    BY <1>1, <1>4, <2>1 DEF PendingOK
  <2>6. \A q \in Groups \ GroupsOf(compaction') : \A i \in done :
           i < compaction'.at /\ Touches(routes, i, q) => Based(L2, done, q, i)
    BY <1>1, <1>4, <2>1, <2>3 DEF PendingOK
  <2> QED BY <1>4, <2>2, <2>4, <2>5, <2>6 DEF PendingOK
<1>11. TableData(Listing', Kept', done', routes', cleaned', upsert', compaction')
  <2>1. K2 \subseteq L2
    BY ListingFacts
  <2>2. TableData(L2, K2, done, routes, cleaned, upsert, compaction')
    BY <1>8, <1>9, <1>10, <2>1 DEF TableData
  <2> QED BY <1>1, <1>5, <2>2
<1>12. UpsertOK'
  <2>1. SUFFICES ASSUME upsert # None PROVE UpsertOK'
    BY <1>1 DEF UpsertOK
  <2>2. c < last
    BY <1>1, <2>1 DEF UpsertOK
  <2>3. ASSUME NEW q \in Groups, Touches(routes, last, q)
        PROVE  \/ q \in upsert.todo
               \/ \E w \in L2 : w.group = q /\ w.at = last /\ (q \in upsert.bases => w.kind = "base")
    BY <1>2, <2>1, <2>2, <2>3, ClockFacts DEF UpsertOK
  <2>4. ASSUME NEW q \in upsert.todo \ upsert.bases PROVE Based(L2, done, q, 0)
    <3>1. Based(Listing, done, q, 0)
      BY <2>1, <2>4 DEF UpsertOK
    <3> QED BY <1>7, <3>1 DEF Based
  <2>5. /\ upsert \in Upserts
        /\ upsert.at = last /\ last \notin done /\ archived < last
        /\ batches[last] # None
        /\ \A k \in Keys : KeyRouted(routes[last], batches[last], k, Place(routes, k, done))
        /\ upsert.todo \subseteq RoutedTo(routes[last])
        /\ \A q \in Groups : \A k \in Keys : Inserts(routes, q, k, last, done) => q \in upsert.bases
        /\ \A q \in upsert.todo \cap upsert.bases : q \notin GroupsOf(compaction)
    BY <1>1, <2>1 DEF UpsertOK
  <2> HIDE DEF L2, K2
  <2> QED BY <1>1, <1>4, <1>5, <2>2, <2>3, <2>4, <2>5 DEF UpsertOK
<1>13. CompactionOK'
  BY <1>1, <1>4 DEF CompactionOK
<1>14. CleaningOK'
  <2>1. EarliestRetained(done)' = EarliestRetained(done)
    BY <1>1, SameWindow
  <2>2. cleaning # None => PlanOK(cleaning.plan, K2, done, compaction', cleaning.earliest)
    BY <1>1, <1>2, <1>4 DEF CleaningOK, PlanOK
  <2> QED BY <1>1, <1>5, <2>1, <2>2 DEF CleaningOK
<1>15. ClockOK'
  BY <1>1, ClockSteps DEF ClockSame
<1> QED BY <1>11, <1>12, <1>13, <1>14, <1>15

\* The new base file holds what was written before the compaction was planned.
LEMMA CompactStep ==
    ASSUME TableInv, NEW g \in Groups, Compact(g) PROVE TableInv'
<1> USE DEF TableInv
<1> DEFINE c == compaction.at
           f == [group |-> g, kind |-> "base", slice |-> c, at |-> c,
                 rows |-> Merged(g, {w \in compaction.source : w.group = g})]
<1>1. compaction # None /\ g \in compaction.todo /\ files' = files \cup {f}
      /\ compaction' = [compaction EXCEPT !.todo = @ \ {g}]
      /\ UNCHANGED <<config, last, done, archived, upsert, cleaning, cleaned, query, crashes, batches, routes>>
  BY DEF Compact, CompactionRuns
<1>2. /\ compaction \in Compactions /\ c \in Instants /\ c \notin done /\ c \in Int
      /\ routes[c] = None
      /\ \A w \in Planned : w.at # c
  BY <1>1, CompactionFacts
<1>3. /\ compaction' \in Compactions /\ compaction'.at = c /\ compaction'.source = compaction.source
      /\ compaction'.todo = compaction.todo \ {g} /\ compaction'.state = compaction.state
      /\ compaction' # None
      /\ GroupsOf(compaction') = GroupsOf(compaction)
  BY <1>1, <1>2, NoneAssumption DEF Compactions, GroupsOf
<1>4. PendingOK(Listing, Kept, done, routes, compaction) /\ g \in GroupsOf(compaction)
  BY <1>1 DEF TableData, PendingOK
<1>5. PICK x \in Kept : /\ x.group = g /\ x.kind = "base" /\ x.at \in done /\ x.at < c
                        /\ \A h \in Listing : h.group = g =>
                              \/ h.slice <= x.at /\ h.at < c
                              \/ h.slice = c
  BY <1>1, <1>4 DEF PendingOK, SourceOK
<1>6. f.rows = RowsOf(routes, g, UpTo(done, c))
  BY <1>1, <1>4 DEF PendingOK, CompactionContent
<1>7. f.group = g /\ f.kind = "base" /\ f.slice = c /\ f.at = c
  OBVIOUS
<1>8. Shaped({f})
  <2>1. UpTo(done, c) \in SUBSET Instants
    BY ClockFacts DEF UpTo
  <2>2. \A k \in KeysOf(g.part) : Row(routes, g, k, UpTo(done, c)) \in Instants \cup {None}
    BY <2>1, RowType
  <2>3. f.rows \in [KeysOf(g.part) -> Instants \cup {None}] /\ KeysOf(g.part) \subseteq Keys
    BY <1>6, <2>2 DEF KeysOf, RowsOf
  <2>4. f.rows \in Rows
    BY <2>3 DEF Rows
  <2>5. f \in Files
    BY <1>2, <2>4 DEF Files
  <2>6. g.from <= c
    <3>1. g.from \in Int /\ x \in Listing /\ x.at \in Int
      BY <1>5, ListingFacts, HudiAssumption DEF Groups, Instants
    <3> QED BY <1>2, <1>5, <3>1, ListingFacts DEF Shaped
  <2> HIDE DEF f
  <2> QED BY <1>7, <2>5, <2>6 DEF Shaped
<1> HIDE DEF f
<1>9. Content({f}, done, routes)
  <2>1. ASSUME NEW k \in KeysOf(g.part)
        PROVE  Row(routes, g, k, UpTo(done, c)) = Row(routes, g, k, UpTo(done \cup {c}, c))
    <3>1. UpTo(done, c) \in SUBSET Instants
      BY ClockFacts DEF UpTo
    <3>2. Writes(routes, g, k, UpTo(done, c)) = Writes(routes, g, k, UpTo(done \cup {c}, c))
      BY <1>2 DEF Writes, UpTo
    <3> QED BY <3>1, <3>2, SameRow
  <2>2. DOMAIN f.rows = KeysOf(g.part) /\ \A k \in KeysOf(g.part) : f.rows[k] = Row(routes, g, k, UpTo(done \cup {c}, c))
    BY <1>6, <2>1 DEF RowsOf
  <2>3. BaseContent(f, done, routes)
    BY <1>7, <2>2 DEF BaseContent
  <2> QED BY <1>7, <2>3 DEF Content
<1>10. Listing' = Listing \cup {f} /\ Planned' = Planned /\ Kept' = Kept \cup {f}
  <2>1. f \notin Planned
    BY <1>2, <1>7
  <2> QED BY <1>1, <2>1, ListingFacts DEF Listing, Planned, Kept
<1>11. TableData(Listing', Kept', done', routes', cleaned', upsert', compaction')
  <2>1. TableData(Listing, Kept, done, routes, cleaned, upsert, compaction)
    OBVIOUS
  <2>2. \A w \in Listing : w.group = f.group =>
           /\ w.slice < f.slice => w.at < f.slice
           /\ f.slice < w.slice => f.at < w.slice
    BY <1>2, <1>5, <1>7, ListingFacts
  <2>3. FilesAt(Listing \cup {f}, done, upsert, compaction')
    BY <1>1, <1>3, <1>4, <1>7 DEF TableData, FilesAt
  <2>4. SliceHasBase(Listing \cup {f}, done, compaction')
    BY <1>1, <1>3, <1>7 DEF TableData, SliceHasBase
  <2>5. PendingOK(Listing \cup {f}, Kept \cup {f}, done, routes, compaction')
    BY <1>1, <1>3, <1>4, <1>7, PendingOfFile
  <2>6. f.at \notin done
    BY <1>2, <1>7
  <2>7. TableData(Listing \cup {f}, Kept \cup {f}, done, routes, cleaned, upsert, compaction')
    BY <1>8, <1>9, <2>1, <2>2, <2>3, <2>4, <2>5, <2>6, DataOfFile
  <2> QED BY <1>1, <1>10, <2>7
<1>12. CompactionOK'
  BY <1>1, <1>3 DEF CompactionOK
<1>15. UpsertOK'
  <2>1. SUFFICES ASSUME upsert # None PROVE UpsertOK'
    BY <1>1 DEF UpsertOK
  <2>2. c < last
    BY <1>1, <2>1 DEF UpsertOK
  <2>3. ASSUME NEW q \in Groups, Touches(routes, last, q)
        PROVE  \/ q \in upsert.todo
               \/ \E w \in Listing \cup {f} : w.group = q /\ w.at = last /\ (q \in upsert.bases => w.kind = "base")
    BY <2>1, <2>3 DEF UpsertOK
  <2>4. ASSUME NEW q \in upsert.todo \ upsert.bases PROVE Based(Listing \cup {f}, done, q, 0)
    <3>1. Based(Listing, done, q, 0)
      BY <2>1, <2>4 DEF UpsertOK
    <3> QED BY <3>1 DEF Based
  <2>5. /\ upsert \in Upserts
        /\ upsert.at = last /\ last \notin done /\ archived < last
        /\ batches[last] # None
        /\ \A k \in Keys : KeyRouted(routes[last], batches[last], k, Place(routes, k, done))
        /\ upsert.todo \subseteq RoutedTo(routes[last])
        /\ \A q \in Groups : \A k \in Keys : Inserts(routes, q, k, last, done) => q \in upsert.bases
        /\ \A q \in upsert.todo \cap upsert.bases : q \notin GroupsOf(compaction)
    BY <1>1, <2>1 DEF UpsertOK
  <2> QED BY <1>1, <1>3, <1>10, <2>2, <2>3, <2>4, <2>5 DEF UpsertOK
<1>13. CleaningOK'
  <2>1. EarliestRetained(done)' = EarliestRetained(done)
    BY <1>1, SameWindow
  <2>2. ASSUME cleaning # None, NEW h \in cleaning.plan, h.group = g PROVE h.slice # c
    <3>1. PICK y \in Kept : y.group = g /\ y.kind = "base" /\ y.at \in done /\ h.slice < y.at
      BY <2>2 DEF CleaningOK, PlanOK
    <3>2. h \in Listing /\ y \in Listing
      BY <2>2, <3>1, ListingFacts DEF Planned
    <3>3. y.at < c
      BY <1>2, <1>5, <3>1, <3>2, ListingFacts
    <3> QED BY <1>2, <3>1, <3>2, <3>3, ListingFacts
  <2>3. cleaning # None => PlanOK(cleaning.plan, Kept \cup {f}, done, compaction', cleaning.earliest)
    BY <1>1, <1>3, <1>7, <2>2 DEF CleaningOK, PlanOK
  <2> QED BY <1>1, <1>10, <2>1, <2>3 DEF CleaningOK
<1>14. ClockOK'
  BY <1>1, ClockSteps DEF ClockSame
<1> QED BY <1>11, <1>12, <1>13, <1>14, <1>15

LEMMA CompleteCompactionStep ==
    ASSUME TableInv, CompleteCompaction PROVE TableInv'
<1> USE DEF TableInv
<1> DEFINE c == compaction.at
           E == done \cup {c}
<1>1. compaction # None /\ compaction.state = "running" /\ compaction.todo = {}
      /\ done' = E /\ compaction' = None
      /\ UNCHANGED <<config, last, archived, files, upsert, cleaning, cleaned, query, crashes, batches, routes>>
  BY DEF CompleteCompaction, CompactionRuns
<1>2. c \in Instants /\ c \in Int /\ 1 <= c /\ c <= last /\ c \notin done /\ routes[c] = None
      /\ batches[c] = None
  <2>1. c \in Instants /\ c \in Int /\ 1 <= c /\ c <= last /\ c \notin done /\ routes[c] = None
    BY <1>1, CompactionFacts
  <2> QED BY <2>1 DEF ClockOK, RouteTyped
<1>3. done \in SUBSET Instants /\ E \in SUBSET Instants
  BY <1>2, ClockFacts
<1>4. Listing' = Listing /\ Kept' = Kept
  BY <1>1 DEF Listing, Kept, Planned
<1>5. TableData(Listing, Kept, E, routes, cleaned, upsert, None)
  <2>1. TableData(Listing, Kept, done, routes, cleaned, upsert, compaction)
    OBVIOUS
  <2> QED BY <1>1, <1>2, <1>3, <2>1, DataOfCompaction
<1>6. UpsertOK'
  <2>1. SUFFICES ASSUME upsert # None PROVE UpsertOK'
    BY <1>1 DEF UpsertOK
  <2>2. last \notin E /\ compaction.at < last
    BY <1>1, <1>2, <2>1, UpsertFacts DEF UpsertOK
  <2>3. ASSUME NEW k \in Keys PROVE KeyRouted(routes[last], batches[last], k, Place(routes, k, E))
    <3>1. Place(routes, k, E) = Place(routes, k, done)
      <4>1. routes[c] = None /\ batches[c] = None
        BY <1>2
      <4> QED BY <4>1, SameAfterCompaction
    <3> QED BY <2>1, <3>1 DEF UpsertOK
  <2>4. ASSUME NEW q \in Groups, NEW k \in Keys, Inserts(routes, q, k, last, E) PROVE q \in upsert.bases
    <3>1. Writes(routes, q, k, {j \in E : j < last}) = Writes(routes, q, k, {j \in done : j < last})
      BY <1>2 DEF Writes
    <3>2. Row(routes, q, k, {j \in E : j < last}) = Row(routes, q, k, {j \in done : j < last})
      BY <3>1 DEF Row
    <3>3. Inserts(routes, q, k, last, done)
      BY <2>4, <3>2 DEF Inserts
    <3> QED BY <2>1, <3>3 DEF UpsertOK
  <2>5. ASSUME NEW q \in upsert.todo \ upsert.bases PROVE Based(Listing, E, q, 0)
    <3>1. Based(Listing, done, q, 0)
      BY <2>1, <2>5 DEF UpsertOK
    <3> QED BY <3>1 DEF Based
  <2>6. /\ upsert \in Upserts
        /\ upsert.at = last /\ archived < last
        /\ batches[last] # None
        /\ upsert.todo \subseteq RoutedTo(routes[last])
        /\ \A q \in Groups : Touches(routes, last, q) =>
              \/ q \in upsert.todo
              \/ \E w \in Listing : w.group = q /\ w.at = last /\ (q \in upsert.bases => w.kind = "base")
    BY <2>1 DEF UpsertOK
  <2> HIDE DEF E
  <2> QED BY <1>1, <1>4, <2>2, <2>3, <2>4, <2>5, <2>6 DEF UpsertOK
<1>7. CompactionOK'
  BY <1>1 DEF CompactionOK
<1>8. CleaningOK'
  <2>1. EarliestRetained(done) <= EarliestRetained(E)
    BY <1>3, EarliestGrows DEF ClockOK
  <2>2. EarliestRetained(done)' = EarliestRetained(E)
    BY <1>1 DEF EarliestRetained
  <2>3. EarliestRetained(done) \in Nat /\ EarliestRetained(E) \in Nat /\ cleaned \in Int
    BY <1>3, EarliestType, ClockFacts DEF ClockOK
  <2>4. cleaning # None => cleaning.earliest \in Int
    BY HudiAssumption DEF CleaningOK, Cleanings
  <2>5. cleaning # None => PlanOK(cleaning.plan, Kept, E, None, cleaning.earliest)
    BY DEF CleaningOK, PlanOK
  <2>6. cleaned <= EarliestRetained(E)
    BY <2>1, <2>3 DEF CleaningOK
  <2>7. cleaning # None => cleaning.earliest <= EarliestRetained(E)
    BY <2>1, <2>3, <2>4 DEF CleaningOK
  <2> QED BY <1>1, <1>4, <2>2, <2>5, <2>6, <2>7 DEF CleaningOK
<1>9. ClockOK'
  <2>1. E \subseteq 1 .. last
    <3>1. last \in Int
      BY ClockFacts
    <3>2. c \in 1 .. last
      BY <1>2, <3>1
    <3>3. done \subseteq 1 .. last
      BY DEF ClockOK
    <3> QED BY <3>2, <3>3
  <2>2. Agree(routes, batches, E)
    BY <1>2, AgreeAfterCompaction DEF ClockOK
  <2> HIDE DEF E
  <2> QED BY <1>1, <2>1, <2>2 DEF ClockOK
<1> QED BY <1>1, <1>4, <1>5, <1>6, <1>7, <1>8, <1>9

\* A clean ends.
LEMMA CompleteCleanStep ==
    ASSUME TableInv, CompleteClean PROVE TableInv'
<1> USE DEF TableInv
<1> DEFINE e == cleaning.earliest
<1>1. cleaning # None /\ cleaning.plan \cap files = {} /\ cleaned' = e /\ cleaning' = None
      /\ UNCHANGED <<config, last, done, archived, files, upsert, compaction, query, crashes, batches, routes>>
  BY DEF CompleteClean, CleanRuns
<1>2. /\ cleaning \in Cleanings /\ cleaned <= e /\ e <= EarliestRetained(done)
      /\ PlanOK(cleaning.plan, Kept, done, compaction, e)
  BY <1>1 DEF CleaningOK
<1>3. e \in 0 .. last /\ e \in Int /\ cleaned \in Int
  <2>1. e \in Int /\ 0 <= e
    BY <1>2, HudiAssumption DEF Cleanings
  <2>2. EarliestRetained(done) \in Nat /\ EarliestRetained(done) \in done \cup {0}
    BY EarliestType, ClockFacts DEF ClockOK
  <2>3. EarliestRetained(done) <= last
    BY <2>2, ClockFacts DEF ClockOK
  <2> QED BY <1>2, <2>1, <2>2, <2>3, ClockFacts
<1>4. Kept = files /\ Listing = Kept \cup cleaning.plan
  BY <1>1 DEF Kept, Planned, Listing
<1>5. Listing' = Kept /\ Kept' = Kept
  BY <1>1, <1>4 DEF Listing, Kept, Planned
<1>6. TableData(Kept, Kept, done, routes, e, upsert, compaction)
  <2>1. TableData(Listing, Kept, done, routes, cleaned, upsert, compaction)
    OBVIOUS
  <2>2. done \in SUBSET Instants
    BY ClockFacts
  <2> QED BY <1>2, <1>3, <1>4, <2>1, <2>2, DataOfClean
<1>7. UpsertOK'
  <2>1. SUFFICES ASSUME upsert # None PROVE UpsertOK'
    BY <1>1 DEF UpsertOK
  <2>2. ASSUME NEW f \in Listing, f.at = last PROVE f \in Kept
    BY <1>1, <1>4, <2>1, <2>2, UpsertFacts DEF Planned
  <2>3. ASSUME NEW q \in Groups, Touches(routes, last, q)
        PROVE  \/ q \in upsert.todo
               \/ \E w \in Kept : w.group = q /\ w.at = last /\ (q \in upsert.bases => w.kind = "base")
    BY <2>1, <2>2, <2>3 DEF UpsertOK
  <2>4. ASSUME NEW q \in upsert.todo \ upsert.bases PROVE Based(Kept, done, q, 0)
    <3>1. PICK x \in Listing : x.group = q /\ x.kind = "base" /\ x.at \in done /\ 0 <= x.at
      BY <2>1, <2>4 DEF UpsertOK, Based
    <3>2. CASE x \in Kept
      BY <3>1, <3>2 DEF Based
    <3>3. CASE x \in cleaning.plan
      <4>1. PICK y \in Kept : y.group = q /\ y.kind = "base" /\ y.at \in done
        BY <1>2, <3>1, <3>3 DEF PlanOK
      <4> QED BY <4>1, ClockFacts DEF Based
    <3> QED BY <1>4, <3>2, <3>3
  <2>5. /\ upsert \in Upserts
        /\ upsert.at = last /\ last \notin done /\ archived < last
        /\ batches[last] # None
        /\ \A k \in Keys : KeyRouted(routes[last], batches[last], k, Place(routes, k, done))
        /\ compaction # None => compaction.at < last
        /\ upsert.todo \subseteq RoutedTo(routes[last])
        /\ \A q \in Groups : \A k \in Keys : Inserts(routes, q, k, last, done) => q \in upsert.bases
        /\ \A q \in upsert.todo \cap upsert.bases : compaction # None => q \notin GroupsOf(compaction)
    BY <2>1 DEF UpsertOK
  <2> QED BY <1>1, <1>5, <2>3, <2>4, <2>5 DEF UpsertOK
<1>8. CompactionOK'
  BY <1>1 DEF CompactionOK
<1>9. CleaningOK'
  <2>1. EarliestRetained(done)' = EarliestRetained(done)
    BY <1>1, SameWindow
  <2> QED BY <1>1, <1>2, <2>1 DEF CleaningOK
<1>10. ClockOK'
  BY <1>1, <1>3 DEF ClockOK
<1> QED BY <1>1, <1>5, <1>6, <1>7, <1>8, <1>9, <1>10

\* What is under way stops where it is.
LEMMA CrashStep ==
    ASSUME TableInv, Crash PROVE TableInv'
<1> USE DEF TableInv
<1>1. /\ crashes < MaxCrashes /\ crashes' = crashes + 1
      /\ upsert' = IF upsert = None THEN None ELSE [upsert EXCEPT !.alive = FALSE]
      /\ compaction' = IF compaction = None THEN None ELSE [compaction EXCEPT !.state = "crashed"]
      /\ cleaning' = IF cleaning = None THEN None ELSE [cleaning EXCEPT !.running = FALSE]
      /\ UNCHANGED <<config, last, done, archived, files, cleaned, query, batches, routes>>
  BY DEF Crash
<1>2. /\ upsert' # None <=> upsert # None
      /\ upsert # None => upsert' \in Upserts /\ upsert'.at = upsert.at /\ upsert'.todo = upsert.todo
                          /\ upsert'.bases = upsert.bases
  BY <1>1, NoneAssumption DEF UpsertOK, Upserts
<1>3. /\ compaction' # None <=> compaction # None
      /\ compaction # None => /\ compaction' \in Compactions /\ compaction'.at = compaction.at
                              /\ compaction'.source = compaction.source /\ compaction'.state = "crashed"
                              /\ compaction'.todo = compaction.todo
                              /\ GroupsOf(compaction') = GroupsOf(compaction)
  BY <1>1, NoneAssumption DEF CompactionOK, Compactions, GroupsOf
<1>4. /\ cleaning' # None <=> cleaning # None
      /\ cleaning # None => /\ cleaning' \in Cleanings /\ cleaning'.plan = cleaning.plan
                            /\ cleaning'.earliest = cleaning.earliest
  BY <1>1, NoneAssumption DEF CleaningOK, Cleanings
<1>5. Listing' = Listing /\ Kept' = Kept
  BY <1>1, <1>4 DEF Listing, Kept, Planned
<1>6. TableData(Listing, Kept, done, routes, cleaned, upsert', compaction')
  <2>1. FilesAt(Listing, done, upsert', compaction')
    BY <1>2, <1>3 DEF TableData, FilesAt
  <2>2. SliceHasBase(Listing, done, compaction')
    BY <1>3 DEF TableData, SliceHasBase
  <2>3. PendingOK(Listing, Kept, done, routes, compaction')
    <3>1. SUFFICES ASSUME compaction' # None PROVE PendingOK(Listing, Kept, done, routes, compaction')
      BY DEF PendingOK
    <3>2. PendingOK(Listing, Kept, done, routes, compaction) /\ compaction # None
      BY <1>3, <3>1 DEF TableData
    <3>3. \A q \in GroupsOf(compaction) :
             SourceOK(Listing, Kept, done, compaction', q) /\ CompactionContent(compaction', routes, done, q)
      <4>1. \A q \in GroupsOf(compaction) : SourceOK(Listing, Kept, done, compaction', q)
        BY <1>3, <3>2 DEF PendingOK, SourceOK
      <4>2. \A q \in GroupsOf(compaction) : CompactionContent(compaction', routes, done, q)
        BY <1>3, <3>2 DEF PendingOK, CompactionContent
      <4> QED BY <4>1, <4>2
    <3> QED BY <1>3, <3>2, <3>3 DEF PendingOK
  <2> QED BY <2>1, <2>2, <2>3 DEF TableData
<1>7. TableData(Listing', Kept', done', routes', cleaned', upsert', compaction')
  BY <1>1, <1>5, <1>6
<1>8. UpsertOK'
  <2>1. SUFFICES ASSUME upsert # None PROVE UpsertOK'
    BY <1>2 DEF UpsertOK
  <2>2. /\ upsert.at = last /\ last \notin done /\ archived < last
        /\ batches[last] # None
        /\ \A k \in Keys : KeyRouted(routes[last], batches[last], k, Place(routes, k, done))
        /\ compaction # None => compaction.at < last
        /\ upsert.todo \subseteq RoutedTo(routes[last])
        /\ \A q \in Groups : Touches(routes, last, q) =>
              \/ q \in upsert.todo
              \/ \E w \in Listing : w.group = q /\ w.at = last /\ (q \in upsert.bases => w.kind = "base")
        /\ \A q \in Groups : \A k \in Keys : Inserts(routes, q, k, last, done) => q \in upsert.bases
        /\ \A q \in upsert.todo \cap upsert.bases : compaction # None => q \notin GroupsOf(compaction)
        /\ \A q \in upsert.todo \ upsert.bases : Based(Listing, done, q, 0)
    BY <2>1 DEF UpsertOK
  <2>3. compaction' # None => compaction'.at < last /\ GroupsOf(compaction') = GroupsOf(compaction)
    BY <1>3, <2>2
  <2>4. \A q \in upsert.todo \cap upsert.bases : compaction' # None => q \notin GroupsOf(compaction')
    BY <1>3, <2>2
  <2>5. UNCHANGED <<last, done, archived, routes, batches>>
    BY <1>1
  <2> QED BY <1>2, <1>5, <2>1, <2>2, <2>3, <2>4, <2>5 DEF UpsertOK
<1>9. CompactionOK'
  BY <1>1, <1>3 DEF CompactionOK
<1>10. CleaningOK'
  <2>1. EarliestRetained(done)' = EarliestRetained(done)
    BY <1>1, SameWindow
  <2>2. cleaning # None => PlanOK(cleaning.plan, Kept, done, compaction', cleaning.earliest)
    BY <1>3 DEF CleaningOK, PlanOK
  <2> QED BY <1>1, <1>4, <1>5, <2>1, <2>2 DEF CleaningOK
<1>11. ClockOK'
  BY <1>1, HudiAssumption DEF ClockOK
<1> QED BY <1>7, <1>8, <1>9, <1>10, <1>11

-----------------------------------------------------------------------------
(* New plans of cleans and compactions.                                      *)

\* A new plan of a clean leaves the newest completed base file from before the window,
\* and everything after it.
LEMMA NewCleanPlan ==
    ASSUME config \in Configs, NEW D \in SUBSET Instants, NEW rs, NEW cl,
           TableData(files, files, D, rs, cl, None, compaction),
           compaction # None => compaction.at \in Int /\ compaction.at \notin D
    PROVE  PlanOK(CleanPlan(D), files \ CleanPlan(D), D, compaction, EarliestRetained(D))
<1> DEFINE e == EarliestRetained(D)
           plan == CleanPlan(D)
<1>0. e \in Nat /\ \A i \in D : i \in Int
  <2>1. \A i \in D : i \in Int
    BY HudiAssumption DEF Instants
  <2>2. e \in Nat
    BY EarliestType
  <2> QED BY <2>1, <2>2
<1>1. \A f \in files : /\ f.at \in Int /\ f.slice \in Int /\ f.kind \in {"base", "log"}
                       /\ f.kind = "base" => f.slice = f.at
  BY FileFields DEF TableData, Shaped
<1> HIDE DEF e
\* A file from before the window that is not the newest has a completed base file after it.
<1>2. ASSUME NEW f \in files, NEW w \in files, w.group = f.group, f.slice < w.slice, w.slice < e,
             compaction # None => \A h \in compaction.source : h.group = f.group => h.slice # f.slice
      PROVE  \E y \in files : y.group = f.group /\ y.kind = "base" /\ y.at \in D /\ f.slice < y.at /\ y.at < e
  <2>1. CASE w.kind = "base" /\ w.at \in D
    BY <1>1, <1>2, <2>1
  <2>2. CASE \E x \in files : x.group = w.group /\ x.kind = "base" /\ x.at \in D /\ x.at = w.slice
    BY <1>2, <2>2
  <2>3. CASE compaction # None /\ w.slice = compaction.at /\ w.group \in GroupsOf(compaction)
    <3>1. PICK x \in files : /\ x.group = f.group /\ x.kind = "base" /\ x.at \in D /\ x.at < compaction.at
                             /\ \A h \in compaction.source : h.group = f.group => h.slice = x.at
                             /\ \A h \in files : h.group = f.group =>
                                   \/ h.slice <= x.at /\ h.at < compaction.at
                                   \/ h.slice = compaction.at
      BY <1>2, <2>3 DEF TableData, PendingOK, SourceOK
    <3>2. PICK h \in compaction.source : h.group = f.group
      BY <1>2, <2>3 DEF GroupsOf
    <3>3. f.slice # x.at
      BY <1>2, <2>3, <3>1, <3>2
    <3> QED BY <1>0, <1>1, <1>2, <2>3, <3>1, <3>3
  <2> QED BY <1>1, <1>2, <2>1, <2>2, <2>3 DEF TableData, FilesAt, SliceHasBase
<1>3. ASSUME NEW f \in plan
      PROVE  /\ f \in files
             /\ \E w \in files : w.group = f.group /\ f.slice < w.slice /\ w.slice < e
             /\ compaction # None => \A h \in compaction.source : h.group = f.group => h.slice # f.slice
  BY DEF CleanPlan, Cleanable, SliceStarts, e
<1>4. ASSUME NEW f \in files, NEW w \in files, w.group = f.group, f.slice < w.slice, w.slice < e,
             compaction # None => \A h \in compaction.source : h.group = f.group => h.slice # f.slice
      PROVE  f \in plan
  BY <1>4 DEF CleanPlan, Cleanable, SliceStarts, e
<1>5. ASSUME NEW f \in plan, NEW w \in files, w.group = f.group, w.slice = f.slice PROVE w \in plan
  BY <1>5 DEF CleanPlan
<1> HIDE DEF plan
<1>6. ASSUME NEW f \in plan
      PROVE  \E y \in files : y.group = f.group /\ y.kind = "base" /\ y.at \in D /\ f.slice < y.at /\ y.at < e
  <2>1. PICK w \in files : w.group = f.group /\ f.slice < w.slice /\ w.slice < e
    BY <1>3
  <2> QED BY <1>2, <1>3, <2>1
<1>7. ASSUME NEW f \in plan
      PROVE  \E x \in files \ plan : /\ x.group = f.group /\ x.kind = "base" /\ x.at \in D
                                     /\ f.slice < x.at /\ x.at < e
  <2> DEFINE early == {y \in files : y.group = f.group /\ y.kind = "base" /\ y.at \in D /\ y.at < e}
             ats == {y.at : y \in early}
  <2>1. PICK y \in early : f.slice < y.at
    BY <1>6
  <2>2. ats \in SUBSET Instants /\ ats # {}
    BY <2>1
  <2>3. Newest(ats) \in ats /\ \A a \in ats : a <= Newest(ats)
    BY <2>2, NewestOf
  <2>4. PICK x \in early : \A z \in early : z.at <= x.at
    BY <2>3
  <2>5. f.slice < x.at
    BY <1>1, <1>3, <2>1, <2>4
  <2>6. x \notin plan
    <3>1. SUFFICES ASSUME x \in plan PROVE FALSE
      OBVIOUS
    <3>2. PICK z \in files : z.group = x.group /\ z.kind = "base" /\ z.at \in D /\ x.slice < z.at /\ z.at < e
      BY <1>6, <3>1
    <3>3. z \in early /\ x.slice = x.at
      BY <1>1, <3>2
    <3> QED BY <1>1, <2>4, <3>2, <3>3
  <2> QED BY <2>4, <2>5, <2>6
<1>8. ASSUME NEW f \in plan PROVE f.at \in D
  <2>1. SUFFICES ASSUME f.at \notin D PROVE FALSE
    OBVIOUS
  <2>2. compaction # None /\ f.at = compaction.at /\ f.kind = "base" /\ f.group \in GroupsOf(compaction)
    BY <1>3, <2>1 DEF TableData, FilesAt
  <2>3. PICK y \in files : y.group = f.group /\ y.kind = "base" /\ y.at \in D /\ f.slice < y.at
    BY <1>6
  <2>4. PICK x \in files : /\ x.at < compaction.at
                           /\ \A h \in files : h.group = f.group =>
                                 \/ h.slice <= x.at /\ h.at < compaction.at
                                 \/ h.slice = compaction.at
    BY <2>2 DEF TableData, PendingOK, SourceOK
  <2> QED BY <1>1, <1>3, <2>2, <2>3, <2>4
<1>9. plan \subseteq files
  BY <1>3
<1> QED BY <1>3, <1>5, <1>7, <1>8, <1>9 DEF PlanOK, plan, e

\* A new plan of a compaction has the whole newest slice of the partitions with logs.
LEMMA NewCompactionPlan ==
    ASSUME NEW D \in SUBSET (1 .. last), NEW e,
           last \in Int, last + 1 \in Instants, cleaned \in Int, cleaned <= last,
           TableData(Listing, Kept, D, routes, cleaned, None, None),
           PlanOK(Planned, Kept, D, None, e)
    PROVE  /\ CompactionPlan(D) \in Compactions /\ CompactionPlan(D).at = last + 1
           /\ TableData(Listing, Kept, D, routes, cleaned, None, CompactionPlan(D))
           /\ PlanOK(Planned, Kept, D, CompactionPlan(D), e)
<1> DEFINE cp == CompactionPlan(D)
           logged == {g \in {f.group : f \in files} : \E f \in Source(g, D) : f.kind = "log"}
<1>0. D \in SUBSET Instants /\ (\A i \in D : i \in Int /\ i <= last) /\ UpTo(D, last) = D /\ UpTo(D, last + 1) = D
  <2>1. \A i \in D : i \in Int /\ 1 <= i /\ i <= last
    OBVIOUS
  <2>2. \A i \in D : i \in Instants
    BY <2>1, HudiAssumption DEF Instants
  <2>3. UpTo(D, last) = D
    BY <2>1 DEF UpTo
  <2>4. \A i \in D : i <= last + 1
    BY <2>1
  <2>5. UpTo(D, last + 1) = D
    BY <2>4 DEF UpTo
  <2> QED BY <2>1, <2>2, <2>3, <2>5
<1>1. Listing = files \cup Planned /\ Listing = Kept \cup Planned /\ Kept \subseteq files
  BY DEF Listing, Planned, Kept
<1>2. Shaped(Listing)
  BY DEF TableData
<1>3. \A f \in Listing : /\ f \in Files /\ f.at \in Int /\ f.slice \in Int /\ f.group \in Groups
                         /\ f.kind \in {"base", "log"}
                         /\ f.kind = "base" => f.slice = f.at
                         /\ f.at \in D
  BY <1>2, FileFields DEF TableData, Shaped, FilesAt
<1>4. ASSUME NEW g PROVE Source(g, D) = SliceFiles(g, Listing, D)
  <2>1. \A f \in Planned : \E x \in files : /\ x.group = f.group /\ x.kind = "base" /\ x.at \in D
                                            /\ f.slice < x.at
    BY <1>1 DEF PlanOK
  <2>2. Shaped(files \cup Planned)
    BY <1>1, <1>2
  <2>3. /\ SliceFiles(g, files, D) = SliceFiles(g, files \cup Planned, D)
        /\ BasesOf(g, files, D) = {} <=> BasesOf(g, files \cup Planned, D) = {}
    <3> HIDE DEF logged, cp
    <3> QED BY <2>1, <2>2, SliceOfKept
  <2> QED BY <1>1, <2>3 DEF Source
<1>5. \A g : \A f \in Source(g, D) : f \in files /\ f \in Listing /\ f.group = g /\ f.at \in D
  BY <1>1 DEF Source, SliceFiles, Slices, BasesOf
<1>6. /\ cp.at = last + 1 /\ cp.todo = logged /\ cp.state = "scheduled"
      /\ cp.source = UNION {Source(g, D) : g \in logged}
      /\ cp = [at |-> last + 1, todo |-> logged, state |-> "scheduled",
               source |-> UNION {Source(g, D) : g \in logged}]
  BY DEF CompactionPlan
<1> HIDE DEF cp
<1>7. \A f \in cp.source : f.group \in logged /\ f \in Source(f.group, D) /\ f \in Listing
  BY <1>5, <1>6
<1>8. GroupsOf(cp) = logged
  <2>1. ASSUME NEW g \in logged PROVE g \in GroupsOf(cp)
    <3>1. PICK f \in Source(g, D) : f.kind = "log"
      BY <2>1
    <3> QED BY <1>5, <1>6, <2>1, <3>1 DEF GroupsOf
  <2> QED BY <1>7, <2>1 DEF GroupsOf
<1>9. cp \in Compactions
  <2>1. cp.source \in SUBSET Files /\ logged \in SUBSET Groups
    BY <1>1, <1>3, <1>7
  <2> HIDE DEF logged
  <2> QED BY <1>6, <2>1 DEF Compactions
<1>10. ASSUME NEW g \in logged PROVE {f \in cp.source : f.group = g} = Source(g, D)
  BY <1>5, <1>6, <1>7
<1>11. ASSUME NEW g \in Groups, NEW x \in BasesOf(g, Listing, D),
              \A w \in BasesOf(g, Listing, D) : w.at <= x.at
       PROVE  x \in Kept /\ \A h \in Listing : h.group = g => h.slice <= x.at
  <2>1. x \in Listing /\ x.group = g /\ x.kind = "base" /\ x.at \in D
    BY DEF BasesOf
  <2>2. x \in Kept
    <3>1. SUFFICES ASSUME x \in Planned PROVE FALSE
      BY <1>1, <2>1
    <3>2. PICK y \in Kept : y.group = g /\ y.kind = "base" /\ y.at \in D /\ x.slice < y.at
      BY <2>1, <3>1 DEF PlanOK
    <3>3. y.at <= x.at /\ y \in Listing
      BY <1>1, <1>11, <3>2 DEF BasesOf
    <3> QED BY <1>3, <2>1, <3>2, <3>3
  <2>3. ASSUME NEW h \in Listing, h.group = g PROVE h.slice <= x.at
    <3>1. CASE h.kind = "base"
      BY <1>3, <1>11, <2>3, <3>1 DEF BasesOf
    <3>2. CASE h.kind = "log"
      <4>1. PICK y \in Listing : y.group = g /\ y.kind = "base" /\ y.at \in D /\ y.at = h.slice
        BY <2>3, <3>2 DEF TableData, SliceHasBase
      <4>2. y.at <= x.at
        BY <1>11, <4>1 DEF BasesOf
      <4> QED BY <4>1, <4>2
    <3> QED BY <1>3, <3>1, <3>2
  <2> QED BY <2>2, <2>3
<1>12. ASSUME NEW g \in logged PROVE SourceOK(Listing, Kept, D, cp, g)
  <2>0. g \in Groups
    BY <1>1, <1>3, <1>12
  <2>1. PICK l \in Source(g, D) : l.kind = "log"
    BY <1>12
  <2>2. PICK x0 \in Listing : x0.group = g /\ x0.kind = "base" /\ x0.at \in D
    BY <1>5, <2>1 DEF TableData, SliceHasBase
  <2>3. BasesOf(g, Listing, D) # {}
    BY <2>2 DEF BasesOf
  <2>4. PICK x \in BasesOf(g, Listing, D) : \A w \in BasesOf(g, Listing, D) : w.at <= x.at
    BY <1>2, <2>3, NewestBase
  <2>5. x \in Kept /\ \A h \in Listing : h.group = g => h.slice <= x.at
    BY <1>11, <2>0, <2>4
  <2>6. x.group = g /\ x.kind = "base" /\ x.at \in D /\ x \in Listing
    BY DEF BasesOf
  <2>7. ASSUME NEW f \in cp.source, f.group = g PROVE f.slice = x.at
    <3>1. f \in SliceFiles(g, Listing, D) /\ f \in Listing
      BY <1>4, <1>7, <2>7
    <3>2. x.at <= f.slice
      BY <2>4, <3>1 DEF SliceFiles, Slices, BasesOf
    <3> QED BY <1>3, <2>5, <2>6, <2>7, <3>1, <3>2
  <2>8. \A h \in Listing : h.at < last + 1
    BY <1>0, <1>3
  <2>9. x.at < cp.at
    BY <1>6, <2>6, <2>8
  <2> QED BY <1>6, <2>5, <2>6, <2>7, <2>8, <2>9 DEF SourceOK
<1>13. ASSUME NEW g \in logged PROVE CompactionContent(cp, routes, D, g)
  <2>1. History(Listing, D, routes, cleaned)
    BY DataHistory
  <2>2. \A f \in Listing : f.at \in D <=> f.at \in UpTo(D, last)
    BY <1>0
  <2>3. g \in Groups
    BY <1>1, <1>3, <1>13
  <2>4. Merged(g, SliceFiles(g, Listing, D)) = RowsOf(routes, g, D)
    <3>1. D \in SUBSET Instants /\ UpTo(D, last) = D
      BY <1>0
    <3> HIDE DEF logged
    <3> QED BY <2>1, <2>3, <3>1, ReadsAll
  <2> QED BY <1>0, <1>4, <1>6, <1>10, <1>13, <2>4 DEF CompactionContent
<1>14. ASSUME NEW g \in Groups, g \notin logged, NEW i \in D, Touches(routes, i, g)
       PROVE  Based(Listing, D, g, i)
  <2>1. Stored(Listing, D, cleaned, g, i)
    BY <1>14 DEF TableData, Complete
  <2>2. CASE \E x \in Listing : x.group = g /\ x.kind = "base" /\ x.at \in D /\ i <= x.at /\ x.at < cleaned
    BY <2>2 DEF Based
  <2>3. CASE \E f \in Listing : f.group = g /\ f.at = i
    <3>1. PICK f \in Listing : f.group = g /\ f.at = i
      BY <2>3
    <3>2. CASE f.kind = "base"
      BY <1>3, <3>1, <3>2 DEF Based
    <3>3. CASE f.kind = "log"
      <4>1. PICK x0 \in Listing : x0.group = g /\ x0.kind = "base" /\ x0.at \in D
        BY <3>1, <3>3 DEF TableData, SliceHasBase
      <4>2. BasesOf(g, Listing, D) # {}
        BY <4>1 DEF BasesOf
      <4>3. PICK x \in BasesOf(g, Listing, D) : \A w \in BasesOf(g, Listing, D) : w.at <= x.at
        BY <1>2, <4>2, NewestBase
      <4>4. x \in Listing /\ x.group = g /\ x.kind = "base" /\ x.at \in D /\ x.slice = x.at /\ x.at \in Int
        BY <1>3 DEF BasesOf
      <4>5. CASE i <= x.at
        BY <4>4, <4>5 DEF Based
      <4>6. CASE x.at < i
        <5>1. x.at <= f.slice
          BY <1>3, <3>1, <4>4, <4>6 DEF TableData, Disjoint
        <5>2. f \in SliceFiles(g, Listing, D)
          <6>1. \A w \in BasesOf(g, Listing, D) : w.at <= f.slice
            BY <1>3, <4>3, <4>4, <5>1 DEF BasesOf
          <6> QED BY <1>3, <3>1, <6>1 DEF SliceFiles, Slices, BasesOf
        <5> QED BY <1>4, <1>5, <1>14, <3>1, <3>3, <5>2
      <4> QED BY <1>0, <4>4, <4>5, <4>6
    <3> QED BY <1>3, <3>2, <3>3
  <2> QED BY <2>1, <2>2, <2>3 DEF Stored
<1> HIDE DEF logged
<1>15. PendingOK(Listing, Kept, D, routes, cp)
  <2>1. \A f \in cp.source : f.at \in D /\ f.at < cp.at
    BY <1>0, <1>3, <1>6, <1>7
  <2> QED BY <1>6, <1>8, <1>12, <1>13, <1>14, <2>1 DEF PendingOK
<1>16. TableData(Listing, Kept, D, routes, cleaned, None, cp)
  <2>1. FilesAt(Listing, D, None, cp) /\ SliceHasBase(Listing, D, cp)
    BY DEF TableData, FilesAt, SliceHasBase
  <2> QED BY <1>15, <2>1 DEF TableData
<1>17. PlanOK(Planned, Kept, D, cp, e)
  <2>1. ASSUME NEW f \in Planned, NEW w \in cp.source, w.group = f.group PROVE w.slice # f.slice
    <3>1. PICK x \in Kept : x.group = f.group /\ x.kind = "base" /\ x.at \in D /\ f.slice < x.at
      BY DEF PlanOK
    <3>2. w \in SliceFiles(f.group, Listing, D)
      BY <1>4, <1>7, <2>1
    <3>3. x.at <= w.slice /\ x \in Listing /\ w \in Listing /\ f \in Listing
      BY <1>1, <3>1, <3>2 DEF SliceFiles, Slices, BasesOf
    <3> QED BY <1>3, <3>1, <3>3
  <2> QED BY <2>1 DEF PlanOK
<1> QED BY <1>6, <1>9, <1>16, <1>17 DEF cp

\* A clean that starts, or goes on, takes nothing away yet.
LEMMA CleanStarts ==
    ASSUME ClockOK, CleaningOK, NEW D \in SUBSET (1 .. last), done \subseteq D, NEW rs,
           TableData(Listing, Kept, D, rs, cleaned, None, compaction),
           compaction # None => compaction.at \in Int /\ compaction.at \notin D,
           files' = files, cleaning' \in {cleaning, CleaningAfter(D)}
    PROVE  /\ Listing' = Listing
           /\ TableData(Listing, Kept', D, rs, cleaned, None, compaction)
           /\ cleaned <= EarliestRetained(D)
           /\ cleaning' # None =>
                 /\ cleaning' \in Cleanings
                 /\ cleaned <= cleaning'.earliest /\ cleaning'.earliest <= EarliestRetained(D)
                 /\ PlanOK(cleaning'.plan, Kept', D, compaction, cleaning'.earliest)
<1>1. config \in Configs /\ D \in SUBSET Instants /\ done \in SUBSET Instants /\ cleaned \in Int
  BY ClockFacts DEF ClockOK
<1>2. /\ EarliestRetained(done) \in Nat /\ EarliestRetained(D) \in Nat /\ EarliestRetained(D) \in D \cup {0}
      /\ EarliestRetained(done) <= EarliestRetained(D)
  BY <1>1, EarliestType, EarliestGrows
<1>3. cleaned <= EarliestRetained(D)
  BY <1>1, <1>2 DEF CleaningOK
<1>4. CASE cleaning # None
  <2>1. /\ cleaning \in Cleanings /\ cleaned <= cleaning.earliest /\ cleaning.earliest <= EarliestRetained(done)
        /\ PlanOK(cleaning.plan, Kept, done, compaction, cleaning.earliest)
    BY <1>4 DEF CleaningOK
  <2>2. cleaning.earliest \in Int
    BY <2>1, HudiAssumption DEF Cleanings
  <2>3. cleaning' = cleaning \/ cleaning' = [cleaning EXCEPT !.running = TRUE]
    BY <1>4 DEF CleaningAfter
  <2>4. cleaning' \in Cleanings /\ cleaning'.plan = cleaning.plan /\ cleaning'.earliest = cleaning.earliest
        /\ cleaning' # None
    BY <2>1, <2>3, NoneAssumption DEF Cleanings
  <2>5. Planned' = Planned
    BY <1>4, <2>4 DEF Planned
  <2>6. Listing' = Listing /\ Kept' = Kept
    BY <1>4, <2>4, <2>5 DEF Listing, Kept
  <2>7. PlanOK(cleaning.plan, Kept, D, compaction, cleaning.earliest)
    BY <2>1 DEF PlanOK
  <2>8. cleaning.earliest <= EarliestRetained(D)
    BY <1>2, <2>1, <2>2
  <2> QED BY <1>3, <2>1, <2>4, <2>6, <2>7, <2>8
<1>5. CASE cleaning = None /\ cleaning' = None
  <2>1. Listing' = Listing /\ Kept' = Kept
    BY <1>5 DEF Listing, Kept, Planned
  <2> QED BY <1>3, <1>5, <2>1
<1>6. CASE cleaning = None /\ cleaning' # None
  <2> DEFINE plan == CleanPlan(D)
             e == EarliestRetained(D)
  <2>1. cleaning' = [earliest |-> e, plan |-> plan, running |-> TRUE]
    BY <1>6 DEF CleaningAfter
  <2>2. Listing = files /\ Kept = files
    BY <1>6 DEF Listing, Kept, Planned
  <2>3. plan \subseteq files /\ files \subseteq Files
    BY <2>2 DEF CleanPlan, TableData, Shaped
  <2>4. TableData(files, files, D, rs, cleaned, None, compaction)
    BY <2>2
  <2>5. PlanOK(plan, files \ plan, D, compaction, e)
    BY <1>1, <2>4, NewCleanPlan
  <2>6. TableData(files, files \ plan, D, rs, cleaned, None, compaction)
    BY <2>4, <2>5, DataOfPlan
  <2>7. e \in 0 .. MaxInstants
    <3>1. \A i \in D : i \in Int /\ 1 <= i /\ i <= MaxInstants
      BY <1>1, HudiAssumption DEF Instants
    <3>2. MaxInstants \in Nat
      BY HudiAssumption
    <3> QED BY <1>2, <3>1, <3>2
  <2> HIDE DEF plan, e
  <2>8. cleaning' \in Cleanings
    BY <2>1, <2>3, <2>7 DEF Cleanings
  <2>9. Planned' = plan
    BY <1>6, <2>1 DEF Planned
  <2>10. Listing' = files /\ Kept' = files \ plan
    BY <1>6, <2>1, <2>3, <2>9 DEF Listing, Kept
  <2>11. cleaning'.earliest = e /\ cleaning'.plan = plan /\ cleaned <= e /\ e <= e
    BY <1>2, <1>3, <2>1, <2>7 DEF e
  <2> QED BY <2>2, <2>5, <2>6, <2>8, <2>10, <2>11 DEF e
<1> QED BY <1>4, <1>5, <1>6

\* Only the completed writes say where a key is.
LEMMA PlaceAgrees ==
    ASSUME NEW D \in SUBSET Instants, NEW rs1, NEW rs2, NEW k, \A i \in D : rs1[i] = rs2[i]
    PROVE  Place(rs1, k, D) = Place(rs2, k, D)
<1>1. Routings(rs1, k, D) = Routings(rs2, k, D)
  BY DEF Routings
<1>2. Routings(rs1, k, D) \in SUBSET Instants
  BY DEF Routings
<1>3. Routings(rs1, k, D) # {} => Newest(Routings(rs1, k, D)) \in Routings(rs1, k, D)
  BY <1>2, NewestOf
<1>4. Routings(rs1, k, D) # {} => Newest(Routings(rs1, k, D)) \in D
  BY <1>3 DEF Routings
<1> QED BY <1>1, <1>4 DEF Place

LEMMA KeyRowAgrees ==
    ASSUME NEW D \in SUBSET Instants, NEW bs1, NEW bs2, NEW k, \A i \in D : bs1[i] = bs2[i]
    PROVE  KeyRow(bs1, k, D) = KeyRow(bs2, k, D)
<1>1. KeyWrites(bs1, k, D) = KeyWrites(bs2, k, D)
  BY DEF KeyWrites
<1>2. KeyWrites(bs1, k, D) \in SUBSET Instants
  BY DEF KeyWrites
<1>3. KeyWrites(bs1, k, D) # {} => Newest(KeyWrites(bs1, k, D)) \in KeyWrites(bs1, k, D)
  BY <1>2, NewestOf
<1>4. KeyWrites(bs1, k, D) # {} => Newest(KeyWrites(bs1, k, D)) \in D
  BY <1>3 DEF KeyWrites
<1> QED BY <1>1, <1>4 DEF KeyRow

LEMMA AgreeAgrees ==
    ASSUME NEW D \in SUBSET Instants, NEW rs1, NEW rs2, NEW bs1, NEW bs2, Agree(rs1, bs1, D),
           \A i \in D : rs1[i] = rs2[i] /\ bs1[i] = bs2[i]
    PROVE  Agree(rs2, bs2, D)
<1> SUFFICES ASSUME NEW t \in Int, NEW k \in Keys
             PROVE  /\ Place(rs2, k, UpTo(D, t)) = None <=> KeyRow(bs2, k, UpTo(D, t)) = None
                    /\ \A g \in Groups :
                          Row(rs2, g, k, UpTo(D, t)) =
                              IF Place(rs2, k, UpTo(D, t)) = g THEN KeyRow(bs2, k, UpTo(D, t)) ELSE None
  BY DEF Agree
<1> DEFINE E == UpTo(D, t)
<1>1. E \in SUBSET Instants /\ \A i \in E : rs1[i] = rs2[i] /\ bs1[i] = bs2[i]
  BY DEF UpTo
<1>2. /\ Place(rs1, k, E) = None <=> KeyRow(bs1, k, E) = None
      /\ \A g \in Groups : Row(rs1, g, k, E) = IF Place(rs1, k, E) = g THEN KeyRow(bs1, k, E) ELSE None
  BY DEF Agree
<1> HIDE DEF E
<1>3. Place(rs1, k, E) = Place(rs2, k, E) /\ KeyRow(bs1, k, E) = KeyRow(bs2, k, E)
  BY <1>1, PlaceAgrees, KeyRowAgrees
<1>4. \A g \in Groups : Row(rs1, g, k, E) = Row(rs2, g, k, E)
  BY <1>1, RowAgrees
<1> QED BY <1>2, <1>3, <1>4 DEF E

\* A key that is somewhere has a row there.
LEMMA LocationFacts ==
    ASSUME TableInv, NEW k \in Keys
    PROVE  /\ Location(k) = Place(routes, k, done)
           /\ Location(k) # None =>
                 /\ Location(k) \in Groups /\ Location(k).part = PartitionOf[k] /\ Location(k).from <= last
                 /\ Row(routes, Location(k), k, done) # None
                 /\ \E i \in done : Touches(routes, i, Location(k))
<1>1. ClockOK
  BY DEF TableInv
<1>2. /\ done \in SUBSET Instants /\ last \in Int /\ UpTo(done, last) = done
      /\ \A i \in done : i \in Int /\ i <= last
  BY <1>1, ClockFacts
<1>3. Location(k) = Place(routes, k, done)
  BY DEF Location, Place, Routings
<1>4. ASSUME Location(k) # None
      PROVE  /\ Location(k) \in Groups /\ Location(k).part = PartitionOf[k] /\ Location(k).from <= last
             /\ Row(routes, Location(k), k, done) # None
             /\ \E i \in done : Touches(routes, i, Location(k))
  <2> DEFINE is == Routings(routes, k, done)
             i == Newest(is)
  <2>1. is # {} /\ Location(k) = routes[i][k].group
    BY <1>3, <1>4 DEF Place
  <2>2. is \in SUBSET Instants
    BY <1>2 DEF Routings
  <2> HIDE DEF is
  <2>3. i \in is
    BY <2>1, <2>2, NewestOf
  <2> HIDE DEF i
  <2>4. i \in done /\ routes[i] # None /\ k \in DOMAIN routes[i] /\ i \in Instants
    BY <1>2, <2>3 DEF is, Routings
  <2>5. /\ routes[i][k].group \in Groups /\ routes[i][k].group.part = PartitionOf[k]
        /\ routes[i][k].group.from <= i
    BY <1>1, <2>4, RouteFacts
  <2>6. routes[i][k].group.from <= last
    <3>1. routes[i][k].group.from \in Int
      BY <2>5, HudiAssumption DEF Groups, Instants
    <3> QED BY <1>2, <2>4, <2>5, <3>1
  <2>7. Row(routes, Location(k), k, done) # None
    <3>1. /\ Place(routes, k, done) = None <=> KeyRow(batches, k, done) = None
          /\ \A g \in Groups : Row(routes, g, k, done) =
                IF Place(routes, k, done) = g THEN KeyRow(batches, k, done) ELSE None
      BY <1>1, <1>2 DEF ClockOK, Agree
    <3> QED BY <1>3, <1>4, <2>1, <2>5, <3>1
  <2>8. Touches(routes, i, Location(k))
    BY <2>1, <2>4 DEF Touches, KeysAt
  <2> QED BY <2>1, <2>4, <2>5, <2>6, <2>7, <2>8
<1> QED BY <1>3, <1>4

\* Where new keys may go can take a base file.
LEMMA InsertGroupFacts ==
    ASSUME TableInv, upsert = None, last + 1 \in Instants, NEW p \in Partitions, NEW g \in InsertGroups(p)
    PROVE  g \in Groups /\ g.part = p /\ g.from <= last + 1 /\ Paddable(g)
<1>1. /\ last \in Int /\ (\A f \in Listing : f.at <= last)
      /\ \A f \in files : f \in Listing /\ f.group \in Groups /\ f.group.from \in Int /\ f.group.from <= last
  <2>1. last \in Int /\ \A i \in done : i <= last
    BY ClockFacts DEF TableInv
  <2>2. \A f \in Listing : f.at <= last /\ f.at \in Int
    BY <2>1, CompactionFacts, ListingFacts DEF TableInv, TableData, FilesAt
  <2>3. ASSUME NEW f \in files
        PROVE  f \in Listing /\ f.group \in Groups /\ f.group.from \in Int /\ f.group.from <= last
    <3>1. f \in Listing /\ f.group \in Groups /\ f.group.from <= f.at
      BY ListingFacts DEF Shaped
    <3>2. f.group.from \in Int
      BY <3>1, HudiAssumption DEF Groups, Instants
    <3> QED BY <2>1, <2>2, <3>1, <3>2
  <2> QED BY <2>1, <2>2, <2>3
<1>2. CASE g \in {f.group : f \in files} /\ g.part = p /\ Paddable(g)
  BY <1>1, <1>2
<1>3. CASE g = [part |-> p, from |-> last + 1]
  <2>1. g \in Groups /\ g.part = p /\ g.from = last + 1
    BY <1>3 DEF Groups
  <2>2. \A f \in files : f.group # g
    BY <1>1, <2>1
  <2>3. SliceFiles(g, files, Visible) = {}
    BY <2>2 DEF SliceFiles, Slices
  <2>4. ~InCompaction(g)
    <3>1. SUFFICES ASSUME compaction # None, g \in GroupsOf(compaction) PROVE FALSE
      BY DEF InCompaction, GroupsOf
    <3>2. \E x \in Kept : x.group = g
      BY <3>1 DEF TableInv, TableData, PendingOK, SourceOK
    <3> QED BY <2>2, <3>2, ListingFacts
  <2> QED BY <1>1, <2>1, <2>3, <2>4 DEF Paddable
<1> QED BY <1>2, <1>3 DEF InsertGroups

\* A write sends each key where it is, and new keys where a base file can take them.
LEMMA RoutedFacts ==
    ASSUME TableInv, upsert = None, last + 1 \in Instants,
           NEW b \in Batches, NEW target \in Targets, NEW route, route = Routed(b, target)
    PROVE  /\ route \in Routes /\ RouteTyped(route, b, last + 1)
           /\ \A k \in DOMAIN route : route[k].group \in Groups
           /\ \A k \in Keys : KeyRouted(route, b, k, Place(routes, k, done))
           /\ \A k \in DOMAIN route :
                 Row(routes, route[k].group, k, done) = None => route[k].group \in Rebased(route)
           /\ compaction # None => \A g \in Rebased(route) : g \notin GroupsOf(compaction)
           /\ \A g \in RoutedTo(route) \ Rebased(route) : Based(Listing, done, g, 0)
<1>1. /\ DOMAIN b \subseteq Keys /\ b # None
      /\ \A k \in DOMAIN b : b[k] \in {"u", "d"}
      /\ \A k \in Keys : PartitionOf[k] \in Partitions
  BY HudiAssumption, NoneAssumption
<1>2. /\ DOMAIN route = {x \in DOMAIN b : b[x] = "u" \/ Location(x) # None}
      /\ \A k \in DOMAIN route :
            /\ k \in DOMAIN b /\ k \in Keys
            /\ route[k] = [op |-> b[k], group |-> IF Location(k) # None THEN Location(k) ELSE target[PartitionOf[k]]]
      /\ route = [k \in DOMAIN route |-> route[k]]
  BY <1>1 DEF Routed
<1>3. ASSUME NEW k \in DOMAIN route
      PROVE  /\ k \in Keys /\ route[k].op = b[k] /\ b[k] \in {"u", "d"}
             /\ Location(k) # None => route[k].group = Location(k)
             /\ Location(k) = None => route[k].group \in InsertGroups(PartitionOf[k])
  <2>1. target[PartitionOf[k]] \in InsertGroups(PartitionOf[k])
    BY <1>1, <1>2 DEF Targets
  <2>2. k \in Keys /\ k \in DOMAIN b
        /\ route[k] = [op |-> b[k], group |-> IF Location(k) # None THEN Location(k) ELSE target[PartitionOf[k]]]
    BY <1>2
  <2>3. route[k].op = b[k] /\ b[k] \in {"u", "d"}
        /\ route[k].group = IF Location(k) # None THEN Location(k) ELSE target[PartitionOf[k]]
    BY <1>1, <2>2
  <2> QED BY <2>1, <2>2, <2>3
<1>4. ASSUME NEW k \in DOMAIN route
      PROVE  /\ route[k].group \in Groups /\ route[k].group.part = PartitionOf[k]
             /\ route[k].group.from <= last + 1
             /\ Location(k) = None => Paddable(route[k].group)
  <2>1. CASE Location(k) # None
    <3>1. /\ Location(k) \in Groups /\ Location(k).part = PartitionOf[k] /\ Location(k).from <= last
      BY <1>3, <2>1, LocationFacts
    <3>2. Location(k).from \in Int /\ last \in Int
      BY <3>1, ClockFacts, HudiAssumption DEF Groups, Instants, TableInv
    <3>3. Location(k).from <= last + 1
      BY <3>1, <3>2
    <3> QED BY <1>3, <2>1, <3>1, <3>3
  <2>2. CASE Location(k) = None
    <3>1. PartitionOf[k] \in Partitions /\ route[k].group \in InsertGroups(PartitionOf[k])
      BY <1>1, <1>3, <2>2
    <3> QED BY <3>1, InsertGroupFacts
  <2> QED BY <2>1, <2>2
<1>5. route \in Routes
  <2>1. ASSUME NEW k \in DOMAIN route PROVE route[k] \in [op : {"u", "d"}, group : Groups]
    <3> DEFINE at == IF Location(k) # None THEN Location(k) ELSE target[PartitionOf[k]]
    <3>1. route[k] = [op |-> b[k], group |-> at]
      BY <1>2
    <3> HIDE DEF at
    <3>2. route[k].op = b[k] /\ route[k].group = at
      BY <3>1
    <3>3. b[k] \in {"u", "d"} /\ at \in Groups
      BY <1>3, <1>4, <3>2
    <3> QED BY <3>1, <3>3
  <2>2. route \in [DOMAIN route -> [op : {"u", "d"}, group : Groups]] /\ DOMAIN route \in SUBSET Keys
    BY <1>2, <2>1
  <2> QED BY <2>2 DEF Routes
<1>6. RouteTyped(route, b, last + 1)
  BY <1>1, <1>4, <1>5, NoneAssumption DEF RouteTyped
<1>7. ASSUME NEW k \in Keys PROVE KeyRouted(route, b, k, Place(routes, k, done))
  <2>1. Location(k) = Place(routes, k, done)
    BY LocationFacts
  <2> QED BY <1>2, <1>3, <2>1 DEF KeyRouted
<1>8. ASSUME NEW k \in DOMAIN route, Location(k) = None PROVE route[k].group \in Rebased(route)
  BY <1>4, <1>8 DEF Rebased, RoutedTo
<1>9. ASSUME NEW k \in DOMAIN route, Row(routes, route[k].group, k, done) = None
      PROVE  route[k].group \in Rebased(route)
  BY <1>3, <1>8, <1>9, LocationFacts
<1>10. ASSUME compaction # None, NEW g \in Rebased(route) PROVE g \notin GroupsOf(compaction)
  BY <1>10, CompactionFacts DEF Rebased, Paddable, InCompaction, GroupsOf
<1>11. ASSUME NEW g \in RoutedTo(route) \ Rebased(route) PROVE Based(Listing, done, g, 0)
  <2>1. PICK k \in DOMAIN route : route[k].group = g
    BY DEF RoutedTo
  <2>2. Location(k) # None /\ g = Location(k) /\ g \in Groups /\ k \in Keys
    BY <1>3, <1>4, <1>8, <2>1
  <2>3. PICK i \in done : Touches(routes, i, g)
    BY <2>2, LocationFacts
  <2>4. BasesOf(g, Listing, done) # {}
    <3>1. /\ done \in SUBSET Instants /\ cleaned \in Int /\ last \in Int /\ cleaned <= last
          /\ UpTo(done, last) = done
      BY ClockFacts DEF TableInv, ClockOK
    <3>2. History(Listing, done, routes, cleaned)
      BY ListingFacts
    <3>3. \A f \in Listing : f.at \in done <=> f.at \in UpTo(done, last)
      BY <3>1
    <3> SUFFICES ASSUME BasesOf(g, Listing, done) = {} PROVE FALSE
      OBVIOUS
    <3>4. \A j \in UpTo(done, last) : ~Touches(routes, j, g)
      BY <2>2, <3>1, <3>2, <3>3, NothingThere
    <3> QED BY <2>3, <3>1, <3>4
  <2>5. PICK x \in Listing : x.group = g /\ x.kind = "base" /\ x.at \in done
    BY <2>4 DEF BasesOf
  <2> QED BY <2>5, ClockFacts DEF Based, TableInv
<1> QED BY <1>4, <1>5, <1>6, <1>7, <1>9, <1>10, <1>11

\* A write starts.
LEMMA StartUpsertStep ==
    ASSUME TableInv, NEW b \in Batches, NEW target \in Targets, StartUpsert(b, target)
    PROVE  TableInv' /\ Listing' = Listing
<1> USE DEF TableInv
<1> DEFINE route == Routed(b, target)
<1>1. /\ upsert = None /\ last < MaxInstants /\ last' = last + 1
      /\ upsert' = [at |-> last + 1, todo |-> RoutedTo(route), bases |-> Rebased(route), alive |-> TRUE]
      /\ routes' = [routes EXCEPT ![last + 1] = route]
      /\ batches' = [batches EXCEPT ![last + 1] = b]
      /\ cleaning' = IF config.clean = "async" THEN CleaningAfter(done) ELSE cleaning
      /\ UNCHANGED <<config, done, archived, files, compaction, cleaned, query, crashes>>
  BY DEF StartUpsert
<1> DEFINE u == last + 1
<1>2. /\ last \in Int /\ 0 <= last /\ u \in Int /\ u \in Instants /\ last < u
      /\ \A i \in done : i \in Int /\ i <= last
      /\ done \subseteq 1 .. last /\ archived \in Int /\ archived <= last /\ cleaned <= last
      /\ done \in SUBSET Instants /\ \A i \in done : i # u
  BY <1>1, ClockFacts, HudiAssumption DEF ClockOK, Instants
<1>3. /\ route \in Routes /\ RouteTyped(route, b, u)
      /\ \A k \in DOMAIN route : route[k].group \in Groups
      /\ \A k \in Keys : KeyRouted(route, b, k, Place(routes, k, done))
      /\ \A k \in DOMAIN route :
            Row(routes, route[k].group, k, done) = None => route[k].group \in Rebased(route)
      /\ compaction # None => \A g \in Rebased(route) : g \notin GroupsOf(compaction)
      /\ \A g \in RoutedTo(route) \ Rebased(route) : Based(Listing, done, g, 0)
  <2>1. TableInv /\ last + 1 \in Instants
    BY <1>2
  <2> HIDE DEF TableInv
  <2> QED BY <1>1, <2>1, RoutedFacts
<1> HIDE DEF u, route
<1>4. upsert' \in Upserts /\ upsert'.at = u /\ upsert'.todo = RoutedTo(route) /\ upsert' # None
      /\ upsert'.bases = Rebased(route)
  <2> DEFINE todo == RoutedTo(route)
             bases == Rebased(route)
  <2>1. todo \in SUBSET Groups /\ bases \in SUBSET Groups
        /\ upsert' = [at |-> u, todo |-> todo, bases |-> bases, alive |-> TRUE]
    BY <1>1, <1>3 DEF u, RoutedTo, Rebased
  <2> HIDE DEF todo, bases
  <2>2. upsert' \in Upserts
    BY <1>2, <2>1 DEF Upserts
  <2>3. upsert' # None
    BY <2>2, NoneAssumption
  <2>4. upsert'.at = u /\ upsert'.todo = todo /\ upsert'.bases = bases
    BY <2>1
  <2> QED BY <2>2, <2>3, <2>4 DEF todo, bases
<1>5. compaction # None => compaction.at \in Int /\ compaction.at <= last /\ compaction.at \notin done
  BY CompactionFacts
<1>6. \A f \in Listing : f.at \in Int /\ f.at <= last
  BY <1>1, <1>2, <1>5 DEF TableData, FilesAt
<1>7. /\ routes'[u] = route /\ batches'[u] = b
      /\ \A i \in Instants : i # u => routes'[i] = routes[i] /\ batches'[i] = batches[i]
      /\ routes' \in [Instants -> Routes \cup {None}]
      /\ batches' \in [Instants -> Batches \cup {None}]
  BY <1>1, <1>2, <1>3 DEF ClockOK, u
<1>8. /\ \A i \in done : routes[i] = routes'[i] /\ batches[i] = batches'[i]
      /\ \A f \in Listing : routes'[f.at] = routes[f.at]
  <2>1. \A f \in Listing : f.at \in Instants /\ f.at # u
    BY <1>2, <1>6, ListingFacts
  <2>2. \A i \in done : i \in Instants /\ i # u
    BY <1>2
  <2> QED BY <1>7, <2>1, <2>2
<1>9. /\ Listing' = Listing
      /\ TableData(Listing, Kept', done, routes, cleaned, None, compaction)
      /\ cleaned <= EarliestRetained(done)
      /\ cleaning' # None =>
            /\ cleaning' \in Cleanings
            /\ cleaned <= cleaning'.earliest /\ cleaning'.earliest <= EarliestRetained(done)
            /\ PlanOK(cleaning'.plan, Kept', done, compaction, cleaning'.earliest)
  <2>1. TableData(Listing, Kept, done, routes, cleaned, None, compaction)
    BY <1>1
  <2>2. cleaning' \in {cleaning, CleaningAfter(done)} /\ files' = files /\ done \in SUBSET (1 .. last)
    BY <1>1, <1>2
  <2> QED BY <1>5, <2>1, <2>2, CleanStarts
<1>10. TableData(Listing', Kept', done', routes', cleaned', upsert', compaction')
  <2>1. TableData(Listing, Kept', done, routes', cleaned, upsert', compaction)
    BY <1>2, <1>8, <1>9, DataOfNewBatch
  <2> QED BY <1>1, <1>9, <2>1
<1>11. UpsertOK'
  <2>1. ASSUME NEW q \in Groups, Touches(routes', u, q) PROVE q \in upsert'.todo
    BY <1>4, <1>7, <2>1 DEF Touches, KeysAt, RoutedTo
  <2>2. last' = u /\ u \notin done /\ archived < u /\ batches'[u] # None
    <3>1. u \notin done /\ archived < u
      BY <1>2
    <3> QED BY <1>1, <1>7, <3>1, NoneAssumption DEF u
  <2>3. compaction # None => compaction.at < u
    BY <1>2, <1>5
  <2>4. ASSUME NEW k \in Keys PROVE KeyRouted(routes'[u], batches'[u], k, Place(routes', k, done))
    <3>1. Place(routes, k, done) = Place(routes', k, done)
      BY <1>2, <1>8, PlaceAgrees
    <3> QED BY <1>3, <1>7, <3>1
  <2>5. ASSUME NEW q \in Groups, NEW k \in Keys, Inserts(routes', q, k, u, done) PROVE q \in upsert'.bases
    <3>0. k \in KeysAt(routes', u, q) /\ Row(routes', q, k, {j \in done : j < u}) = None
      BY <2>5 DEF Inserts
    <3>1. k \in DOMAIN route /\ route[k].group = q /\ Row(routes', q, k, {j \in done : j < u}) = None
      BY <1>7, <3>0 DEF KeysAt
    <3>2. {j \in done : j < u} = done
      <4>1. \A j \in done : j < u
        BY <1>2
      <4> QED BY <4>1
    <3>3. Row(routes, q, k, done) = Row(routes', q, k, done)
      BY <1>2, <1>8, RowAgrees
    <3> QED BY <1>3, <1>4, <3>1, <3>2, <3>3
  <2>6. /\ upsert'.todo \subseteq RoutedTo(routes'[u])
        /\ \A q \in upsert'.todo \cap upsert'.bases : compaction # None => q \notin GroupsOf(compaction)
        /\ \A q \in upsert'.todo \ upsert'.bases : Based(Listing, done, q, 0)
    BY <1>3, <1>4, <1>7
  <2>7. UNCHANGED <<done, archived, compaction>> /\ Listing' = Listing
    BY <1>1, <1>9
  <2> QED BY <1>4, <2>1, <2>2, <2>3, <2>4, <2>5, <2>6, <2>7 DEF UpsertOK
<1>12. CompactionOK'
  <2>1. ASSUME compaction # None PROVE compaction.at \in 1 .. u /\ routes'[compaction.at] = None
    <3>1. compaction.at # u /\ compaction.at \in Instants /\ 1 <= compaction.at /\ compaction.at <= u
      BY <1>2, <1>5, <2>1, CompactionFacts
    <3> QED BY <1>2, <1>5, <1>7, <2>1, <3>1, CompactionFacts
  <2> QED BY <1>1, <2>1 DEF CompactionOK, u
<1>13. CleaningOK'
  <2>1. EarliestRetained(done)' = EarliestRetained(done)
    BY <1>1, SameWindow
  <2> QED BY <1>1, <1>9, <2>1 DEF CleaningOK
<1>14. ClockOK'
  <2>1. last' = u /\ u \in 0 .. MaxInstants /\ done \subseteq 1 .. u
    BY <1>1, <1>2, HudiAssumption DEF u, Instants
  <2>2. archived \in 0 .. u /\ cleaned \in 0 .. u
    BY <1>2 DEF ClockOK
  <2>3. \A i \in Instants : u < i => batches'[i] = None
    <3>1. \A i \in Instants : i \in Int
      BY HudiAssumption DEF Instants
    <3>2. \A i \in Instants : u < i => last < i /\ i # u
      BY <1>2, <3>1
    <3> QED BY <1>7, <3>2 DEF ClockOK
  <2>4. ASSUME NEW i \in Instants PROVE RouteTyped(routes'[i], batches'[i], i)
    BY <1>3, <1>7 DEF ClockOK
  <2>5. Agree(routes', batches', done)
    BY <1>2, <1>8, AgreeAgrees DEF ClockOK
  <2> QED BY <1>1, <1>7, <2>1, <2>2, <2>3, <2>4, <2>5 DEF ClockOK
<1> QED BY <1>9, <1>10, <1>11, <1>12, <1>13, <1>14

\* A compaction is scheduled by a call: its slices are those a clean leaves.
LEMMA ScheduleByCallStep ==
    ASSUME TableInv, ScheduleByCall PROVE TableInv'
<1> USE DEF TableInv
<1>1. /\ config.type = "MERGE_ON_READ" /\ upsert = None /\ compaction = None /\ last < MaxInstants
      /\ compaction' = CompactionPlan(done) /\ last' = last + 1
      /\ UNCHANGED <<config, done, archived, files, upsert, cleaning, cleaned, query, crashes, batches, routes>>
  BY DEF ScheduleByCall
<1> DEFINE u == last + 1
<1>2. /\ last \in Int /\ 0 <= last /\ u \in Int /\ u \in Instants /\ last < u /\ last' = u
      /\ done \in SUBSET (1 .. last) /\ archived \in Int /\ archived <= last /\ cleaned \in Int /\ cleaned <= last
  BY <1>1, ClockFacts, HudiAssumption DEF ClockOK, Instants
<1> HIDE DEF u
<1>3. routes[u] = None
  BY <1>2 DEF ClockOK, RouteTyped
<1> DEFINE e == IF cleaning = None THEN 0 ELSE cleaning.earliest
<1>4. PlanOK(Planned, Kept, done, None, e)
  BY <1>1 DEF CleaningOK, Planned, PlanOK
<1> HIDE DEF e
<1>5. /\ compaction' \in Compactions /\ compaction'.at = u
      /\ TableData(Listing, Kept, done, routes, cleaned, None, compaction')
      /\ PlanOK(Planned, Kept, done, compaction', e)
  <2>1. TableData(Listing, Kept, done, routes, cleaned, None, None)
    BY <1>1
  <2>2. last + 1 \in Instants
    BY <1>2 DEF u
  <2> QED BY <1>1, <1>2, <1>4, <2>1, <2>2, NewCompactionPlan DEF u
<1>6. Listing' = Listing /\ Kept' = Kept
  BY <1>1 DEF Listing, Kept, Planned
<1>7. TableData(Listing', Kept', done', routes', cleaned', upsert', compaction')
  BY <1>1, <1>5, <1>6
<1>8. UpsertOK'
  BY <1>1 DEF UpsertOK
<1>9. CompactionOK'
  <2>1. u \in 1 .. u /\ u \notin done /\ archived < u
    BY <1>2
  <2> QED BY <1>1, <1>2, <1>3, <1>5, <2>1 DEF CompactionOK
<1>10. CleaningOK'
  <2>1. EarliestRetained(done)' = EarliestRetained(done)
    BY <1>1, SameWindow
  <2>2. cleaning # None => PlanOK(cleaning.plan, Kept, done, compaction', cleaning.earliest)
    BY <1>5 DEF e, Planned
  <2> QED BY <1>1, <1>6, <2>1, <2>2 DEF CleaningOK
<1>11. ClockOK'
  <2>1. u \in 0 .. MaxInstants /\ done \subseteq 1 .. u
    BY <1>1, <1>2, HudiAssumption DEF u, Instants
  <2>2. archived \in 0 .. u /\ cleaned \in 0 .. u
    BY <1>2 DEF ClockOK
  <2>3. \A i \in Instants : u < i => batches[i] = None
    <3>1. \A i \in Instants : i \in Int
      BY HudiAssumption DEF Instants
    <3>2. \A i \in Instants : u < i => last < i
      BY <1>2, <3>1
    <3> QED BY <3>2 DEF ClockOK
  <2> QED BY <1>1, <1>2, <2>1, <2>2, <2>3 DEF ClockOK
<1> QED BY <1>7, <1>8, <1>9, <1>10, <1>11

\* Archival never reaches what is pending.
LEMMA ArchivedFacts ==
    ASSUME TableInv, NEW D \in SUBSET (1 .. last)
    PROVE  /\ ArchivedAfter(D) \in 0 .. last
           /\ compaction # None => ArchivedAfter(D) < compaction.at
<1> USE DEF TableInv
<1> DEFINE active == {i \in D : i > archived}
           pending == IF compaction = None THEN {} ELSE {compaction.at}
           S == {archived} \cup {i \in active : /\ Cardinality({j \in active : j > i}) >= KeepMin
                                                /\ \A j \in pending : i < j}
<1>1. ArchivedAfter(D) \in {archived, Newest(S)}
  BY DEF ArchivedAfter
<1>2. last \in Int /\ archived \in 0 .. last /\ \A i \in D : i \in 1 .. last
  BY ClockFacts DEF ClockOK
<1>3. compaction # None => \A i \in S : i < compaction.at
  <2>1. compaction # None => archived < compaction.at
    BY DEF CompactionOK
  <2> QED BY <2>1
<1>4. archived \in S /\ \A i \in S : i = archived \/ i \in D
  OBVIOUS
<1> HIDE DEF S
<1>5. S \in SUBSET (0 .. last) /\ archived \in S
  BY <1>2, <1>4
<1>6. Newest(S) \in S
  <2>1. S \in SUBSET Int /\ S # {} /\ \A x \in S : x <= last
    BY <1>2, <1>5
  <2> QED BY <1>2, <2>1, NewestInt
<1>7. ArchivedAfter(D) \in S
  BY <1>1, <1>5, <1>6
<1> QED BY <1>3, <1>5, <1>7

\* A commit, with the clean, the archival and the compaction that the options put
\* behind it.
LEMMA CompleteUpsertStep ==
    ASSUME TableInv, CompleteUpsert PROVE TableInv' /\ Listing' = Listing
<1> USE DEF TableInv
<1> DEFINE D == done \cup {upsert.at}
<1>1. /\ upsert # None /\ upsert.alive /\ upsert.todo = {}
      /\ done' = D
      /\ cleaning' = IF config.clean = "sync" THEN CleaningAfter(D) ELSE cleaning
      /\ archived' = ArchivedAfter(D)
      /\ compaction' = IF CompactionDue(D) THEN CompactionPlan(D) ELSE compaction
      /\ last' = IF CompactionDue(D) THEN last + 1 ELSE last
      /\ upsert' = None
      /\ UNCHANGED <<config, files, cleaned, query, crashes, batches, routes>>
  BY DEF CompleteUpsert
<1>2. /\ upsert.at = last /\ last \in Instants /\ last \notin done /\ \A i \in done : i < last
      /\ routes[last] # None /\ batches[last] # None
      /\ compaction # None => compaction.at < last
  BY <1>1, UpsertFacts
<1>3. /\ last \in Int /\ 0 <= last /\ last \in 1 .. last /\ last <= MaxInstants /\ MaxInstants \in Int
      /\ archived \in Int /\ cleaned \in Int /\ cleaned <= last
  BY <1>2, ClockFacts, HudiAssumption DEF ClockOK, Instants
<1>4. D = done \cup {last} /\ done \subseteq D /\ D \in SUBSET (1 .. last) /\ D \in SUBSET Instants
  BY <1>2, <1>3, ClockFacts DEF ClockOK
<1> HIDE DEF D
<1>5. compaction # None => compaction.at \in Instants /\ compaction.at \in Int /\ compaction.at \notin D
  BY <1>2, <1>4, CompactionFacts
<1>6. TableData(Listing, Kept, D, routes, cleaned, None, compaction)
  <2>1. \A g \in Groups : Touches(routes, last, g) => \E f \in Listing : f.group = g /\ f.at = last
    BY <1>1 DEF UpsertOK
  <2>2. done \in SUBSET Instants
    BY ClockFacts
  <2>3. compaction # None => compaction.at < last /\ compaction.at \in Instants
    BY <1>2, <1>5
  <2>4. ASSUME NEW g \in Groups, NEW k \in Keys, Inserts(routes, g, k, last, done)
        PROVE  \E f \in Listing : f.group = g /\ f.at = last /\ f.kind = "base"
    <3>1. g \in upsert.bases
      BY <1>1, <2>4 DEF UpsertOK
    <3>2. Touches(routes, last, g)
      BY <2>4 DEF Inserts, Touches
    <3> QED BY <1>1, <3>1, <3>2 DEF UpsertOK
  <2>5. TableData(Listing, Kept, done, routes, cleaned, upsert, compaction)
    OBVIOUS
  <2>6. TableData(Listing, Kept, done \cup {last}, routes, cleaned, None, compaction)
    <3> HIDE DEF TableInv
    <3> QED BY <1>2, <2>1, <2>2, <2>3, <2>4, <2>5, DataOfCommit
  <2> QED BY <1>4, <2>6
<1>7. Agree(routes, batches, D)
  <2>1. Agree(routes, batches, done) /\ \A k \in DOMAIN batches[last] : batches[last][k] \in {"u", "d"}
    <3>1. batches[last] \in Batches
      BY <1>1, UpsertFacts
    <3> QED BY <3>1, HudiAssumption DEF ClockOK
  <2>2. \A k \in Keys : KeyRouted(routes[last], batches[last], k, Place(routes, k, done))
    BY <1>1 DEF UpsertOK
  <2>3. \A k \in DOMAIN routes[last] : routes[last][k].group \in Groups
    BY <1>2, RouteFacts
  <2>4. done \in SUBSET Instants
    BY ClockFacts
  <2>5. Agree(routes, batches, done \cup {last})
    BY <1>2, <2>1, <2>2, <2>3, <2>4, AgreeAfterCommit
  <2> QED BY <1>4, <2>5
<1>8. EarliestRetained(D)' = EarliestRetained(D') /\ EarliestRetained(done)' = EarliestRetained(D)
  BY <1>1 DEF EarliestRetained
<1>9. UpsertOK'
  BY <1>1 DEF UpsertOK
<1>10. /\ ArchivedAfter(D) \in 0 .. last
       /\ compaction # None => ArchivedAfter(D) < compaction.at
  BY <1>4, ArchivedFacts
<1>11. CASE CompactionDue(D)
  <2>1. /\ config.type = "MERGE_ON_READ" /\ compaction = None /\ last < MaxInstants
        /\ compaction' = CompactionPlan(D) /\ last' = last + 1
    BY <1>1, <1>11 DEF CompactionDue
  <2>2. cleaning' = cleaning
    BY <1>1, <2>1, ConfigFields DEF ClockOK
  <2> DEFINE u == last + 1
             e == IF cleaning = None THEN 0 ELSE cleaning.earliest
  <2>3. u \in Instants /\ u \in Int /\ last < u /\ u \notin D /\ 1 <= u /\ u <= MaxInstants
    BY <1>3, <1>4, <2>1 DEF Instants
  <2>4. PlanOK(Planned, Kept, D, None, e)
    BY <1>4, <2>1 DEF CleaningOK, Planned, PlanOK
  <2> HIDE DEF u, e
  <2>5. last' = u /\ last + 1 \in Instants
    BY <2>1, <2>3 DEF u
  <2>6. routes[u] = None
    BY <2>3 DEF ClockOK, RouteTyped
  <2>7. /\ compaction' \in Compactions /\ compaction'.at = u
        /\ TableData(Listing, Kept, D, routes, cleaned, None, compaction')
        /\ PlanOK(Planned, Kept, D, compaction', e)
    BY <1>3, <1>4, <1>6, <2>1, <2>4, <2>5, NewCompactionPlan DEF u
  <2>8. Listing' = Listing /\ Kept' = Kept
    BY <1>1, <2>2 DEF Listing, Kept, Planned
  <2>9. TableData(Listing', Kept', done', routes', cleaned', upsert', compaction')
    BY <1>1, <2>7, <2>8
  <2>10. CompactionOK'
    <3>1. u \in 1 .. u /\ archived' < u
      BY <1>1, <1>3, <1>10, <2>3
    <3> QED BY <1>1, <2>1, <2>3, <2>5, <2>6, <2>7, <3>1 DEF CompactionOK
  <2>11. CleaningOK'
    <3>1. EarliestRetained(done) <= EarliestRetained(D) /\ EarliestRetained(done) \in Int /\ EarliestRetained(D) \in Int
      <4>1. config \in Configs /\ done \in SUBSET Instants
        BY ClockFacts DEF ClockOK
      <4>2. EarliestRetained(done) <= EarliestRetained(D)
        BY <1>4, <4>1, EarliestGrows
      <4>3. EarliestRetained(done) \in Nat /\ EarliestRetained(D) \in Nat
        BY <1>4, <4>1, EarliestType
      <4> QED BY <4>2, <4>3
    <3>2. cleaning # None => /\ cleaning \in Cleanings
                             /\ cleaned <= cleaning.earliest /\ cleaning.earliest <= EarliestRetained(D)
      <4>1. cleaning # None => /\ cleaning \in Cleanings
                               /\ cleaned <= cleaning.earliest /\ cleaning.earliest <= EarliestRetained(done)
        BY DEF CleaningOK
      <4>2. cleaning # None => cleaning.earliest \in Int
        BY <4>1, HudiAssumption DEF Cleanings
      <4> QED BY <3>1, <4>1, <4>2
    <3>3. cleaned <= EarliestRetained(D)
      BY <1>3, <3>1 DEF CleaningOK
    <3>4. cleaning # None => PlanOK(cleaning.plan, Kept, D, compaction', cleaning.earliest)
      BY <2>7 DEF e, Planned
    <3> QED BY <1>1, <1>8, <2>2, <2>8, <3>2, <3>3, <3>4 DEF CleaningOK
  <2>12. ClockOK'
    <3>1. u \in 0 .. MaxInstants /\ D \subseteq 1 .. u
      BY <1>3, <1>4, <2>3
    <3>2. archived' \in 0 .. u /\ cleaned \in 0 .. u
      BY <1>1, <1>3, <1>10, <2>3 DEF ClockOK
    <3>3. \A i \in Instants : u < i => batches[i] = None
      <4>1. \A i \in Instants : i \in Int
        BY HudiAssumption DEF Instants
      <4>2. \A i \in Instants : u < i => last < i
        BY <1>3, <2>3, <4>1
      <4> QED BY <4>2 DEF ClockOK
    <3> QED BY <1>1, <1>7, <2>5, <3>1, <3>2, <3>3 DEF ClockOK
  <2> QED BY <1>9, <2>8, <2>9, <2>10, <2>11, <2>12
<1>12. CASE ~CompactionDue(D)
  <2>1. compaction' = compaction /\ last' = last
    BY <1>1, <1>12
  <2>2. /\ Listing' = Listing
        /\ TableData(Listing, Kept', D, routes, cleaned, None, compaction)
        /\ cleaned <= EarliestRetained(D)
        /\ cleaning' # None =>
              /\ cleaning' \in Cleanings
              /\ cleaned <= cleaning'.earliest /\ cleaning'.earliest <= EarliestRetained(D)
              /\ PlanOK(cleaning'.plan, Kept', D, compaction, cleaning'.earliest)
    <3>1. cleaning' \in {cleaning, CleaningAfter(D)} /\ files' = files
      BY <1>1
    <3> QED BY <1>4, <1>5, <1>6, <3>1, CleanStarts
  <2>3. TableData(Listing', Kept', done', routes', cleaned', upsert', compaction')
    BY <1>1, <2>1, <2>2
  <2>4. CompactionOK'
    BY <1>1, <1>5, <1>10, <2>1 DEF CompactionOK
  <2>5. CleaningOK'
    BY <1>1, <1>8, <2>1, <2>2 DEF CleaningOK
  <2>6. ClockOK'
    BY <1>1, <1>4, <1>10, <1>7, <2>1 DEF ClockOK
  <2> QED BY <1>9, <2>2, <2>3, <2>4, <2>5, <2>6
<1> QED BY <1>11, <1>12

\* The empty table.
LEMMA TableInit ==
    ASSUME Init PROVE TableInv
<1> USE DEF Init
<1>1. Listing = {} /\ Kept = {} /\ Planned = {}
  BY DEF Listing, Kept, Planned
<1>2. TableData({}, {}, {}, routes, 0, None, None)
  BY DEF TableData, Shaped, Content, Complete, Disjoint, FilesAt, SliceHasBase, PendingOK,
         Compacted, InsertsBased
<1>3. ClockOK
  <2>1. Agree(routes, batches, {})
    BY DEF Agree, UpTo, Place, KeyRow, Row, Routings, KeyWrites, Writes
  <2>2. \A i \in Instants : RouteTyped(routes[i], batches[i], i)
    BY DEF RouteTyped
  <2> QED BY <2>1, <2>2, HudiAssumption DEF ClockOK
<1>4. CleaningOK
  <2>1. {} \in SUBSET Instants /\ config \in Configs
    OBVIOUS
  <2>2. EarliestRetained({}) \in Nat
    BY <2>1, EarliestType
  <2> QED BY <2>2 DEF CleaningOK
<1> QED BY <1>1, <1>2, <1>3, <1>4 DEF TableInv, UpsertOK, CompactionOK

LEMMA TableStep ==
    ASSUME TableInv, [Next]_vars PROVE TableInv'
<1>1. CASE UNCHANGED <<config, tableVars>>
  BY <1>1, QueryStep
<1>2. CASE UNCHANGED vars
  BY <1>2, QueryStep DEF vars, tableVars
<1>3. ASSUME NEW b \in Batches, NEW target \in Targets, StartUpsert(b, target) PROVE TableInv'
  BY <1>3, StartUpsertStep
<1>4. ASSUME NEW g \in Groups, WriteFile(g) PROVE TableInv'
  BY <1>4, WriteStep
<1>5. ASSUME NEW p \in Partitions, ReadPartition(p) PROVE TableInv'
  BY <1>5, QueryStep DEF ReadPartition
<1>6. CASE CompleteUpsert
  BY <1>6, CompleteUpsertStep
<1>7. CASE RollBack
  BY <1>7, RollBackStep
<1>8. CASE Service
  <2>1. ASSUME NEW g \in Groups, Compact(g) PROVE TableInv'
    BY <2>1, CompactStep
  <2>2. ASSUME NEW f \in files, CleanFile(f) PROVE TableInv'
    BY <2>2, CleanFileStep
  <2> QED BY <1>8, <2>1, <2>2, ScheduleByCallStep, StartCompactionStep, CompleteCompactionStep,
             CompleteCleanStep DEF Service
<1>9. CASE Crash
  BY <1>9, CrashStep
<1>10. CASE ListCommits
  BY <1>10, QueryStep DEF ListCommits
<1>11. ASSUME NEW baseOnly \in BOOLEAN, StartQuery(baseOnly) PROVE TableInv'
  BY <1>11, QueryStep DEF StartQuery
<1>12. ASSUME NEW t \in Instants, TimeTravel(t) PROVE TableInv'
  BY <1>12, QueryStep DEF TimeTravel
<1> QED BY <1>2, <1>3, <1>4, <1>5, <1>6, <1>7, <1>8, <1>9, <1>10, <1>11, <1>12 DEF Next

-----------------------------------------------------------------------------
(* Queries.                                                                  *)

\* What an open query reads does not depend on what is completed or cleaned later.
LEMMA OpenStays ==
    ASSUME NEW L, NEW D \in SUBSET Instants, NEW bs, NEW q, NEW up, NEW cp, NEW e \in Int, NEW l \in Int,
           OpenOK(L, D, bs, q, up, cp, e, l), Shaped(L),
           NEW L2, NEW D2 \in SUBSET Instants, NEW bs2, NEW up2, NEW cp2, NEW e2 \in Int, NEW l2 \in Int,
           e <= e2, l <= l2, D \subseteq D2,
           \A i \in D2 \ D : i \notin q.seen,
           \A i \in D : bs2[i] = bs[i],
           up2 # None => up2.at \notin q.seen,
           cp2 # None => cp2.at \notin q.seen,
           \A w \in L2 \ L : w.at \notin q.seen,
           \A f \in L : \/ f \in L2 \/ f.at \notin D
                        \/ \E x \in L : /\ x.group = f.group /\ x.kind = "base" /\ x.at \in D
                                        /\ f.slice < x.at /\ x.at < e2
    PROVE  OpenOK(L2, D2, bs2, q, up2, cp2, e2, l2)
<1>1. q.seen \subseteq 1 .. l2
  <2>1. \A i \in q.seen : i \in 1 .. l
    BY DEF OpenOK
  <2> QED BY <2>1
<1>2. NeedOK(L2, D2, q, e2)
  <2>1. SUFFICES ASSUME NEW f \in q.need
                 PROVE  /\ f \in Files /\ f.at \in D2 /\ f.at \in q.seen
                        /\ \A w \in L2 : w.group = f.group /\ w.kind = "base" /\ w.at \in q.seen => w.at <= f.slice
                        /\ f \in L2 \/ \E i \in D2 : i \notin q.seen /\ i < e2
    BY DEF NeedOK
  <2>2. /\ f \in Files /\ f.at \in D /\ f.at \in q.seen
        /\ \A w \in L : w.group = f.group /\ w.kind = "base" /\ w.at \in q.seen => w.at <= f.slice
        /\ f \in L \/ \E i \in D : i \notin q.seen /\ i < e
    BY DEF OpenOK, NeedOK
  <2>3. \A w \in L2 : w.group = f.group /\ w.kind = "base" /\ w.at \in q.seen => w.at <= f.slice
    BY <2>2
  <2>4. CASE f \in L /\ f \notin L2
    <3>1. PICK x \in L : /\ x.group = f.group /\ x.kind = "base" /\ x.at \in D
                         /\ f.slice < x.at /\ x.at < e2
      BY <2>2, <2>4
    <3>2. f.slice \in Int /\ x.at \in Int
      BY <2>4, FileFields DEF Shaped
    <3>3. x.at \notin q.seen
      BY <2>2, <3>1, <3>2
    <3> QED BY <2>2, <2>3, <3>1, <3>3
  <2>5. CASE \E i \in D : i \notin q.seen /\ i < e
    <3>1. PICK i \in D : i \notin q.seen /\ i < e
      BY <2>5
    <3>2. i \in Int /\ i \in D2
      BY HudiAssumption DEF Instants
    <3>3. i < e2
      BY <3>1, <3>2
    <3> QED BY <2>2, <2>3, <3>1, <3>2, <3>3
  <2> QED BY <2>2, <2>3, <2>4, <2>5
<1>3. \A S \in SUBSET q.seen : D2 \cap S = D \cap S
  OBVIOUS
<1>4. ASSUME NEW S \in SUBSET q.seen, NEW p PROVE KeyRows(bs2, p, D2 \cap S) = KeyRows(bs, p, D \cap S)
  <2>1. D \cap S \in SUBSET Instants /\ \A i \in D \cap S : bs2[i] = bs[i]
    OBVIOUS
  <2>2. \A k : KeyRow(bs2, k, D \cap S) = KeyRow(bs, k, D \cap S)
    BY <2>1, KeyRowAgrees
  <2> QED BY <1>3, <2>2 DEF KeyRows
<1>5. ASSUME NEW p \in Partitions
      PROVE  /\ ~q.baseOnly => RowsIn(FilesOf(q, p)) = KeyRows(bs2, p, D2 \cap q.seen)
             /\ q.baseOnly => Lagging(RowsIn(FilesOf(q, p)), bs2, D2, q.seen, p)
  <2>1. ASSUME ~q.baseOnly PROVE RowsIn(FilesOf(q, p)) = KeyRows(bs2, p, D2 \cap q.seen)
    BY <1>4, <2>1 DEF OpenOK
  <2>2. ASSUME q.baseOnly PROVE Lagging(RowsIn(FilesOf(q, p)), bs2, D2, q.seen, p)
    <3> DEFINE rows == RowsIn(FilesOf(q, p))
    <3>1. Lagging(rows, bs, D, q.seen, p)
      BY <2>2 DEF OpenOK
    <3> HIDE DEF rows
    <3>2. ASSUME NEW r \in rows
          PROVE  \E t \in Instants :
                     /\ \A i \in q.seen \cap D2 : bs2[i] = None => i <= t
                     /\ r \in KeyRows(bs2, p, D2 \cap {i \in q.seen : i <= t})
      <4>1. PICK t \in Instants :
                /\ \A i \in q.seen \cap D : bs[i] = None => i <= t
                /\ r \in KeyRows(bs, p, D \cap {i \in q.seen : i <= t})
        BY <3>1 DEF Lagging
      <4>2. \A i \in q.seen \cap D2 : bs2[i] = None => i <= t
        BY <4>1
      <4>3. {i \in q.seen : i <= t} \in SUBSET q.seen
        OBVIOUS
      <4> QED BY <1>4, <4>1, <4>2, <4>3
    <3>3. \A r \in KeyRows(bs2, p, D2 \cap q.seen) : \E x \in rows : x.key = r.key
      BY <1>4, <3>1 DEF Lagging
    <3> QED BY <3>2, <3>3 DEF Lagging, rows
  <2> QED BY <2>1, <2>2
<1>6. /\ q = [seen |-> q.seen, baseOnly |-> q.baseOnly, state |-> "open", need |-> q.need, got |-> q.got]
      /\ \A p \in DOMAIN q.got : p \in Partitions /\ q.got[p] = RowsIn(FilesOf(q, p))
  BY DEF OpenOK
<1> QED BY <1>1, <1>2, <1>5, <1>6 DEF OpenOK

\* The steps of the table leave the queries alone.
LEMMA QueryKept ==
    ASSUME TableInv, TableInv', QueryInv, FailsOutsideWindow,
           UNCHANGED <<config, query>>,
           done \subseteq done',
           \A i \in done' \ done : \/ upsert # None /\ i = upsert.at
                                   \/ compaction # None /\ i = compaction.at,
           \A i \in done : batches'[i] = batches[i],
           upsert' # None => upsert'.at > last \/ (upsert # None /\ upsert'.at = upsert.at),
           compaction' # None => compaction'.at > last \/ (compaction # None /\ compaction'.at = compaction.at),
           last <= last',
           \A w \in Listing' \ Listing : \/ upsert # None /\ w.at = upsert.at
                                         \/ compaction # None /\ w.at = compaction.at,
           \A f \in Listing : \/ f \in Listing' \/ f.at \notin done
                              \/ \E x \in Listing : /\ x.group = f.group /\ x.kind = "base" /\ x.at \in done
                                                    /\ f.slice < x.at /\ x.at < EarliestRetained(done)'
    PROVE  QueryInv' /\ FailsOutsideWindow'
<1> DEFINE e == EarliestRetained(done)
           e2 == EarliestRetained(done)'
<1>1. config \in Configs /\ done \in SUBSET Instants /\ done' \in SUBSET Instants /\ last \in Int /\ last' \in Int
  BY ClockFacts, HudiAssumption DEF TableInv, ClockOK, Instants
<1>2. e2 = EarliestRetained(done')
  BY DEF EarliestRetained
<1>3. e \in Int /\ e2 \in Int /\ e <= e2
  <2>1. EarliestRetained(done) \in Nat /\ EarliestRetained(done') \in Nat
    BY <1>1, EarliestType
  <2>2. EarliestRetained(done) <= EarliestRetained(done')
    BY <1>1, EarliestGrows
  <2> QED BY <1>2, <2>1, <2>2
<1> HIDE DEF e, e2
<1>4. ASSUME query # None, query.state = "open"
      PROVE  OpenOK(Listing', done', batches', query, upsert', compaction', e2, last')
  <2>1. OpenOK(Listing, done, batches, query, upsert, compaction, e, last)
    BY <1>4 DEF QueryInv, e
  <2>2. /\ upsert # None => upsert.at \notin query.seen
        /\ compaction # None => compaction.at \notin query.seen
        /\ \A i \in query.seen : i \in Int /\ i <= last
    BY <1>1, <2>1 DEF OpenOK
  <2>3. \A i \in query.seen : ~(i > last)
    BY <1>1, <2>2
  <2>4. upsert' # None => upsert'.at \notin query.seen
    BY <2>2, <2>3
  <2>5. compaction' # None => compaction'.at \notin query.seen
    BY <2>2, <2>3
  <2>6. (\A i \in done' \ done : i \notin query.seen) /\ \A w \in Listing' \ Listing : w.at \notin query.seen
    BY <2>2
  <2>7. \A f \in Listing : \/ f \in Listing' \/ f.at \notin done
                           \/ \E x \in Listing : /\ x.group = f.group /\ x.kind = "base" /\ x.at \in done
                                                 /\ f.slice < x.at /\ x.at < e2
    BY DEF e2
  <2>8. Shaped(Listing)
    BY ListingFacts
  <2> QED BY <1>1, <1>3, <2>1, <2>4, <2>5, <2>6, <2>7, <2>8, OpenStays
<1>5. QueryInv'
  <2>1. query' # None /\ query'.state = "listed" => query'.commits \subseteq done'
    BY DEF QueryInv
  <2>2. query' # None /\ query'.state = "open" =>
            OpenOK(Listing', done', batches', query', upsert', compaction', EarliestRetained(done)', last')
    BY <1>4 DEF e2
  <2> QED BY <2>1, <2>2 DEF QueryInv
<1>6. FailsOutsideWindow'
  <2>1. ASSUME query # None, query.state \in {"failed", "refused"}
        PROVE  \E i \in done' :
                  /\ i < e2
                  /\ IF query.state = "refused" THEN i = Newest(query.seen) ELSE i \notin query.seen
    <3>1. PICK i \in done : /\ i < e
                            /\ IF query.state = "refused" THEN i = Newest(query.seen) ELSE i \notin query.seen
      BY <2>1 DEF FailsOutsideWindow, e
    <3>2. i \in Int /\ i \in done'
      BY <1>1, HudiAssumption DEF Instants
    <3>3. i < e2
      BY <1>3, <3>1, <3>2
    <3> QED BY <3>1, <3>2, <3>3
  <2>2. query' = query
    OBVIOUS
  <2> QED BY <2>1, <2>2 DEF FailsOutsideWindow, e2
<1> QED BY <1>5, <1>6

LEMMA QueryTableStep ==
    ASSUME TableInv, TableInv', QueryInv, FailsOutsideWindow, Next, query' = query,
           ~UNCHANGED tableVars
    PROVE  QueryInv' /\ FailsOutsideWindow'
<1>1. last \in Int /\ \A f \in Listing : f.at \in Int
  BY ListingFacts, ClockFacts DEF TableInv
<1>2. ASSUME NEW b \in Batches, NEW target \in Targets, StartUpsert(b, target)
      PROVE  QueryInv' /\ FailsOutsideWindow'
  <2>1. Listing' = Listing
    BY <1>2, StartUpsertStep
  <2>2. /\ UNCHANGED <<config, query, done, compaction>>
        /\ last' = last + 1 /\ batches' = [batches EXCEPT ![last + 1] = b]
        /\ upsert'.at = last + 1
    BY <1>2 DEF StartUpsert
  <2>3. last <= last' /\ upsert'.at > last
    BY <1>1, <2>2
  <2>4. \A i \in done : batches'[i] = batches[i]
    <3>1. \A i \in done : i # last + 1 /\ i \in Instants
      BY <1>1, ClockFacts DEF TableInv
    <3> QED BY <2>2, <3>1 DEF TableInv, ClockOK
  <2> QED BY <2>1, <2>2, <2>3, <2>4, QueryKept
<1>3. ASSUME NEW g \in Groups, WriteFile(g) PROVE QueryInv' /\ FailsOutsideWindow'
  <2>1. /\ upsert # None /\ g \in upsert.todo /\ files' = files \cup {NewFile(g)}
        /\ upsert' = [upsert EXCEPT !.todo = @ \ {g}]
        /\ UNCHANGED <<config, query, last, done, compaction, cleaning, batches>>
    BY <1>3 DEF WriteFile
  <2>2. NewFile(g).at = upsert.at /\ upsert'.at = upsert.at
    BY <2>1, NewFileOK, UpsertFacts DEF Upserts
  <2>3. Listing' = Listing \cup {NewFile(g)}
    BY <2>1 DEF Listing
  <2> QED BY <1>1, <2>1, <2>2, <2>3, QueryKept
<1>4. CASE CompleteUpsert
  <2>1. Listing' = Listing
    BY <1>4, CompleteUpsertStep
  <2>2. /\ upsert # None /\ done' = done \cup {upsert.at}
        /\ UNCHANGED <<config, query, batches>> /\ upsert' = None
        /\ compaction' = compaction \/ compaction'.at = last + 1
        /\ last' \in {last, last + 1}
    BY <1>4 DEF CompleteUpsert, CompactionPlan
  <2>3. last <= last' /\ (compaction' = compaction \/ compaction'.at > last)
    BY <1>1, <2>2
  <2> QED BY <2>1, <2>2, <2>3, QueryKept
<1>5. CASE RollBack
  <2>1. /\ upsert # None /\ upsert' = None /\ files' = {f \in files : f.at # upsert.at}
        /\ UNCHANGED <<config, query, last, done, compaction, cleaning, batches>>
    BY <1>5 DEF RollBack
  <2>2. upsert.at \notin done
    BY <2>1, UpsertFacts
  <2>3. Listing' \subseteq Listing /\ \A f \in Listing : f \in Listing' \/ f.at \notin done
    BY <2>1, <2>2 DEF Listing
  <2> QED BY <1>1, <2>1, <2>3, QueryKept
<1>6. CASE ScheduleByCall
  <2>1. /\ compaction'.at = last + 1 /\ last' = last + 1
        /\ UNCHANGED <<config, query, done, files, upsert, cleaning, batches>>
    BY <1>6 DEF ScheduleByCall, CompactionPlan
  <2>2. Listing' = Listing
    BY <2>1 DEF Listing
  <2>3. last <= last' /\ compaction'.at > last
    BY <1>1, <2>1
  <2> QED BY <2>1, <2>2, <2>3, QueryKept
<1>7. CASE StartCompaction
  <2>1. /\ compaction # None /\ files' = {f \in files : f.kind = "base" => f.at # compaction.at}
        /\ compaction' = [compaction EXCEPT !.state = "running", !.todo = {f.group : f \in compaction.source}]
        /\ UNCHANGED <<config, query, last, done, upsert, cleaning, batches>>
    BY <1>7 DEF StartCompaction
  <2>2. compaction.at \notin done /\ compaction'.at = compaction.at
    BY <2>1, CompactionFacts DEF Compactions
  <2>3. Listing' \subseteq Listing /\ \A f \in Listing : f \in Listing' \/ f.at \notin done
    BY <2>1, <2>2 DEF Listing
  <2> QED BY <1>1, <2>1, <2>2, <2>3, QueryKept
<1>8. ASSUME NEW g \in Groups, Compact(g) PROVE QueryInv' /\ FailsOutsideWindow'
  <2> DEFINE new == [group |-> g, kind |-> "base", slice |-> compaction.at, at |-> compaction.at,
                     rows |-> Merged(g, {f \in compaction.source : f.group = g})]
  <2>1. /\ compaction # None /\ files' = files \cup {new}
        /\ compaction' = [compaction EXCEPT !.todo = @ \ {g}]
        /\ UNCHANGED <<config, query, last, done, upsert, cleaning, batches>>
    BY <1>8 DEF Compact, CompactionRuns
  <2>2. new.at = compaction.at /\ compaction'.at = compaction.at
    BY <2>1, CompactionFacts DEF Compactions
  <2> HIDE DEF new
  <2>3. Listing' = Listing \cup {new}
    BY <2>1 DEF Listing
  <2> QED BY <1>1, <2>1, <2>2, <2>3, QueryKept
<1>9. CASE CompleteCompaction
  <2>1. /\ compaction # None /\ compaction' = None /\ done' = done \cup {compaction.at}
        /\ UNCHANGED <<config, query, last, files, upsert, cleaning, batches>>
    BY <1>9 DEF CompleteCompaction, CompactionRuns
  <2>2. Listing' = Listing
    BY <2>1 DEF Listing
  <2> QED BY <1>1, <2>1, <2>2, QueryKept
<1>10. ASSUME NEW f \in files, CleanFile(f) PROVE QueryInv' /\ FailsOutsideWindow'
  <2>1. /\ cleaning # None /\ f \in cleaning.plan /\ files' = files \ {f}
        /\ UNCHANGED <<config, query, last, done, upsert, compaction, cleaning, batches>>
    BY <1>10 DEF CleanFile, CleanRuns
  <2>2. Listing' = Listing
    BY <2>1 DEF Listing
  <2> QED BY <1>1, <2>1, <2>2, QueryKept
<1>11. CASE CompleteClean
  <2>1. /\ cleaning # None /\ cleaning' = None
        /\ UNCHANGED <<config, query, last, done, files, upsert, compaction, batches>>
    BY <1>11 DEF CompleteClean, CleanRuns
  <2>2. Listing' = files /\ files \subseteq Listing /\ Kept \subseteq Listing
        /\ \A f \in Listing : f \in files \/ f \in cleaning.plan
    BY <2>1, ListingFacts DEF Listing
  <2>3. ASSUME NEW f \in cleaning.plan
        PROVE  \E x \in Listing : /\ x.group = f.group /\ x.kind = "base" /\ x.at \in done
                                  /\ f.slice < x.at /\ x.at < EarliestRetained(done)'
    <3>1. /\ cleaning \in Cleanings /\ cleaning.earliest <= EarliestRetained(done)
          /\ PlanOK(cleaning.plan, Kept, done, compaction, cleaning.earliest)
      BY <2>1 DEF TableInv, CleaningOK
    <3>2. PICK x \in Kept : /\ x.group = f.group /\ x.kind = "base" /\ x.at \in done
                            /\ f.slice < x.at /\ x.at < cleaning.earliest
      BY <3>1 DEF PlanOK
    <3>3. x.at \in Int /\ x \in Listing
      BY <1>1, <2>2
    <3>4. cleaning.earliest \in Int
      BY <3>1, HudiAssumption DEF Cleanings
    <3>5. EarliestRetained(done) \in Int
      <4>1. config \in Configs /\ done \in SUBSET Instants
        BY ClockFacts DEF TableInv, ClockOK
      <4>2. EarliestRetained(done) \in Nat
        BY <4>1, EarliestType
      <4> QED BY <4>2
    <3>6. EarliestRetained(done)' = EarliestRetained(done)
      BY <2>1, SameWindow
    <3>7. x.at < EarliestRetained(done)'
      BY <3>1, <3>2, <3>3, <3>4, <3>5, <3>6
    <3> QED BY <3>2, <3>3, <3>7
  <2>4. \A f \in Listing : \/ f \in Listing' \/ f.at \notin done
                           \/ \E x \in Listing : /\ x.group = f.group /\ x.kind = "base" /\ x.at \in done
                                                 /\ f.slice < x.at /\ x.at < EarliestRetained(done)'
    BY <2>2, <2>3
  <2> QED BY <1>1, <2>1, <2>2, <2>4, QueryKept
<1>12. CASE Crash
  <2>1. /\ UNCHANGED <<config, query, last, done, files, batches>>
        /\ upsert' = IF upsert = None THEN None ELSE [upsert EXCEPT !.alive = FALSE]
        /\ compaction' = IF compaction = None THEN None ELSE [compaction EXCEPT !.state = "crashed"]
        /\ cleaning' = IF cleaning = None THEN None ELSE [cleaning EXCEPT !.running = FALSE]
    BY <1>12 DEF Crash
  <2>2. upsert' # None => upsert # None /\ upsert'.at = upsert.at
    BY <2>1, UpsertFacts DEF Upserts
  <2>3. compaction' # None => compaction # None /\ compaction'.at = compaction.at
    BY <2>1, CompactionFacts DEF Compactions
  <2>4. Planned' = Planned
    <3>1. cleaning # None => cleaning \in Cleanings /\ cleaning'.plan = cleaning.plan
      BY <2>1 DEF TableInv, CleaningOK, Cleanings
    <3>2. cleaning # None => cleaning' # None
      BY <2>1, <3>1, NoneAssumption DEF Cleanings
    <3> QED BY <2>1, <3>1, <3>2 DEF Planned
  <2>5. Listing = files \cup Planned /\ Listing' = files' \cup Planned'
    BY DEF Listing, Planned
  <2> QED BY <1>1, <2>1, <2>2, <2>3, <2>4, <2>5, QueryKept
<1>13. ASSUME NEW p \in Partitions, ReadPartition(p) PROVE FALSE
  BY <1>13 DEF ReadPartition
<1>14. ~ListCommits
  BY DEF ListCommits
<1>15. ASSUME NEW b \in BOOLEAN, StartQuery(b) PROVE FALSE
  BY <1>15 DEF StartQuery
<1>16. ASSUME NEW t \in Instants, TimeTravel(t) PROVE FALSE
  BY <1>16 DEF TimeTravel
<1> QED BY <1>2, <1>3, <1>4, <1>5, <1>6, <1>7, <1>8, <1>9, <1>10, <1>11, <1>12, <1>13, <1>14, <1>15, <1>16
        DEF Next, Service

\* Whether r is the row of k in the files of g that are in S, and in the table.
InGroup(S, g) == {f \in S : f.group = g}
GroupRow(S, g, k, r) ==
    Merged(g, InGroup(S, g))[k] # None /\ r = [key |-> k, from |-> Merged(g, InGroup(S, g))[k]]
TableRow(bs, k, D, r) == KeyRow(bs, k, D) # None /\ r = [key |-> k, from |-> KeyRow(bs, k, D)]

\* A key is in its partition.
LEMMA PlaceType ==
    ASSUME ClockOK, NEW D \in SUBSET Instants, NEW k, Place(routes, k, D) # None
    PROVE  /\ Place(routes, k, D) \in Groups /\ Place(routes, k, D).part = PartitionOf[k]
           /\ k \in Keys
           /\ \E i \in D : Touches(routes, i, Place(routes, k, D))
<1> DEFINE is == Routings(routes, k, D)
           i == Newest(is)
<1>1. is # {} /\ Place(routes, k, D) = routes[i][k].group
  BY DEF Place
<1>2. is \in SUBSET Instants
  BY DEF Routings
<1> HIDE DEF is
<1>3. i \in is
  BY <1>1, <1>2, NewestOf
<1> HIDE DEF i
<1>4. i \in D /\ routes[i] # None /\ k \in DOMAIN routes[i] /\ i \in Instants
  BY <1>3 DEF is, Routings
<1>5. routes[i][k].group \in Groups /\ routes[i][k].group.part = PartitionOf[k] /\ k \in Keys
  BY <1>4, RouteFacts
<1>6. Touches(routes, i, routes[i][k].group)
  BY <1>4 DEF Touches, KeysAt
<1> QED BY <1>1, <1>4, <1>5, <1>6

\* Rows that are read come from the file groups that have files.
LEMMA RowsOfGroups ==
    ASSUME NEW P, NEW S, \A f \in S : f.group \in Groups /\ f.group.part \in P, NEW r
    PROVE  r \in RowsIn(S) <=> \E g \in Groups : g.part \in P /\ \E k \in KeysOf(g.part) : GroupRow(S, g, k, r)
<1> DEFINE table(g) == Merged(g, InGroup(S, g))
           gs == {f.group : f \in S}
<1>1. RowsIn(S) = UNION {LiveRows(table(g)) : g \in gs}
  BY DEF RowsIn, InGroup
<1>2. \A g : DOMAIN table(g) = KeysOf(g.part)
  BY DEF Merged
<1>3. ASSUME NEW g, NEW k \in KeysOf(g.part), table(g)[k] # None PROVE g \in gs
  <2>1. SUFFICES ASSUME InGroup(S, g) = {} PROVE FALSE
    BY DEF InGroup
  <2>2. \A f \in InGroup(S, g) : k \notin DOMAIN f.rows
    BY <2>1
  <2>3. table(g)[k] = None
    BY <2>2, MergedNone
  <2> QED BY <1>3, <2>3
<1>4. \A g \in gs : g \in Groups /\ g.part \in P
  OBVIOUS
<1> HIDE DEF table, gs
<1>5. \A g : r \in LiveRows(table(g)) <=>
                 \E k \in KeysOf(g.part) : table(g)[k] # None /\ r = [key |-> k, from |-> table(g)[k]]
  BY <1>2 DEF LiveRows
<1>6. \A g : r \in LiveRows(table(g)) <=> \E k \in KeysOf(g.part) : GroupRow(S, g, k, r)
  BY <1>5 DEF GroupRow, table
<1>7. \A g : \A k \in KeysOf(g.part) : GroupRow(S, g, k, r) => g \in gs
  BY <1>3 DEF GroupRow, table
<1> QED BY <1>1, <1>4, <1>6, <1>7

\* Merged file groups have one row for each key of the table, wherever it is.
LEMMA RowsOfTable ==
    ASSUME ClockOK, NEW P, NEW S, \A f \in S : f.group \in Groups /\ f.group.part \in P,
           NEW t \in Int,
           \A g \in Groups : g.part \in P => Merged(g, InGroup(S, g)) = RowsOf(routes, g, UpTo(done, t)),
           NEW r
    PROVE  r \in RowsIn(S) <=> \E k \in Keys : PartitionOf[k] \in P /\ TableRow(batches, k, UpTo(done, t), r)
<1> DEFINE E == UpTo(done, t)
<1>1. E \in SUBSET Instants
  BY ClockFacts DEF UpTo
<1>2. \A k \in Keys : /\ Place(routes, k, E) = None <=> KeyRow(batches, k, E) = None
                      /\ \A g \in Groups : Row(routes, g, k, E) =
                            IF Place(routes, k, E) = g THEN KeyRow(batches, k, E) ELSE None
  BY DEF ClockOK, Agree
<1>3. ASSUME NEW g \in Groups, g.part \in P
      PROVE  \A k \in KeysOf(g.part) : Merged(g, InGroup(S, g))[k] = Row(routes, g, k, E)
  BY <1>3 DEF RowsOf
<1> HIDE DEF E
<1>4. r \in RowsIn(S) <=> \E g \in Groups : g.part \in P /\ \E k \in KeysOf(g.part) : GroupRow(S, g, k, r)
  BY RowsOfGroups
<1>5. ASSUME r \in RowsIn(S) PROVE \E k \in Keys : PartitionOf[k] \in P /\ TableRow(batches, k, E, r)
  <2>1. PICK g \in Groups : g.part \in P /\ \E k \in KeysOf(g.part) : GroupRow(S, g, k, r)
    BY <1>4, <1>5
  <2>2. PICK k \in KeysOf(g.part) : GroupRow(S, g, k, r)
    BY <2>1
  <2>3. Row(routes, g, k, E) # None /\ r = [key |-> k, from |-> Row(routes, g, k, E)]
    BY <1>3, <2>1, <2>2 DEF GroupRow
  <2>4. k \in Keys /\ PartitionOf[k] = g.part
    BY DEF KeysOf
  <2>5. Row(routes, g, k, E) = KeyRow(batches, k, E)
    BY <1>2, <2>3, <2>4
  <2> QED BY <2>1, <2>3, <2>4, <2>5 DEF TableRow
<1>6. ASSUME NEW k \in Keys, PartitionOf[k] \in P, TableRow(batches, k, E, r) PROVE r \in RowsIn(S)
  <2> DEFINE g == Place(routes, k, E)
  <2>0. KeyRow(batches, k, E) # None
    BY <1>6 DEF TableRow
  <2>1. g # None /\ g \in Groups /\ g.part = PartitionOf[k]
    <3>1. g # None
      BY <1>2, <2>0
    <3> QED BY <1>1, <3>1, PlaceType
  <2>2. Row(routes, g, k, E) = KeyRow(batches, k, E)
    BY <1>2, <2>1
  <2>3. k \in KeysOf(g.part)
    BY <2>1 DEF KeysOf
  <2> HIDE DEF g
  <2>4. Merged(g, InGroup(S, g))[k] = KeyRow(batches, k, E)
    BY <1>3, <1>6, <2>1, <2>2, <2>3
  <2>5. GroupRow(S, g, k, r)
    BY <1>6, <2>4 DEF GroupRow, TableRow
  <2> QED BY <1>4, <1>6, <2>1, <2>3, <2>5
<1> QED BY <1>5, <1>6 DEF E

\* A row in the newest base file of its group was in the table, and no earlier than the
\* last completed compaction.
LEMMA BaseShowsPast ==
    ASSUME TableInv, NEW g \in Groups, NEW k \in KeysOf(g.part),
           Merged(g, BaseOnly(SliceFiles(g, Listing, done)))[k] # None
    PROVE  \E m \in Instants :
              /\ \A i \in done : batches[i] = None => i <= m
              /\ KeyRow(batches, k, UpTo(done, m)) = Merged(g, BaseOnly(SliceFiles(g, Listing, done)))[k]
<1>1. /\ done \in SUBSET Instants /\ last \in Int /\ cleaned \in Int /\ cleaned <= last
      /\ \A i \in done : i \in Int
      /\ UpTo(done, last) = done /\ ClockOK /\ k \in Keys
  BY ClockFacts DEF TableInv, ClockOK, KeysOf
<1>2. /\ Shaped(Listing) /\ History(Listing, done, routes, cleaned)
      /\ \A f \in Listing : f.at \in Int
  BY ListingFacts
<1>3. BasesOf(g, Listing, done) # {}
  <2>1. SUFFICES ASSUME BasesOf(g, Listing, done) = {} PROVE FALSE
    OBVIOUS
  <2>2. \A f \in Listing : f.at \in done <=> f.at \in UpTo(done, last)
    BY <1>1
  <2>3. SliceFiles(g, Listing, done) = {}
    BY <1>1, <1>2, <2>1, <2>2, NothingThere
  <2>4. \A f \in BaseOnly(SliceFiles(g, Listing, done)) : k \notin DOMAIN f.rows
    BY <2>3 DEF BaseOnly
  <2> QED BY <2>4, MergedNone
<1>4. PICK x \in BasesOf(g, Listing, done) : \A w \in BasesOf(g, Listing, done) : w.at <= x.at
  BY <1>2, <1>3, NewestBase
<1>5. x \in Listing /\ x.at \in done /\ x.at \in Int
  BY <1>2, <1>4 DEF BasesOf
<1>6. Merged(g, BaseOnly(SliceFiles(g, Listing, done)))[k] = Row(routes, g, k, UpTo(done, x.at))
  <2>1. Content(Listing, done, routes)
    BY <1>2 DEF History
  <2>2. Merged(g, BaseOnly(SliceFiles(g, Listing, done))) = RowsOf(routes, g, UpTo(done, x.at))
    BY <1>1, <1>2, <1>4, <2>1, ReadsBase
  <2> QED BY <2>2 DEF RowsOf
<1> DEFINE S == {x.at} \cup {c \in done : batches[c] = None}
           m == Newest(S)
<1>7. S \in SUBSET Instants /\ S # {}
  BY <1>1, <1>5
<1>8. m \in S /\ \A j \in S : j <= m
  BY <1>7, NewestOf
<1>9. /\ x.at \in S /\ \A c \in done : batches[c] = None => c \in S
      /\ \A j \in S : j = x.at \/ (j \in done /\ batches[j] = None)
  OBVIOUS
<1> HIDE DEF S, m
<1>10. m \in Instants /\ m \in Int /\ x.at <= m
  <2>1. m \in Instants /\ x.at <= m
    BY <1>7, <1>8, <1>9
  <2> QED BY <2>1, HudiAssumption DEF Instants
<1>11. m = x.at \/ (m \in done /\ batches[m] = None)
  BY <1>8, <1>9
<1>12. \A i \in done : batches[i] = None => i <= m
  BY <1>8, <1>9
<1>13. Row(routes, g, k, UpTo(done, x.at)) = Row(routes, g, k, UpTo(done, m))
  <2>1. ASSUME NEW i \in done, i <= m, Touches(routes, i, g) PROVE i <= x.at
    <3>1. CASE m = x.at
      BY <2>1, <3>1
    <3>2. CASE m \in done /\ batches[m] = None
      <4>1. routes[m] = None
        BY <1>1, <3>2 DEF ClockOK, RouteTyped
      <4>2. i < m
        <5>1. i # m
          BY <2>1, <4>1 DEF Touches
        <5> QED BY <1>1, <1>10, <2>1, <5>1
      <4>3. Based(Listing, done, g, i)
        BY <2>1, <3>2, <4>1, <4>2 DEF TableInv, TableData, Compacted
      <4>4. PICK y \in Listing : y.group = g /\ y.kind = "base" /\ y.at \in done /\ i <= y.at
        BY <4>3 DEF Based
      <4>5. y \in BasesOf(g, Listing, done)
        BY <4>4 DEF BasesOf
      <4>6. y.at <= x.at /\ y.at \in Int
        BY <1>2, <1>4, <4>4, <4>5
      <4> QED BY <1>1, <1>5, <4>4, <4>6
    <3> QED BY <1>11, <3>1, <3>2
  <2>2. \A i \in done : i <= x.at => i <= m
    BY <1>1, <1>5, <1>10
  <2>3. \A i \in Writes(routes, g, k, UpTo(done, m)) : i \in done /\ i <= m /\ Touches(routes, i, g)
    BY DEF Writes, UpTo, Touches
  <2>4. Writes(routes, g, k, UpTo(done, x.at)) = Writes(routes, g, k, UpTo(done, m))
    BY <2>1, <2>2, <2>3 DEF Writes, UpTo
  <2>5. UpTo(done, x.at) \in SUBSET Instants
    BY <1>1 DEF UpTo
  <2> QED BY <2>4, <2>5, SameRow
<1>14. Row(routes, g, k, UpTo(done, m)) = KeyRow(batches, k, UpTo(done, m))
  <2>1. Row(routes, g, k, UpTo(done, m)) =
           IF Place(routes, k, UpTo(done, m)) = g THEN KeyRow(batches, k, UpTo(done, m)) ELSE None
    BY <1>1, <1>10 DEF ClockOK, Agree
  <2> QED BY <1>6, <1>13, <2>1
<1> QED BY <1>6, <1>10, <1>12, <1>13, <1>14

\* The newest base file of its group has a row for every key of the table: what came to
\* the group after it was there before.
LEMMA BaseHasKey ==
    ASSUME TableInv, NEW k \in Keys, KeyRow(batches, k, done) # None
    PROVE  \E g \in Groups : /\ g.part = PartitionOf[k]
                             /\ Merged(g, BaseOnly(SliceFiles(g, Listing, done)))[k] # None
<1>1. /\ done \in SUBSET Instants /\ last \in Int /\ cleaned \in Int /\ cleaned <= last
      /\ \A i \in done : i \in Int
      /\ UpTo(done, last) = done /\ ClockOK
  BY ClockFacts DEF TableInv, ClockOK
<1>2. /\ Shaped(Listing) /\ History(Listing, done, routes, cleaned)
      /\ \A f \in Listing : f.at \in Int
  BY ListingFacts
<1> DEFINE g == Place(routes, k, done)
<1>3. /\ Place(routes, k, done) = None <=> KeyRow(batches, k, done) = None
      /\ \A q \in Groups : Row(routes, q, k, done) =
            IF Place(routes, k, done) = q THEN KeyRow(batches, k, done) ELSE None
  BY <1>1 DEF ClockOK, Agree
<1>4. g \in Groups /\ g.part = PartitionOf[k] /\ \E i \in done : Touches(routes, i, g)
  BY <1>1, <1>3, PlaceType
<1>5. Row(routes, g, k, done) # None
  BY <1>3, <1>4
<1> HIDE DEF g
<1>6. k \in KeysOf(g.part)
  BY <1>4 DEF KeysOf
<1>7. BasesOf(g, Listing, done) # {}
  <2>1. SUFFICES ASSUME BasesOf(g, Listing, done) = {} PROVE FALSE
    OBVIOUS
  <2>2. \A f \in Listing : f.at \in done <=> f.at \in UpTo(done, last)
    BY <1>1
  <2>3. \A i \in UpTo(done, last) : ~Touches(routes, i, g)
    BY <1>1, <1>2, <1>4, <2>1, <2>2, NothingThere
  <2> QED BY <1>1, <1>4, <2>3
<1>8. PICK x \in BasesOf(g, Listing, done) : \A w \in BasesOf(g, Listing, done) : w.at <= x.at
  BY <1>2, <1>7, NewestBase
<1>9. x \in Listing /\ x.at \in done /\ x.at \in Int
  BY <1>2, <1>8 DEF BasesOf
<1>10. Merged(g, BaseOnly(SliceFiles(g, Listing, done)))[k] = Row(routes, g, k, UpTo(done, x.at))
  <2>1. Content(Listing, done, routes)
    BY <1>2 DEF History
  <2>2. Merged(g, BaseOnly(SliceFiles(g, Listing, done))) = RowsOf(routes, g, UpTo(done, x.at))
    BY <1>1, <1>2, <1>4, <1>8, <2>1, ReadsBase
  <2> QED BY <1>6, <2>2 DEF RowsOf
<1>11. Row(routes, g, k, UpTo(done, x.at)) # None
  <2>1. SUFFICES ASSUME Row(routes, g, k, UpTo(done, x.at)) = None PROVE FALSE
    OBVIOUS
  <2> DEFINE later == {i \in Writes(routes, g, k, done) : x.at < i}
             i == Oldest(later)
  <2>2. later # {}
    <3>1. SUFFICES ASSUME later = {} PROVE FALSE
      OBVIOUS
    <3>2. \A j \in Writes(routes, g, k, done) : j \in done /\ j \in Int /\ ~(x.at < j)
      BY <1>1, <3>1 DEF Writes
    <3>3. \A j \in Writes(routes, g, k, done) : j <= x.at
      BY <1>9, <3>2
    <3>4. Writes(routes, g, k, done) = Writes(routes, g, k, UpTo(done, x.at))
      BY <3>3 DEF Writes, UpTo
    <3>5. Row(routes, g, k, done) = Row(routes, g, k, UpTo(done, x.at))
      BY <1>1, <3>4, SameRow
    <3> QED BY <1>5, <2>1, <3>5
  <2>3. later \in SUBSET Instants
    BY <1>1 DEF Writes
  <2>4. i \in later /\ \A j \in later : i <= j
    BY <2>2, <2>3, OldestOf
  <2> HIDE DEF i
  <2>5. /\ i \in done /\ routes[i] # None /\ k \in KeysAt(routes, i, g) /\ x.at < i /\ i \in Int
    BY <1>1, <2>4 DEF Writes
  <2>6. \A j \in Writes(routes, g, k, done) : x.at < j => i <= j
    BY <2>4
  <2> HIDE DEF later
  <2>7. Writes(routes, g, k, {j \in done : j < i}) = Writes(routes, g, k, UpTo(done, x.at))
    <3>1. \A j \in Writes(routes, g, k, done) : j < i <=> j <= x.at
      <4>1. \A j \in Writes(routes, g, k, done) : j \in Int
        BY <1>1 DEF Writes
      <4> QED BY <1>9, <2>5, <2>6, <4>1
    <3> QED BY <3>1 DEF Writes, UpTo
  <2>8. Row(routes, g, k, {j \in done : j < i}) = None
    <3>1. UpTo(done, x.at) \in SUBSET Instants
      BY <1>1 DEF UpTo
    <3>2. Row(routes, g, k, UpTo(done, x.at)) = Row(routes, g, k, {j \in done : j < i})
      BY <2>7, <3>1, SameRow
    <3> QED BY <2>1, <3>2
  <2>9. Inserts(routes, g, k, i, done)
    BY <2>5, <2>8 DEF Inserts
  <2>10. Based(Listing, done, g, i)
    BY <1>4, <2>5, <2>9 DEF TableInv, TableData, InsertsBased
  <2>11. PICK y \in Listing : y.group = g /\ y.kind = "base" /\ y.at \in done /\ i <= y.at
    BY <2>10 DEF Based
  <2>12. y \in BasesOf(g, Listing, done)
    BY <2>11 DEF BasesOf
  <2>13. y.at <= x.at /\ y.at \in Int
    BY <1>2, <1>8, <2>11, <2>12
  <2> QED BY <1>9, <2>5, <2>11, <2>13
<1> QED BY <1>4, <1>10, <1>11

\* A query that starts reads the completed writes up to its instant t.
LEMMA Opened ==
    ASSUME TableInv, NEW t \in Int, cleaned <= t,
           NEW seen, \A i : i \in seen <=> i \in Visible /\ i <= t,
           NEW b, b => t = last /\ done # {}
    PROVE  OpenOK(Listing, done, batches, QueryOf(seen, b), upsert, compaction, EarliestRetained(done), last)
<1> DEFINE q == QueryOf(seen, b)
           slice(g) == SliceFiles(g, Listing, seen)
           e == EarliestRetained(done)
<1>1. /\ done \in SUBSET Instants /\ last \in Int /\ archived \in Int /\ cleaned \in Int
      /\ \A i \in done : i \in Int /\ 1 <= i /\ i <= last
      /\ UpTo(done, last) = done /\ ClockOK
  BY ClockFacts DEF TableInv
<1>2. /\ Shaped(Listing) /\ History(Listing, done, routes, cleaned)
      /\ \A f \in Listing : f.at \in Int /\ (f.at \in Visible <=> f.at \in done)
      /\ \A f \in Listing : f \in Files /\ f.group \in Groups
  BY ListingFacts, VisibleFiles
<1>3. done \subseteq Visible /\ Visible \subseteq 1 .. last
  BY <1>1 DEF Visible
<1>4. \A f \in Listing : f.at \in seen <=> f.at \in UpTo(done, t)
  BY <1>2 DEF UpTo
<1>5. done \cap seen = UpTo(done, t)
  BY <1>3 DEF UpTo
<1>6. seen \subseteq 1 .. last
  BY <1>3
<1>7. upsert # None => upsert.at \notin seen
  <2>1. upsert # None => upsert.at = last /\ last \notin done /\ archived < last
    BY DEF TableInv, UpsertOK
  <2> QED BY <1>1, <2>1 DEF Visible
<1>8. compaction # None => compaction.at \notin seen
  <2>1. compaction # None => compaction.at \notin done /\ archived < compaction.at
    BY DEF TableInv, CompactionOK
  <2>2. compaction # None => compaction.at \in Int
    BY CompactionFacts
  <2> QED BY <1>1, <2>1, <2>2 DEF Visible
<1>9. /\ q = [seen |-> q.seen, baseOnly |-> q.baseOnly, state |-> "open", need |-> q.need, got |-> q.got]
      /\ q.seen = seen /\ q.baseOnly = b /\ DOMAIN q.got = {}
      /\ q.need = {f \in Listing : f \in Slices(Listing, seen) /\ (b => f.kind = "base")}
  BY DEF QueryOf
<1> HIDE DEF q
<1>10. NeedOK(Listing, done, q, e)
  <2>1. SUFFICES ASSUME NEW f \in q.need
                 PROVE  /\ f \in Files /\ f.at \in done /\ f.at \in q.seen /\ f \in Listing
                        /\ \A w \in Listing : w.group = f.group /\ w.kind = "base" /\ w.at \in q.seen => w.at <= f.slice
    BY DEF NeedOK
  <2>2. f \in Listing /\ f \in Slices(Listing, seen)
    BY <1>9
  <2>3. f.at \in seen /\ \A w \in Listing : w.group = f.group /\ w.kind = "base" /\ w.at \in seen => w.at <= f.slice
    BY <2>2 DEF Slices
  <2>4. f.at \in done
    BY <1>4, <2>2, <2>3 DEF UpTo
  <2> QED BY <1>2, <1>9, <2>2, <2>3, <2>4
<1> HIDE DEF e
<1>11. ASSUME NEW p, NEW g \in Groups, g.part = p
       PROVE  InGroup(FilesOf(q, p), g) = IF b THEN BaseOnly(slice(g)) ELSE slice(g)
  <2>1. \A f : f \in FilesOf(q, p) /\ f.group = g <=>
                  f \in Slices(Listing, seen) /\ f.group = g /\ (b => f.kind = "base")
    BY <1>9, <1>11 DEF FilesOf, Slices
  <2>2. InGroup(FilesOf(q, p), g) = {f \in slice(g) : b => f.kind = "base"}
    BY <2>1 DEF SliceFiles, InGroup
  <2> QED BY <2>2 DEF BaseOnly
<1>12. ASSUME NEW p PROVE \A f \in FilesOf(q, p) : f.group \in Groups /\ f.group.part \in {p}
  BY <1>2, <1>9 DEF FilesOf
<1> HIDE DEF slice
<1>13. ASSUME NEW p \in Partitions, ~b PROVE RowsIn(FilesOf(q, p)) = KeyRows(batches, p, done \cap seen)
  <2>1. ASSUME NEW g \in Groups, g.part = p
        PROVE  Merged(g, InGroup(FilesOf(q, p), g)) = RowsOf(routes, g, UpTo(done, t))
    <3>1. Merged(g, slice(g)) = RowsOf(routes, g, UpTo(done, t))
      BY <1>1, <1>2, <1>4, ReadsHistory DEF slice
    <3> QED BY <1>11, <1>13, <2>1, <3>1
  <2>2. \A g \in Groups : g.part \in {p} =>
           Merged(g, InGroup(FilesOf(q, p), g)) = RowsOf(routes, g, UpTo(done, t))
    BY <2>1
  <2>3. \A r : r \in RowsIn(FilesOf(q, p)) <=>
                  \E k \in Keys : PartitionOf[k] \in {p} /\ TableRow(batches, k, UpTo(done, t), r)
    BY <1>1, <1>12, <2>2, RowsOfTable
  <2>4. \A r : r \in KeyRows(batches, p, UpTo(done, t)) <=>
                  \E k \in KeysOf(p) : TableRow(batches, k, UpTo(done, t), r)
    BY DEF KeyRows, LiveRows, TableRow
  <2>5. RowsIn(FilesOf(q, p)) = KeyRows(batches, p, UpTo(done, t))
    BY <2>3, <2>4 DEF KeysOf
  <2> QED BY <1>5, <2>5
<1>14. ASSUME NEW p \in Partitions, b PROVE Lagging(RowsIn(FilesOf(q, p)), batches, done, seen, p)
  <2>1. t = last /\ done # {} /\ UpTo(done, t) = done /\ done \subseteq seen
    BY <1>1, <1>3, <1>14
  <2>2. ASSUME NEW g \in Groups, g.part = p
        PROVE  InGroup(FilesOf(q, p), g) = BaseOnly(SliceFiles(g, Listing, done))
    <3>1. slice(g) = SliceFiles(g, Listing, done)
      BY <1>4, <2>1, SameSlice DEF slice
    <3> QED BY <1>11, <1>14, <2>2, <3>1
  <2> DEFINE rows == RowsIn(FilesOf(q, p))
             base(g) == Merged(g, BaseOnly(SliceFiles(g, Listing, done)))
  <2>3. \A r : r \in rows <=>
                  \E g \in Groups : g.part \in {p} /\ \E k \in KeysOf(g.part) : GroupRow(FilesOf(q, p), g, k, r)
    BY <1>12, RowsOfGroups
  <2>4. ASSUME NEW r
        PROVE  r \in rows <=>
                  \E g \in Groups : /\ g.part = p
                                    /\ \E k \in KeysOf(p) : base(g)[k] # None /\ r = [key |-> k, from |-> base(g)[k]]
    <3>1. ASSUME NEW g \in Groups, g.part = p, NEW k
          PROVE  GroupRow(FilesOf(q, p), g, k, r) <=> base(g)[k] # None /\ r = [key |-> k, from |-> base(g)[k]]
      BY <2>2, <3>1 DEF GroupRow
    <3> HIDE DEF base, rows
    <3>2. ASSUME r \in rows
          PROVE  \E g \in Groups : /\ g.part = p
                                   /\ \E k \in KeysOf(p) : base(g)[k] # None /\ r = [key |-> k, from |-> base(g)[k]]
      <4>1. PICK g \in Groups : g.part \in {p} /\ \E k \in KeysOf(g.part) : GroupRow(FilesOf(q, p), g, k, r)
        BY <2>3, <3>2
      <4>2. g.part = p
        BY <4>1
      <4>3. PICK k \in KeysOf(p) : GroupRow(FilesOf(q, p), g, k, r)
        BY <4>1, <4>2
      <4>4. base(g)[k] # None /\ r = [key |-> k, from |-> base(g)[k]]
        BY <3>1, <4>2, <4>3
      <4> QED BY <4>2, <4>4
    <3>3. ASSUME NEW g \in Groups, g.part = p, NEW k \in KeysOf(p),
                 base(g)[k] # None, r = [key |-> k, from |-> base(g)[k]]
          PROVE  r \in rows
      <4>1. GroupRow(FilesOf(q, p), g, k, r)
        BY <3>1, <3>3
      <4>2. g.part \in {p} /\ k \in KeysOf(g.part)
        BY <3>3
      <4> QED BY <2>3, <4>1, <4>2
    <3> QED BY <3>2, <3>3
  <2> HIDE DEF rows
  <2>5. ASSUME NEW r \in rows
        PROVE  \E m \in Instants :
                   /\ \A i \in seen \cap done : batches[i] = None => i <= m
                   /\ r \in KeyRows(batches, p, done \cap {i \in seen : i <= m})
    <3>1. PICK g \in Groups : /\ g.part = p
                              /\ \E k \in KeysOf(p) : base(g)[k] # None /\ r = [key |-> k, from |-> base(g)[k]]
      BY <2>4
    <3>2. PICK k \in KeysOf(p) : base(g)[k] # None /\ r = [key |-> k, from |-> base(g)[k]]
      BY <3>1
    <3>3. PICK m \in Instants : /\ \A i \in done : batches[i] = None => i <= m
                                /\ KeyRow(batches, k, UpTo(done, m)) = base(g)[k]
      BY <3>1, <3>2, BaseShowsPast
    <3> HIDE DEF base
    <3>4. r \in KeyRows(batches, p, UpTo(done, m))
      BY <3>2, <3>3 DEF KeyRows, LiveRows
    <3>5. done \cap {i \in seen : i <= m} = UpTo(done, m)
      BY <2>1 DEF UpTo
    <3> QED BY <3>3, <3>4, <3>5
  <2>6. ASSUME NEW r \in KeyRows(batches, p, done \cap seen) PROVE \E x \in rows : x.key = r.key
    <3>1. done \cap seen = done
      BY <2>1
    <3>2. PICK k \in KeysOf(p) : KeyRow(batches, k, done) # None /\ r.key = k
      <4>1. r \in KeyRows(batches, p, done)
        BY <2>6, <3>1
      <4>2. PICK k \in KeysOf(p) : TableRow(batches, k, done, r)
        BY <4>1 DEF KeyRows, LiveRows, TableRow
      <4> QED BY <4>2 DEF TableRow
    <3>3. k \in Keys /\ PartitionOf[k] = p
      BY DEF KeysOf
    <3>4. PICK g \in Groups : g.part = p /\ base(g)[k] # None
      BY <3>2, <3>3, BaseHasKey
    <3> HIDE DEF base
    <3>5. [key |-> k, from |-> base(g)[k]] \in rows
      BY <2>4, <3>4
    <3> QED BY <3>2, <3>5
  <2> QED BY <2>5, <2>6 DEF Lagging, rows
<1>15. OpenOK(Listing, done, batches, q, upsert, compaction, e, last)
  BY <1>6, <1>7, <1>8, <1>9, <1>10, <1>13, <1>14 DEF OpenOK
<1> QED BY <1>15 DEF q, e

LEMMA SameState ==
    ASSUME UNCHANGED <<config, tableVars>>
    PROVE  /\ UNCHANGED <<last, done, batches, upsert, compaction, cleaned, archived>>
           /\ Listing' = Listing /\ EarliestRetained(done)' = EarliestRetained(done)
BY DEF tableVars, Listing, EarliestRetained

\* What an open query has read so far is of no concern to the rest.
LEMMA OpenReads ==
    ASSUME NEW L, NEW D, NEW bs, NEW q, NEW up, NEW cp, NEW e, NEW l,
           OpenOK(L, D, bs, q, up, cp, e, l),
           NEW w, \A p \in DOMAIN w : p \in Partitions /\ w[p] = RowsIn(FilesOf(q, p))
    PROVE  /\ OpenOK(L, D, bs, [q EXCEPT !.got = w], up, cp, e, l)
           /\ [q EXCEPT !.got = w].state = "open"
<1> DEFINE q2 == [q EXCEPT !.got = w]
<1>1. q = [seen |-> q.seen, baseOnly |-> q.baseOnly, state |-> "open", need |-> q.need, got |-> q.got]
  BY DEF OpenOK
<1>2. /\ q2.seen = q.seen /\ q2.baseOnly = q.baseOnly /\ q2.need = q.need /\ q2.got = w /\ q2.state = "open"
      /\ q2 = [seen |-> q.seen, baseOnly |-> q.baseOnly, state |-> "open", need |-> q.need, got |-> w]
  BY <1>1
<1> HIDE DEF q2
<1>3. NeedOK(L, D, q2, e) /\ \A p : FilesOf(q2, p) = FilesOf(q, p)
  BY <1>2 DEF OpenOK, NeedOK, FilesOf
<1>4. OpenOK(L, D, bs, q2, up, cp, e, l)
  BY <1>2, <1>3 DEF OpenOK
<1> QED BY <1>2, <1>4 DEF q2

\* The steps of a query.
LEMMA QueryReadStep ==
    ASSUME TableInv, QueryInv, UNCHANGED <<config, tableVars>>,
           NEW p \in Partitions, ReadPartition(p)
    PROVE  QueryInv' /\ FailsOutsideWindow'
<1> DEFINE e == EarliestRetained(done)
           got == [r \in DOMAIN query.got \cup {p} |->
                      IF r = p THEN RowsIn(NeedOf(p)) ELSE query.got[r]]
<1>1. /\ query # None /\ query.state = "open"
      /\ query' = IF NeedOf(p) \subseteq files THEN [query EXCEPT !.got = got]
                  ELSE FailedQuery(query.seen, "failed")
  BY DEF ReadPartition
<1>2. OpenOK(Listing, done, batches, query, upsert, compaction, e, last)
  BY <1>1 DEF QueryInv
<1>3. \A r \in DOMAIN got : r \in Partitions /\ got[r] = RowsIn(FilesOf(query, r))
  <2>1. NeedOf(p) = FilesOf(query, p)
    BY DEF NeedOf, FilesOf
  <2> QED BY <1>2, <2>1 DEF OpenOK
<1> HIDE DEF got
<1>4. CASE NeedOf(p) \subseteq files
  <2>1. query' = [query EXCEPT !.got = got]
    BY <1>1, <1>4
  <2>2. /\ OpenOK(Listing, done, batches, query', upsert, compaction, e, last)
        /\ query'.state = "open"
    BY <1>2, <1>3, <2>1, OpenReads
  <2>3. OpenOK(Listing', done', batches', query', upsert', compaction', EarliestRetained(done)', last')
    BY <2>2, SameState
  <2> QED BY <2>2, <2>3 DEF QueryInv, FailsOutsideWindow
<1>5. CASE ~(NeedOf(p) \subseteq files)
  <2>1. query' = FailedQuery(query.seen, "failed")
    BY <1>1, <1>5
  <2>2. query'.state = "failed" /\ query'.seen = query.seen
    BY <2>1 DEF FailedQuery
  <2>3. QueryInv'
    BY <2>2 DEF QueryInv
  <2>4. \E i \in done : i < e /\ i \notin query.seen
    <3>1. PICK f \in query.need : f \notin files
      BY <1>5 DEF NeedOf
    <3>2. /\ \A w \in Listing : w.group = f.group /\ w.kind = "base" /\ w.at \in query.seen => w.at <= f.slice
          /\ f \in Listing \/ \E i \in done : i \notin query.seen /\ i < e
      BY <1>2 DEF OpenOK, NeedOK
    <3>3. CASE f \in Listing
      <4>1. cleaning # None /\ f \in cleaning.plan
        BY <3>1, <3>3 DEF Listing
      <4>2. /\ cleaning \in Cleanings /\ cleaning.earliest <= e
            /\ PlanOK(cleaning.plan, Kept, done, compaction, cleaning.earliest)
        BY <4>1 DEF TableInv, CleaningOK
      <4>3. PICK x \in Kept : /\ x.group = f.group /\ x.kind = "base" /\ x.at \in done
                              /\ f.slice < x.at /\ x.at < cleaning.earliest
        BY <4>1, <4>2 DEF PlanOK
      <4>4. x \in Listing /\ x.at \in Int /\ f.slice \in Int
        BY <3>3, ListingFacts
      <4>5. x.at \notin query.seen
        BY <3>2, <4>3, <4>4
      <4>6. cleaning.earliest \in Int
        BY <4>2, HudiAssumption DEF Cleanings
      <4>7. config \in Configs /\ done \in SUBSET Instants
        BY ClockFacts DEF TableInv, ClockOK
      <4>8. e \in Nat
        BY <4>7, EarliestType
      <4> HIDE DEF e
      <4>9. x.at < e
        BY <4>2, <4>3, <4>4, <4>6, <4>8
      <4> QED BY <4>3, <4>5, <4>9
    <3> QED BY <3>2, <3>3
  <2>5. FailsOutsideWindow'
    <3>1. \E i \in done' : i < EarliestRetained(done)' /\ i \notin query'.seen
      BY <2>2, <2>4, SameState
    <3> QED BY <2>2, <3>1 DEF FailsOutsideWindow
  <2> QED BY <2>3, <2>5
<1> QED BY <1>4, <1>5

LEMMA QueryListStep ==
    ASSUME TableInv, UNCHANGED <<config, tableVars>>, ListCommits
    PROVE  QueryInv' /\ FailsOutsideWindow'
<1> DEFINE commits == {i \in done : i > archived}
<1>1. commits # {} /\ query' = [state |-> "listed", commits |-> {Oldest(commits), Newest(commits)}]
  BY DEF ListCommits
<1>2. commits \in SUBSET Instants
  BY ClockFacts DEF TableInv
<1>3. Oldest(commits) \in commits /\ Newest(commits) \in commits
  BY <1>1, <1>2, OldestOf, NewestOf
<1>4. query'.commits \subseteq done /\ query'.state = "listed"
  BY <1>1, <1>3
<1>5. done' = done
  BY SameState
<1> QED BY <1>4, <1>5 DEF QueryInv, FailsOutsideWindow

LEMMA QueryStartStep ==
    ASSUME TableInv, UNCHANGED <<config, tableVars>>, NEW b \in BOOLEAN, StartQuery(b)
    PROVE  QueryInv' /\ FailsOutsideWindow'
<1>1. done # {} /\ query' = QueryOf(Visible, b)
  BY DEF StartQuery
<1>2. last \in Int /\ cleaned <= last
  BY ClockFacts DEF TableInv, ClockOK
<1>3. \A i : i \in Visible <=> i \in Visible /\ i <= last
  BY <1>2 DEF Visible
<1>4. OpenOK(Listing, done, batches, QueryOf(Visible, b), upsert, compaction, EarliestRetained(done), last)
  BY <1>1, <1>2, <1>3, Opened
<1>5. OpenOK(Listing', done', batches', query', upsert', compaction', EarliestRetained(done)', last')
  BY <1>1, <1>4, SameState
<1>6. query'.state = "open"
  BY <1>1 DEF QueryOf
<1> QED BY <1>5, <1>6 DEF QueryInv, FailsOutsideWindow

LEMMA QueryTravelStep ==
    ASSUME TableInv, QueryInv, UNCHANGED <<config, tableVars>>, NEW t \in Instants, TimeTravel(t)
    PROVE  QueryInv' /\ FailsOutsideWindow'
<1> DEFINE seen == {i \in Visible : i <= t}
<1>1. /\ query # None /\ query.state = "listed" /\ t \in query.commits
      /\ query' = IF t >= cleaned THEN QueryOf(seen, FALSE) ELSE FailedQuery(seen, "refused")
  BY DEF TimeTravel
<1>2. t \in done /\ t \in Int /\ cleaned \in Int
  BY <1>1, ClockFacts DEF QueryInv, TableInv
<1>3. \A i : i \in seen <=> i \in Visible /\ i <= t
  OBVIOUS
<1>4. t \in seen
  BY <1>2, ClockFacts DEF Visible, TableInv
<1> HIDE DEF seen
<1>5. CASE cleaned <= t
  <2>1. query' = QueryOf(seen, FALSE)
    BY <1>1, <1>2, <1>5
  <2>2. OpenOK(Listing, done, batches, QueryOf(seen, FALSE), upsert, compaction, EarliestRetained(done), last)
    BY <1>2, <1>3, <1>5, Opened
  <2>3. OpenOK(Listing', done', batches', query', upsert', compaction', EarliestRetained(done)', last')
    BY <2>1, <2>2, SameState
  <2>4. query'.state = "open"
    BY <2>1 DEF QueryOf
  <2> QED BY <2>3, <2>4 DEF QueryInv, FailsOutsideWindow
<1>6. CASE t < cleaned
  <2>0. ~(t >= cleaned)
    BY <1>2, <1>6
  <2>1. query' = FailedQuery(seen, "refused")
    BY <1>1, <2>0
  <2>2. query'.state = "refused" /\ query'.seen = seen
    BY <2>1 DEF FailedQuery
  <2>3. QueryInv'
    BY <2>2 DEF QueryInv
  <2>4. t < EarliestRetained(done)
    <3>1. cleaned <= EarliestRetained(done) /\ config \in Configs /\ done \in SUBSET Instants
      BY ClockFacts DEF TableInv, ClockOK, CleaningOK
    <3>2. EarliestRetained(done) \in Nat
      BY <3>1, EarliestType
    <3> QED BY <1>2, <1>6, <3>1, <3>2
  <2>5. t = Newest(seen)
    <3>1. seen \in SUBSET Int /\ seen # {} /\ \A i \in seen : i <= t
      BY <1>3, <1>4 DEF Visible
    <3>2. Newest(seen) \in seen /\ \A j \in seen : j <= Newest(seen)
      BY <1>2, <3>1, NewestInt
    <3>3. Newest(seen) <= t /\ t <= Newest(seen) /\ Newest(seen) \in Int
      BY <1>4, <3>1, <3>2
    <3> QED BY <1>2, <3>3
  <2>6. \E i \in done' : i < EarliestRetained(done)' /\ i = Newest(query'.seen)
    BY <1>2, <2>2, <2>4, <2>5, SameState
  <2>7. FailsOutsideWindow'
    BY <2>2, <2>6 DEF FailsOutsideWindow
  <2> QED BY <2>3, <2>7
<1> QED BY <1>2, <1>5, <1>6

-----------------------------------------------------------------------------
(* What a compaction reads.                                                  *)

LEMMA SourceStep ==
    ASSUME TableInv, TableInv', SourceKept, [Next]_vars PROVE SourceKept'
<1> USE DEF TableInv
<1>1. compaction # None =>
        /\ compaction \in Compactions
        /\ \A f \in compaction.source : f \in Kept /\ f.at \in done /\ f.at < compaction.at
  BY DEF SourceKept, CompactionOK, TableData, PendingOK
<1>2. CASE UNCHANGED <<files, compaction, cleaning>>
  BY <1>2 DEF SourceKept, Kept, Planned
<1>3. ASSUME NEW D, NEW e, PlanOK(Planned, Kept, D, None, e)
      PROVE  CompactionPlan(D).source \subseteq Kept
  <2>1. SUFFICES ASSUME NEW f \in CompactionPlan(D).source PROVE f \in Kept
    OBVIOUS
  <2>2. PICK g \in Groups : f \in SliceFiles(g, files, D)
    <3>1. \A w \in files : w.group \in Groups
      BY ListingFacts
    <3>2. PICK g \in {w.group : w \in files} : f \in Source(g, D)
      BY DEF CompactionPlan
    <3> QED BY <3>1, <3>2 DEF Source
  <2>3. f \in files /\ f.group = g /\ \A w \in BasesOf(g, files, D) : w.at <= f.slice
    BY <2>2 DEF SliceFiles, Slices, BasesOf
  <2>4. ASSUME f \in Planned PROVE FALSE
    <3>1. PICK x \in Kept : x.group = g /\ x.kind = "base" /\ x.at \in D /\ f.slice < x.at
      BY <1>3, <2>3, <2>4 DEF PlanOK
    <3>2. x \in BasesOf(g, files, D)
      BY <3>1, ListingFacts DEF BasesOf
    <3>3. x.at <= f.slice /\ x.at \in Int /\ f.slice \in Int
      BY <2>3, <3>1, <3>2, ListingFacts
    <3> QED BY <3>1, <3>3
  <2> QED BY <2>3, <2>4 DEF Kept
<1>4. ASSUME NEW b \in Batches, NEW target \in Targets, StartUpsert(b, target) PROVE SourceKept'
  <2>1. /\ UNCHANGED <<files, compaction>>
        /\ cleaning' = IF config.clean = "async" THEN CleaningAfter(done) ELSE cleaning
    BY <1>4 DEF StartUpsert
  <2>2. Kept \ CleanPlan(done) \subseteq Kept' \/ Kept' = Kept
    BY <2>1 DEF Kept, Planned, CleaningAfter, CleaningOK, Cleanings
  <2>3. compaction # None => \A f \in compaction.source : f \notin CleanPlan(done)
    BY DEF CleanPlan, Cleanable
  <2> QED BY <1>1, <2>1, <2>2, <2>3 DEF SourceKept
<1>5. CASE CompleteUpsert
  <2> DEFINE D == done \cup {upsert.at}
             e == IF cleaning = None THEN 0 ELSE cleaning.earliest
  <2>1. /\ files' = files
        /\ cleaning' = IF config.clean = "sync" THEN CleaningAfter(D) ELSE cleaning
        /\ compaction' = IF CompactionDue(D) THEN CompactionPlan(D) ELSE compaction
    BY <1>5 DEF CompleteUpsert
  <2>2. done \subseteq D
    OBVIOUS
  <2> HIDE DEF D
  <2>3. CASE CompactionDue(D)
    <3>1. compaction = None /\ config.type = "MERGE_ON_READ" /\ compaction' = CompactionPlan(D)
      BY <2>1, <2>3 DEF CompactionDue
    <3>2. cleaning' = cleaning
      BY <2>1, <3>1, ConfigFields DEF ClockOK
    <3>3. PlanOK(Planned, Kept, D, None, e)
      BY <2>2, <3>1 DEF CleaningOK, Planned, PlanOK
    <3>4. Kept' = Kept
      BY <2>1, <3>2 DEF Kept, Planned
    <3> HIDE DEF e
    <3> QED BY <1>3, <3>1, <3>3, <3>4 DEF SourceKept
  <2>4. CASE ~CompactionDue(D)
    <3>1. compaction' = compaction
      BY <2>1, <2>4
    <3>2. Kept \ CleanPlan(D) \subseteq Kept' \/ Kept' = Kept
      BY <2>1 DEF Kept, Planned, CleaningAfter, CleaningOK, Cleanings
    <3>3. compaction # None => \A f \in compaction.source : f \notin CleanPlan(D)
      BY DEF CleanPlan, Cleanable
    <3> QED BY <1>1, <3>1, <3>2, <3>3 DEF SourceKept
  <2> QED BY <2>3, <2>4
<1>6. ASSUME NEW g \in Groups, WriteFile(g) PROVE SourceKept'
  <2>1. files' = files \cup {NewFile(g)} /\ UNCHANGED <<compaction, cleaning>> /\ upsert # None /\ g \in upsert.todo
    BY <1>6 DEF WriteFile
  <2>2. Planned' = Planned
    BY <2>1 DEF Planned
  <2>3. Kept \subseteq Kept'
    BY <2>1, <2>2 DEF Kept
  <2> QED BY <2>1, <2>3 DEF SourceKept
<1>7. CASE RollBack
  <2>1. upsert # None /\ files' = {f \in files : f.at # upsert.at} /\ UNCHANGED <<compaction, cleaning>>
    BY <1>7 DEF RollBack
  <2>2. upsert.at \notin done
    BY <2>1, UpsertFacts
  <2>3. \A f \in Kept : f.at \in done => f \in Kept'
    BY <2>1, <2>2 DEF Kept, Planned
  <2> QED BY <1>1, <2>1, <2>3 DEF SourceKept
<1>8. CASE ScheduleByCall
  <2> DEFINE e == IF cleaning = None THEN 0 ELSE cleaning.earliest
  <2>1. compaction = None /\ compaction' = CompactionPlan(done) /\ UNCHANGED <<files, cleaning>>
    BY <1>8 DEF ScheduleByCall
  <2>2. PlanOK(Planned, Kept, done, None, e)
    BY <2>1 DEF CleaningOK, Planned, PlanOK
  <2>3. Kept' = Kept
    BY <2>1 DEF Kept, Planned
  <2> HIDE DEF e
  <2> QED BY <1>3, <2>1, <2>2, <2>3 DEF SourceKept
<1>9. CASE StartCompaction
  <2>1. /\ compaction # None /\ files' = {f \in files : f.kind = "base" => f.at # compaction.at}
        /\ compaction' = [compaction EXCEPT !.state = "running", !.todo = {f.group : f \in compaction.source}]
        /\ UNCHANGED cleaning
    BY <1>9 DEF StartCompaction
  <2>2. compaction.at \notin done /\ compaction'.source = compaction.source
    BY <2>1, CompactionFacts DEF Compactions
  <2>3. \A f \in Kept : f.at \in done => f \in Kept'
    BY <2>1, <2>2 DEF Kept, Planned
  <2> QED BY <1>1, <2>1, <2>2, <2>3 DEF SourceKept
<1>10. ASSUME NEW g \in Groups, Compact(g) PROVE SourceKept'
  <2>1. /\ files \subseteq files' /\ UNCHANGED cleaning
        /\ compaction # None /\ compaction' = [compaction EXCEPT !.todo = @ \ {g}]
    BY <1>10 DEF Compact, CompactionRuns
  <2>2. compaction'.source = compaction.source
    BY <2>1, CompactionFacts DEF Compactions
  <2>3. Kept \subseteq Kept'
    BY <2>1 DEF Kept, Planned
  <2> QED BY <1>1, <2>1, <2>2, <2>3 DEF SourceKept
<1>11. CASE CompleteCompaction
  BY <1>11 DEF CompleteCompaction, SourceKept
<1>12. ASSUME NEW f \in files, CleanFile(f) PROVE SourceKept'
  <2>1. f \in cleaning.plan /\ cleaning # None /\ files' = files \ {f} /\ UNCHANGED <<cleaning, compaction>>
    BY <1>12 DEF CleanFile, CleanRuns
  <2>2. Kept' = Kept
    BY <2>1 DEF Kept, Planned
  <2> QED BY <2>1, <2>2 DEF SourceKept
<1>13. CASE CompleteClean
  <2>1. cleaning' = None /\ UNCHANGED <<files, compaction>>
    BY <1>13 DEF CompleteClean
  <2>2. Kept \subseteq Kept'
    BY <2>1 DEF Kept, Planned
  <2> QED BY <2>1, <2>2 DEF SourceKept
<1>14. CASE Crash
  <2>1. /\ files' = files
        /\ compaction' = IF compaction = None THEN None ELSE [compaction EXCEPT !.state = "crashed"]
        /\ cleaning' = IF cleaning = None THEN None ELSE [cleaning EXCEPT !.running = FALSE]
    BY <1>14 DEF Crash
  <2>2. compaction' # None => compaction # None /\ compaction'.source = compaction.source
    BY <2>1, CompactionFacts DEF Compactions
  <2>3. Planned' \subseteq Planned
    <3>1. cleaning # None => cleaning \in Cleanings /\ cleaning'.plan = cleaning.plan
      BY <2>1 DEF CleaningOK, Cleanings
    <3> QED BY <2>1, <3>1 DEF Planned
  <2>4. Kept \subseteq Kept'
    <3>1. Kept = files \ Planned /\ Kept' = files' \ Planned'
      BY DEF Kept
    <3> QED BY <2>1, <2>3, <3>1
  <2> QED BY <2>2, <2>4 DEF SourceKept
<1>15. ASSUME NEW p \in Partitions, ReadPartition(p) PROVE SourceKept'
  BY <1>2, <1>15 DEF ReadPartition, tableVars
<1>16. CASE ListCommits
  BY <1>2, <1>16 DEF ListCommits, tableVars
<1>17. ASSUME NEW b \in BOOLEAN, StartQuery(b) PROVE SourceKept'
  BY <1>2, <1>17 DEF StartQuery, tableVars
<1>18. ASSUME NEW t \in Instants, TimeTravel(t) PROVE SourceKept'
  BY <1>2, <1>18 DEF TimeTravel, tableVars
<1>19. CASE UNCHANGED vars
  BY <1>2, <1>19 DEF vars, tableVars
<1> QED BY <1>4, <1>5, <1>6, <1>7, <1>8, <1>9, <1>10, <1>11, <1>12, <1>13, <1>14, <1>15, <1>16, <1>17,
           <1>18, <1>19 DEF Next, Service

-----------------------------------------------------------------------------
(* The theorems.                                                             *)

LEMMA InvInit ==
    ASSUME Init PROVE Inv
<1>1. TableInv
  BY TableInit
<1>2. SourceKept /\ QueryInv /\ FailsOutsideWindow
  BY DEF Init, SourceKept, QueryInv, FailsOutsideWindow
<1> QED BY <1>1, <1>2 DEF Inv

LEMMA InvStep ==
    ASSUME Inv, [Next]_vars PROVE Inv'
<1> USE DEF Inv
<1>1. TableInv'
  BY TableStep
<1>2. SourceKept'
  BY <1>1, SourceStep
<1>3. QueryInv' /\ FailsOutsideWindow'
  <2>1. CASE UNCHANGED vars
    <3>1. query' = query /\ UNCHANGED <<config, tableVars>>
      BY <2>1 DEF vars
    <3> QED BY <3>1, SameState DEF QueryInv, FailsOutsideWindow
  <2>2. CASE Next /\ UNCHANGED <<config, tableVars>>
    <3>1. CASE query' = query
      BY <2>2, <3>1, SameState DEF QueryInv, FailsOutsideWindow
    <3>2. CASE query' # query
      <4>1. \/ ListCommits
            \/ \E p \in Partitions : ReadPartition(p)
            \/ \E b \in BOOLEAN : StartQuery(b)
            \/ \E t \in Instants : TimeTravel(t)
        BY <2>2, <3>2 DEF Next, Service, StartUpsert, WriteFile, CompleteUpsert, RollBack, ScheduleByCall,
           StartCompaction, CompleteCompaction, Compact, CleanFile, CompleteClean, Crash
      <4> QED BY <2>2, <4>1, QueryListStep, QueryReadStep, QueryStartStep, QueryTravelStep
    <3> QED BY <3>1, <3>2
  <2>3. CASE Next /\ ~UNCHANGED tableVars
    <3>1. query' = query
      BY <2>3 DEF Next, Service, StartUpsert, WriteFile, CompleteUpsert, RollBack, ScheduleByCall,
         StartCompaction, CompleteCompaction, Compact, CleanFile, CompleteClean, Crash,
         ReadPartition, ListCommits, StartQuery, TimeTravel
    <3> QED BY <1>1, <2>3, <3>1, QueryTableStep
  <2>4. CASE Next /\ UNCHANGED tableVars
    <3>1. UNCHANGED config
      BY <2>4 DEF Next, Service, StartUpsert, WriteFile, CompleteUpsert, RollBack, ScheduleByCall,
         StartCompaction, CompleteCompaction, Compact, CleanFile, CompleteClean, Crash,
         ReadPartition, ListCommits, StartQuery, TimeTravel
    <3> QED BY <2>2, <2>4, <3>1
  <2> QED BY <2>1, <2>3, <2>4
<1> QED BY <1>1, <1>2, <1>3

\* The invariant: the clock of the timeline, what is under way, what the files of the
\* listing say, and what the open query needs.
THEOREM TableInvariant == Spec => []Inv
<1>1. Init => Inv
  BY InvInit
<1>2. Inv /\ [Next]_vars => Inv'
  BY InvStep
<1> QED BY <1>1, <1>2, PTL DEF Spec

\* Rows come from instants up to that of their file.
LEMMA FilesOK ==
    ASSUME TableInv, NEW f \in Listing PROVE FileOK(f)
<1>1. /\ f \in Files /\ f.at \in Instants /\ f.slice \in Instants /\ f.at \in Int /\ f.slice \in Int
      /\ f.kind \in {"base", "log"}
      /\ f.kind = "base" => f.slice = f.at
      /\ f.kind = "log" => f.slice < f.at
  BY ListingFacts
<1>2. last \in Int /\ done \in SUBSET Instants /\ \A i \in done : i \in Int /\ 1 <= i /\ i <= last
  BY ClockFacts DEF TableInv
<1>3. f.at \in 1 .. last
  <2>1. upsert # None => upsert.at = last
    BY UpsertFacts
  <2>2. compaction # None => compaction.at <= last
    BY CompactionFacts
  <2>3. f.at <= last
    BY <1>2, <2>1, <2>2 DEF TableInv, TableData, FilesAt
  <2> QED BY <1>1, <1>2, <2>3 DEF Instants
<1>4. f.slice \in 1 .. last
  BY <1>1, <1>2, <1>3 DEF Instants
<1>5. DOMAIN f.rows \subseteq KeysOf(f.group.part) /\ \A k \in DOMAIN f.rows : f.rows[k] \in 1 .. f.at \cup {None}
  <2>1. CASE f.kind = "log"
    <3>1. LogContent(f, routes)
      BY <2>1 DEF TableInv, TableData, Content
    <3>2. f.at \in 1 .. f.at
      BY <1>1, <1>3
    <3>3. DOMAIN f.rows = KeysAt(routes, f.at, f.group)
      BY <3>1 DEF LogContent
    <3>4. KeysAt(routes, f.at, f.group) \subseteq KeysOf(f.group.part)
      <4>1. routes[f.at] # None /\ ClockOK
        BY <3>1 DEF LogContent, TableInv
      <4> QED BY <1>1, <4>1, RouteFacts
    <3>5. \A k \in DOMAIN f.rows : f.rows[k] = None \/ f.rows[k] = f.at
      BY <3>1 DEF LogContent
    <3>6. \A k \in DOMAIN f.rows : f.rows[k] \in 1 .. f.at \cup {None}
      BY <3>2, <3>5
    <3> QED BY <3>3, <3>4, <3>6
  <2>2. CASE f.kind = "base"
    <3>1. BaseContent(f, done, routes)
      BY <2>2 DEF TableInv, TableData, Content
    <3> DEFINE D == UpTo(done \cup {f.at}, f.at)
    <3>2. D \in SUBSET Instants
      BY <1>1, <1>2 DEF UpTo
    <3>3. \A i \in D : i \in 1 .. f.at
      BY <1>1, <1>2, <1>3 DEF UpTo
    <3> HIDE DEF D
    <3>4. \A k : Row(routes, f.group, k, D) \in D \cup {None}
      BY <3>2, RowType
    <3>5. \A k \in KeysOf(f.group.part) : f.rows[k] \in 1 .. f.at \cup {None}
      BY <3>1, <3>3, <3>4 DEF BaseContent, D
    <3> QED BY <3>1, <3>5 DEF BaseContent
  <2> QED BY <1>1, <2>1, <2>2
<1> QED BY <1>1, <1>3, <1>4, <1>5 DEF FileOK

\* Every variable has the type its comment says, whatever was written, lost, compacted,
\* cleaned and archived before.
THEOREM TableTypeCorrect == Spec => []TypeOK
<1>1. Inv => TypeOK
  <2> SUFFICES ASSUME Inv PROVE TypeOK
    OBVIOUS
  <2> USE DEF Inv, TableInv
  <2>1. /\ config \in Configs /\ last \in 0 .. MaxInstants /\ done \subseteq 1 .. last
        /\ {archived, cleaned} \subseteq 0 .. last /\ crashes \in 0 .. MaxCrashes
        /\ batches \in [Instants -> Batches \cup {None}] /\ routes \in [Instants -> Routes \cup {None}]
    BY DEF ClockOK
  <2>2. files \subseteq Listing /\ Kept \subseteq Listing /\ \A f \in Listing : FileOK(f)
    BY FilesOK, ListingFacts
  <2>3. upsert # None => upsert \in Upserts /\ upsert.at \in 1 .. last \ done
    BY UpsertFacts, ClockFacts DEF Instants
  <2>4. compaction # None => /\ compaction \in Compactions
                             /\ compaction.at \in 1 .. last \ done
                             /\ \A f \in compaction.source : FileOK(f) /\ f.at < compaction.at
    <3>1. compaction # None => \A f \in compaction.source : f \in Listing /\ f.at < compaction.at
      BY <2>2 DEF SourceKept, TableData, PendingOK
    <3> QED BY <2>2, <3>1 DEF CompactionOK
  <2>5. cleaning # None => cleaning \in Cleanings /\ \A f \in cleaning.plan : FileOK(f)
    BY <2>2 DEF CleaningOK, Listing
  <2> QED BY <2>1, <2>2, <2>3, <2>4, <2>5 DEF TypeOK
<1> QED BY <1>1, TableInvariant, PTL

LEMMA TruthIs ==
    ASSUME NEW p, NEW seen
    PROVE  Truth(p, seen) = KeyRows(batches, p, done \cap seen)
BY DEF Truth, KeyRows, KeyRow, KeyWrites

\* "Hudi will not expose those 500,000 records", "will still see the snapshot from the
\* most recent completed commit": for any history of writes, crashes, roll-backs,
\* compactions, cleans and archival, a query gets exactly the writes that were complete
\* when it started.
THEOREM ReadersSeeCommits == Spec => []QueriesReadCommits
<1>1. Inv => QueriesReadCommits
  <2> SUFFICES ASSUME Inv, Answers, ~query.baseOnly, NEW p \in DOMAIN query.got
               PROVE  query.got[p] = Truth(p, query.seen)
    BY DEF QueriesReadCommits
  <2>1. OpenOK(Listing, done, batches, query, upsert, compaction, EarliestRetained(done), last)
    BY DEF Inv, QueryInv, Answers
  <2>2. p \in Partitions /\ query.got[p] = RowsIn(FilesOf(query, p))
    BY <2>1 DEF OpenOK
  <2>3. RowsIn(FilesOf(query, p)) = KeyRows(batches, p, done \cap query.seen)
    BY <2>1, <2>2 DEF OpenOK
  <2> QED BY <2>2, <2>3, TruthIs
<1> QED BY <1>1, TableInvariant, PTL

\* "Only base parquet, no log files": every row a read-optimized query shows was in the
\* table at some instant that is not before the last completed compaction, and the query
\* has a row for every key the table has.
THEOREM ReadOptimizedShowsPast == Spec => []ReadOptimizedLags
<1>1. Inv => ReadOptimizedLags
  <2> SUFFICES ASSUME Inv, Answers, query.baseOnly, NEW p \in DOMAIN query.got
               PROVE  /\ \A r \in query.got[p] : \E t \in Instants :
                            /\ \A i \in query.seen \cap done : batches[i] = None => i <= t
                            /\ r \in Truth(p, {i \in query.seen : i <= t})
                      /\ \A r \in Truth(p, query.seen) : \E x \in query.got[p] : x.key = r.key
    BY DEF ReadOptimizedLags
  <2>1. OpenOK(Listing, done, batches, query, upsert, compaction, EarliestRetained(done), last)
    BY DEF Inv, QueryInv, Answers
  <2>2. p \in Partitions /\ query.got[p] = RowsIn(FilesOf(query, p))
    BY <2>1 DEF OpenOK
  <2>3. Lagging(query.got[p], batches, done, query.seen, p)
    BY <2>1, <2>2 DEF OpenOK
  <2>4. ASSUME NEW r \in query.got[p]
        PROVE  \E t \in Instants :
                   /\ \A i \in query.seen \cap done : batches[i] = None => i <= t
                   /\ r \in Truth(p, {i \in query.seen : i <= t})
    <3>1. PICK t \in Instants :
              /\ \A i \in query.seen \cap done : batches[i] = None => i <= t
              /\ r \in KeyRows(batches, p, done \cap {i \in query.seen : i <= t})
      BY <2>3 DEF Lagging
    <3>2. r \in Truth(p, {i \in query.seen : i <= t})
      BY <3>1, TruthIs
    <3> QED BY <3>1, <3>2
  <2>5. \A r \in Truth(p, query.seen) : \E x \in query.got[p] : x.key = r.key
    BY <2>3, TruthIs DEF Lagging
  <2> QED BY <2>4, <2>5
<1> QED BY <1>1, TableInvariant, PTL

\* "Your time-travel window equals your cleaner retention window": a query loses a file
\* only after a commit it does not include has left the retained ones, and it is refused
\* only when its own instant has.
THEOREM WindowIsRetention == Spec => []FailsOutsideWindow
<1>1. Inv => FailsOutsideWindow
  BY DEF Inv
<1> QED BY <1>1, TableInvariant, PTL

-----------------------------------------------------------------------------
(* The files implement a table that changes by whole batches.                *)

RowsAfter(bs, D) ==
    {[key |-> k, from |-> KeyRow(bs, k, D)] : k \in {x \in Keys : KeyRow(bs, x, D) # None}}
FilesHoldRows == CurrentRows = RowsAfter(batches, done)

LEMMA FilesHold ==
    ASSUME TableInv PROVE FilesHoldRows
<1> DEFINE S == Slices(files, Visible)
<1>1. CurrentRows = RowsIn(S)
  BY DEF CurrentRows
<1>2. ClockOK /\ last \in Int /\ UpTo(done, last) = done
  BY ClockFacts DEF TableInv, UpTo
<1>3. \A f \in S : f.group \in Groups /\ f.group.part \in Partitions
  BY ListingFacts DEF Slices, Groups
<1>4. ASSUME NEW g \in Groups
      PROVE  Merged(g, InGroup(S, g)) = RowsOf(routes, g, UpTo(done, last))
  <2>1. InGroup(S, g) = SliceFiles(g, files, Visible)
    BY DEF InGroup, SliceFiles
  <2> HIDE DEF S
  <2> QED BY <1>2, <2>1, Snapshot
<1> HIDE DEF S
<1>5. \A g \in Groups : g.part \in Partitions =>
         Merged(g, InGroup(S, g)) = RowsOf(routes, g, UpTo(done, last))
  BY <1>4
<1>6. \A r : r \in RowsIn(S) <=>
                \E k \in Keys : PartitionOf[k] \in Partitions /\ TableRow(batches, k, UpTo(done, last), r)
  BY <1>2, <1>3, <1>5, RowsOfTable
<1>7. \A k \in Keys : PartitionOf[k] \in Partitions
  BY HudiAssumption
<1>8. \A r : r \in RowsIn(S) <=> \E k \in Keys : TableRow(batches, k, done, r)
  BY <1>2, <1>6, <1>7
<1>9. \A r : r \in RowsAfter(batches, done) <=> \E k \in Keys : TableRow(batches, k, done, r)
  BY DEF RowsAfter, TableRow
<1> QED BY <1>1, <1>8, <1>9 DEF FilesHoldRows

LEMMA SameRows ==
    ASSUME NEW D1 \in SUBSET Instants, NEW D2, NEW bs1, NEW bs2,
           \A k \in Keys : KeyWrites(bs1, k, D1) = KeyWrites(bs2, k, D2),
           \A i \in D1 : bs1[i] = bs2[i]
    PROVE  RowsAfter(bs1, D1) = RowsAfter(bs2, D2)
<1>1. ASSUME NEW k \in Keys PROVE KeyRow(bs1, k, D1) = KeyRow(bs2, k, D2)
  <2>1. KeyWrites(bs1, k, D1) = KeyWrites(bs2, k, D2)
    OBVIOUS
  <2>2. KeyWrites(bs1, k, D1) # {} => Newest(KeyWrites(bs1, k, D1)) \in D1
    <3>1. KeyWrites(bs1, k, D1) \in SUBSET Instants /\ KeyWrites(bs1, k, D1) \subseteq D1
      BY DEF KeyWrites
    <3> QED BY <3>1, NewestOf
  <2> QED BY <2>1, <2>2 DEF KeyRow
<1> QED BY <1>1 DEF RowsAfter

\* A commit replaces the rows of the keys of its batch.
LEMMA CommittedRows ==
    ASSUME NEW D \in SUBSET Instants, NEW u \in Instants, \A i \in D : i < u,
           NEW bs, bs[u] \in Batches
    PROVE  RowsAfter(bs, D \cup {u}) =
              {r \in RowsAfter(bs, D) : r.key \notin DOMAIN bs[u]}
                \cup {[key |-> k, from |-> u] : k \in {x \in DOMAIN bs[u] : bs[u][x] = "u"}}
<1> DEFINE b == bs[u]
           new(k) == IF k \in DOMAIN b THEN IF b[k] = "d" THEN None ELSE u ELSE KeyRow(bs, k, D)
           after == {r \in RowsAfter(bs, D) : r.key \notin DOMAIN b}
                      \cup {[key |-> k, from |-> u] : k \in {x \in DOMAIN b : b[x] = "u"}}
<1>1. /\ b # None /\ DOMAIN b \subseteq Keys /\ \A k \in DOMAIN b : b[k] \in {"u", "d"}
      /\ u # None
  BY HudiAssumption, NoneAssumption
<1>2. \A k : KeyRow(bs, k, D \cup {u}) = new(k)
  BY <1>1, KeyRowAfterWrite
<1>3. ASSUME NEW r \in RowsAfter(bs, D \cup {u}) PROVE r \in after
  <2>1. PICK k \in Keys : new(k) # None /\ r = [key |-> k, from |-> new(k)]
    BY <1>2 DEF RowsAfter
  <2>2. CASE k \in DOMAIN b
    BY <1>1, <2>1, <2>2
  <2>3. CASE k \notin DOMAIN b
    <3>1. r \in RowsAfter(bs, D)
      BY <2>1, <2>3 DEF RowsAfter
    <3> QED BY <2>1, <2>3, <3>1
  <2> QED BY <2>2, <2>3
<1>4. ASSUME NEW r \in after PROVE r \in RowsAfter(bs, D \cup {u})
  <2>1. CASE r \in RowsAfter(bs, D) /\ r.key \notin DOMAIN b
    <3>1. PICK k \in Keys : KeyRow(bs, k, D) # None /\ r = [key |-> k, from |-> KeyRow(bs, k, D)]
      BY <2>1 DEF RowsAfter
    <3>2. new(k) = KeyRow(bs, k, D)
      BY <2>1, <3>1
    <3> QED BY <1>2, <3>1, <3>2 DEF RowsAfter
  <2>2. CASE \E k \in DOMAIN b : b[k] = "u" /\ r = [key |-> k, from |-> u]
    <3>1. PICK k \in DOMAIN b : b[k] = "u" /\ r = [key |-> k, from |-> u]
      BY <2>2
    <3>2. new(k) = u /\ k \in Keys
      BY <1>1, <3>1
    <3> QED BY <1>1, <1>2, <3>1, <3>2 DEF RowsAfter
  <2> QED BY <1>4, <2>1, <2>2
<1> QED BY <1>3, <1>4

LEMMA RowsStep ==
    ASSUME TableInv, FilesHoldRows, FilesHoldRows', [Next]_vars
    PROVE  [Atomic!Next]_CurrentRows
<1> SUFFICES ASSUME CurrentRows' # CurrentRows
             PROVE  \E b \in Batches : Atomic!Upsert(b)
  BY DEF Atomic!Next
<1>1. CurrentRows = RowsAfter(batches, done) /\ CurrentRows' = RowsAfter(batches', done')
  BY DEF FilesHoldRows
<1>2. done \in SUBSET Instants /\ last \in Int /\ \A i \in done : i \in Int /\ i <= last
  BY ClockFacts DEF TableInv
<1>3. CASE done' = done /\ \A i \in done : batches'[i] = batches[i]
  <2>1. \A k \in Keys : KeyWrites(batches, k, done) = KeyWrites(batches', k, done')
    BY <1>3 DEF KeyWrites
  <2>2. RowsAfter(batches, done) = RowsAfter(batches', done')
    BY <1>2, <1>3, <2>1, SameRows
  <2> QED BY <1>1, <2>2
<1>4. CASE CompleteCompaction
  <2>1. compaction # None /\ done' = done \cup {compaction.at} /\ batches' = batches
    BY <1>4 DEF CompleteCompaction, CompactionRuns
  <2>2. batches[compaction.at] = None
    <3>1. compaction.at \in Instants /\ routes[compaction.at] = None
      BY <2>1, CompactionFacts
    <3> QED BY <3>1 DEF TableInv, ClockOK, RouteTyped
  <2>3. \A k \in Keys : KeyWrites(batches, k, done) = KeyWrites(batches', k, done')
    BY <2>1, <2>2 DEF KeyWrites
  <2>4. RowsAfter(batches, done) = RowsAfter(batches', done')
    BY <1>2, <2>1, <2>3, SameRows
  <2> QED BY <1>1, <2>4
<1>5. CASE CompleteUpsert
  <2>1. upsert # None /\ done' = done \cup {upsert.at} /\ batches' = batches
    BY <1>5 DEF CompleteUpsert
  <2>2. /\ upsert.at = last /\ last \in Instants /\ \A i \in done : i < last
        /\ batches[last] \in Batches
    BY <2>1, UpsertFacts
  <2> DEFINE b == batches[last]
  <2>3. CurrentRows' = {r \in CurrentRows : r.key \notin DOMAIN b}
                         \cup {[key |-> k, from |-> last] : k \in {x \in DOMAIN b : b[x] = "u"}}
    BY <1>1, <1>2, <2>1, <2>2, CommittedRows
  <2>4. \A r \in CurrentRows : r.from < last
    <3>1. SUFFICES ASSUME NEW r \in RowsAfter(batches, done) PROVE r.from < last
      BY <1>1
    <3>2. PICK k \in Keys : KeyRow(batches, k, done) # None /\ r.from = KeyRow(batches, k, done)
      BY DEF RowsAfter
    <3>3. KeyRow(batches, k, done) \in done \cup {None}
      <4>1. KeyWrites(batches, k, done) \in SUBSET Instants /\ KeyWrites(batches, k, done) \subseteq done
        BY <1>2 DEF KeyWrites
      <4>2. KeyWrites(batches, k, done) # {} => Newest(KeyWrites(batches, k, done)) \in done
        BY <4>1, NewestOf
      <4> QED BY <4>2 DEF KeyRow
    <3> QED BY <2>2, <3>2, <3>3
  <2>5. Atomic!Upsert(b)
    BY <2>2, <2>3, <2>4 DEF Atomic!Upsert, Atomic!Untouched, Atomic!Upserted
  <2> QED BY <2>2, <2>5
<1>6. ASSUME NEW b \in Batches, NEW target \in Targets, StartUpsert(b, target)
      PROVE  done' = done /\ \A i \in done : batches'[i] = batches[i]
  <2>1. done' = done /\ batches' = [batches EXCEPT ![last + 1] = b]
    BY <1>6 DEF StartUpsert
  <2>2. \A i \in done : i # last + 1 /\ i \in Instants
    BY <1>2
  <2> QED BY <2>1, <2>2 DEF TableInv, ClockOK
<1>7. \/ done' = done /\ batches' = batches
      \/ CompleteCompaction \/ CompleteUpsert
      \/ \E b \in Batches, target \in Targets : StartUpsert(b, target)
  BY DEF Next, Service, WriteFile, RollBack, ScheduleByCall, StartCompaction, Compact, CleanFile,
     CompleteClean, Crash, ReadPartition, ListCommits, StartQuery, TimeTravel, vars, tableVars
<1> QED BY <1>3, <1>4, <1>5, <1>6, <1>7

\* The table services are not seen, and writes are seen as a whole: for any table the
\* detailed specification implements the one that only changes by whole batches.
THEOREM FilesAreAtomicUpserts == Spec => RefinesAtomicUpserts
<1>1. Init => Atomic!Init
  <2> SUFFICES ASSUME Init PROVE CurrentRows = {}
    BY DEF Atomic!Init
  <2>1. CurrentRows = RowsAfter(batches, {})
    BY TableInit, FilesHold DEF FilesHoldRows, Init
  <2>2. \A k \in Keys : KeyRow(batches, k, {}) = None
    BY DEF KeyRow, KeyWrites
  <2> QED BY <2>1, <2>2 DEF RowsAfter
<1>2. TableInv => FilesHoldRows
  BY FilesHold
<1>3. TableInv /\ FilesHoldRows /\ FilesHoldRows' /\ [Next]_vars => [Atomic!Next]_CurrentRows
  BY RowsStep
<1>4. Inv => TableInv
  BY DEF Inv
<1> QED BY <1>1, <1>2, <1>3, <1>4, TableInvariant, PTL DEF Spec, RefinesAtomicUpserts, Atomic!Spec

===============================================================================
