------------------------------ MODULE StreamProofs ------------------------------
(***************************************************************************)
(* Theorems about StreamIngest, for any orders, partitions and events, and *)
(* for any number of crashes, replays and removals by retention.           *)
(***************************************************************************)
EXTENDS StreamIngest, FiniteSetTheorems, TLAPS

\* The log of a partition: its length, the partition of an order's events, their times.
LogOK ==
    \A p \in Partitions :
        /\ Len(topic[p]) <= MaxLog
        /\ \A i \in 1 .. Len(topic[p]) :
              topic[p][i].order \in Orders => p = PartitionOf[topic[p][i].order]
        /\ \A i, j \in 1 .. Len(topic[p]) :
              i <= j /\ topic[p][i].order = topic[p][j].order => topic[p][i].ts <= topic[p][j].ts

OffsetsOK ==
    \A p \in Partitions :
        /\ expired[p] <= Len(topic[p])
        /\ origin[p] <= committed[p]
        /\ committed[p] <= planned[p]
        /\ planned[p] <= Len(topic[p])

ControlOK ==
    /\ pc = "new" => /\ \A t \in Tables : shown[t] = Zero
                     /\ \A t \in Tables, o \in Orders : table[t][o] = NoRow
    /\ pc \in {"new", "idle"} => planned = committed
    /\ pc \notin {"cow", "mor", "commit"} => batch = {}
    /\ \A t \in Tables : shown[t] = committed \/ shown[t] = planned
    /\ pc = "mor" => shown["cow"] = planned
    /\ pc = "commit" /\ batch # {} => \A t \in Tables : shown[t] = planned

\* In each partition the batch has the last of the planned events, and what it
\* does not have was removed.
BatchOK ==
    /\ batch \subseteq Between(committed, planned)
    /\ \A x \in batch : EventAt(x).order \in Orders
    /\ \A y \in batch, x \in Between(committed, planned) :
          x[1] = y[1] /\ y[2] <= x[2] /\ EventAt(x).order \in Orders => x \in batch
    /\ pc \in {"cow", "mor", "commit"} =>
          \A x \in Between(committed, planned) \ batch :
              EventAt(x).order \in Orders => x[2] <= expired[x[1]]

MissedOK ==
    \A t \in Tables :
        /\ missed[t] \subseteq Between(Zero, shown[t])
        /\ missed[t] \subseteq Gone
        /\ missed[t] \cap batch = {}

\* Row r shows the newest of the events of o at the offsets xs of the log.
Showing(log, r, o, xs) ==
    \/ \E x \in xs :
          /\ log[x[1]][x[2]].order = o
          /\ \A y \in xs : log[y[1]][y[2]].order = o => log[y[1]][y[2]].ts <= log[x[1]][x[2]].ts
          /\ r = IF log[x[1]][x[2]].op = "d" THEN NoRow ELSE log[x[1]][x[2]]
    \/ /\ r = NoRow
       /\ \A x \in xs : log[x[1]][x[2]].order # o

\* What table t was made from.
Seen(t) == Between(Zero, shown[t]) \ missed[t]

RowsOK == \A t \in Tables, o \in Orders : Showing(topic, table[t][o], o, Seen(t))

\* The inductive invariant.
Inv == TypeOK /\ LogOK /\ OffsetsOK /\ ControlOK /\ BatchOK /\ MissedOK /\ RowsOK

-----------------------------------------------------------------------------
(* Operators.                                                               *)

\* A partition's part of a batch is never more than it has, and never negative.
LEMMA ShareBounds ==
    ASSUME TypeOK, LogOK, OffsetsOK, NEW p \in Partitions,
           \E q \in Partitions : Unread(q) > 0
    PROVE  Share(p) \in 0 .. Unread(p)
<1> DEFINE all == Cardinality(Between(committed, End))
           part == (MaxOffsetsPerTrigger * Unread(p)) \div all
<1>1. \A q \in Partitions : Unread(q) \in Nat /\ Len(topic[q]) \in Nat /\ committed[q] \in Nat
  <2> SUFFICES ASSUME NEW q \in Partitions
               PROVE  Unread(q) \in Nat /\ Len(topic[q]) \in Nat /\ committed[q] \in Nat
    OBVIOUS
  <2>1. committed[q] \in Nat /\ planned[q] \in Nat
    BY DEF TypeOK
  <2>2. Len(topic[q]) \in Nat
    BY DEF TypeOK
  <2>3. committed[q] <= planned[q] /\ planned[q] <= Len(topic[q])
    BY DEF OffsetsOK
  <2>4. Len(topic[q]) - committed[q] \in Nat
    BY <2>1, <2>2, <2>3
  <2> QED BY <2>1, <2>2, <2>4 DEF Unread
<1>2. all \in Nat \ {0}
  <2>1. IsFiniteSet(1 .. MaxLog)
    BY StreamAssumption, FS_Interval
  <2>2. IsFiniteSet(Offsets)
    BY <2>1, StreamAssumption, FS_Product DEF Offsets
  <2>3. IsFiniteSet(Between(committed, End))
    BY <2>2, FS_Subset DEF Between
  <2>4. Between(committed, End) # {}
    <3>1. PICK q \in Partitions : Unread(q) > 0
      OBVIOUS
    <3>2. Len(topic[q]) \in 1 .. MaxLog
      BY <3>1, <1>1, StreamAssumption DEF LogOK, Unread
    <3>3. <<q, Len(topic[q])>> \in Between(committed, End)
      BY <3>1, <3>2, <1>1 DEF Between, Offsets, End, Unread
    <3> QED BY <3>3
  <2> QED BY <2>3, <2>4, FS_CardinalityType, FS_EmptySet
<1>3. part \in Nat
  <2> DEFINE a == MaxOffsetsPerTrigger * Unread(p)
  <2>1. a \in Nat
    BY <1>1, StreamAssumption
  <2> HIDE DEF a, all
  <2>2. a \div all \in Nat
    BY <2>1, <1>2
  <2> QED BY <2>2 DEF a
<1> HIDE DEF part
<1>4. Min({part, Unread(p)}) \in 0 .. Unread(p)
  <2>1. CASE part <= Unread(p)
    <3>1. Min({part, Unread(p)}) = part
      BY <2>1, <1>1, <1>3 DEF Min
    <3> QED BY <3>1, <2>1, <1>1, <1>3
  <2>2. CASE ~ (part <= Unread(p))
    <3>1. Min({part, Unread(p)}) = Unread(p)
      BY <2>2, <1>1, <1>3 DEF Min
    <3> QED BY <3>1, <1>1
  <2> QED BY <2>1, <2>2
<1>5. Share(p) = IF Unread(p) > 0 /\ part = 0 THEN 1 ELSE Min({part, Unread(p)})
  BY DEF Share, part
<1> QED BY <1>1, <1>4, <1>5

\* Types that the steps below use over and over.
LEMMA Numbers ==
    ASSUME TypeOK, NEW p \in Partitions
    PROVE  /\ expired[p] \in Nat /\ planned[p] \in Nat /\ committed[p] \in Nat /\ origin[p] \in Nat
           /\ Len(topic[p]) \in Nat /\ Zero[p] = 0
           /\ \A t \in Tables : shown[t][p] \in Nat
<1>1. \A f : f \in [Partitions -> 0 .. MaxLog] => f[p] \in Nat
  BY StreamAssumption
<1>2. \A t \in Tables : shown[t] \in [Partitions -> 0 .. MaxLog]
  BY DEF TypeOK
<1> QED BY <1>1, <1>2 DEF TypeOK, Zero

LEMMA Pairs ==
    ASSUME NEW x \in Offsets
    PROVE  x = <<x[1], x[2]>> /\ x[1] \in Partitions /\ x[2] \in Nat /\ 0 < x[2] /\ x[2] \in 1 .. MaxLog
BY StreamAssumption DEF Offsets

\* What is at an offset that the log has.
LEMMA EventTyped ==
    ASSUME TypeOK, NEW x \in Offsets, x[2] <= Len(topic[x[1]])
    PROVE  /\ x[1] \in Partitions /\ x[2] \in 1 .. Len(topic[x[1]])
           /\ EventAt(x) \in Events /\ EventAt(x).ts \in Nat /\ EventAt(x).op \in {"i", "u", "d"}
           /\ EventAt(x) # NoRow
<1>1. x[1] \in Partitions /\ x[2] \in 1 .. MaxLog
  BY DEF Offsets
<1>2. topic[x[1]] \in Seq(Events)
  BY <1>1 DEF TypeOK
<1>3. x[2] \in 1 .. Len(topic[x[1]])
  BY <1>1, <1>2, StreamAssumption
<1>4. EventAt(x) \in Events
  BY <1>2, <1>3 DEF EventAt
<1> QED BY <1>1, <1>3, <1>4, StreamAssumption

\* An order's events are in one partition, and the later ones are not older.
LEMMA LaterIsNewer ==
    ASSUME TypeOK, LogOK, NEW x \in Offsets, NEW y \in Offsets,
           x[2] <= Len(topic[x[1]]), y[2] <= Len(topic[y[1]]),
           EventAt(x).order \in Orders, EventAt(x).order = EventAt(y).order
    PROVE  /\ x[1] = y[1]
           /\ x[2] <= y[2] => EventAt(x).ts <= EventAt(y).ts
<1>1. x[1] \in Partitions /\ x[2] \in 1 .. Len(topic[x[1]])
  BY EventTyped
<1>2. y[1] \in Partitions /\ y[2] \in 1 .. Len(topic[y[1]])
  BY EventTyped
<1>3. x[1] = PartitionOf[EventAt(x).order] /\ y[1] = PartitionOf[EventAt(y).order]
  BY <1>1, <1>2 DEF LogOK, EventAt
<1>4. ASSUME x[2] <= y[2] PROVE EventAt(x).ts <= EventAt(y).ts
  <2> DEFINE p == x[1]  i == x[2]  j == y[2]
  <2>1. y[1] = p
    BY <1>3
  <2>2. p \in Partitions /\ i \in 1 .. Len(topic[p]) /\ j \in 1 .. Len(topic[p]) /\ i <= j
    BY <1>1, <1>2, <1>4, <2>1
  <2>3. topic[p][i] = EventAt(x) /\ topic[p][j] = EventAt(y)
    BY <2>1 DEF EventAt
  <2> HIDE DEF p, i, j
  <2> QED BY <2>2, <2>3 DEF LogOK
<1> QED BY <1>3, <1>4

\* The record that is kept for an order is the newest of the whole log up to the end
\* of the batch, also when the batch is run again and has lost its first events.
LEMMA KeptIsNewest ==
    ASSUME TypeOK, LogOK, OffsetsOK, BatchOK,
           NEW o \in Orders, o \in OrdersIn(batch), NEW e \in Precombined(o)
    PROVE  \E y \in batch :
              /\ EventAt(y) = e
              /\ e.order = o
              /\ \A x \in Between(Zero, planned) : EventAt(x).order = o => EventAt(x).ts <= e.ts
<1>1. PICK y \in batch : EventAt(y) = e /\ e.order = o
  BY DEF Precombined, EventsIn
<1>2. \A d \in EventsIn(batch) : d.order = o => d.ts <= e.ts
  BY DEF Precombined
<1> SUFFICES ASSUME NEW x \in Between(Zero, planned), EventAt(x).order = o
             PROVE  EventAt(x).ts <= e.ts
  BY <1>1
<1>3. y \in Offsets /\ y[1] \in Partitions /\ committed[y[1]] < y[2] /\ y[2] <= planned[y[1]]
  BY Pairs DEF BatchOK, Between
<1>4. x \in Offsets /\ x[1] \in Partitions /\ x[2] \in Nat /\ 0 < x[2] /\ x[2] <= planned[x[1]]
  BY Pairs DEF Between
<1>5. x[2] <= Len(topic[x[1]]) /\ y[2] <= Len(topic[y[1]])
  <2>1. planned[x[1]] <= Len(topic[x[1]]) /\ planned[y[1]] <= Len(topic[y[1]])
    BY <1>3, <1>4 DEF OffsetsOK
  <2> QED BY <1>3, <1>4, <2>1, Numbers, Pairs
<1>6. x[1] = y[1]
  BY <1>1, <1>3, <1>4, <1>5, LaterIsNewer
<1>7. CASE x[2] <= y[2]
  BY <1>1, <1>3, <1>4, <1>5, <1>7, LaterIsNewer
<1>8. CASE ~ (x[2] <= y[2])
  <2>1. y[2] \in Nat /\ y[2] <= x[2] /\ committed[x[1]] \in Nat
    BY <1>3, <1>4, <1>8, Numbers, Pairs
  <2>2. x \in Between(committed, planned)
    BY <1>3, <1>4, <1>6, <2>1 DEF Between
  <2>3. x \in batch
    BY <1>6, <2>1, <2>2 DEF BatchOK
  <2> QED BY <1>2, <2>3 DEF EventsIn
<1> QED BY <1>7, <1>8

\* What a table is brought past without having it.
Passing(t) == {x \in Between(shown[t], planned) \ batch : EventAt(x).order \in Orders}

LEMMA Up ==
    ASSUME TypeOK, OffsetsOK, ControlOK, NEW t \in Tables
    PROVE  /\ \A p \in Partitions : shown[t][p] <= planned[p] /\ planned[p] <= Len(topic[p])
           /\ \A p \in Partitions : committed[p] <= shown[t][p]
           /\ Between(Zero, planned) = Between(Zero, shown[t]) \cup Between(shown[t], planned)
           /\ Between(shown[t], planned) \subseteq Between(committed, planned)
<1>1. \A p \in Partitions : /\ committed[p] <= shown[t][p] /\ shown[t][p] <= planned[p]
                           /\ planned[p] <= Len(topic[p])
  BY Numbers DEF OffsetsOK, ControlOK
<1>2. Between(Zero, planned) = Between(Zero, shown[t]) \cup Between(shown[t], planned)
  BY <1>1, Numbers, Pairs DEF Between
<1>3. Between(shown[t], planned) \subseteq Between(committed, planned)
  BY <1>1, Numbers, Pairs DEF Between
<1> QED BY <1>1, <1>2, <1>3

\* An order that the batch has no event of: its row is as good after the batch as before.
LEMMA UntouchedRow ==
    ASSUME TypeOK, LogOK, OffsetsOK, ControlOK, NEW t \in Tables, NEW o \in Orders,
           o \notin OrdersIn(batch), NEW r, Showing(topic, r, o, Seen(t))
    PROVE  Showing(topic, r, o, Between(Zero, planned) \ (missed[t] \cup Passing(t)))
<1> DEFINE after == Between(Zero, planned) \ (missed[t] \cup Passing(t))
<1>1. \A x \in after : EventAt(x).order = o => x \in Seen(t)
  <2> SUFFICES ASSUME NEW x \in after, EventAt(x).order = o PROVE x \in Seen(t)
    OBVIOUS
  <2>1. x \notin batch
    BY DEF OrdersIn, EventsIn
  <2>2. x \notin Between(shown[t], planned)
    BY <2>1 DEF Passing
  <2> QED BY <2>2, Up DEF Seen
<1>2. \A x \in Seen(t) : x \in after \/ EventAt(x).order # o \/ x \in Passing(t)
  BY Up DEF Seen
<1>3. \A x \in Seen(t) : x \notin Passing(t)
  <2>1. \A x \in Between(Zero, shown[t]) : x \notin Between(shown[t], planned)
    BY Numbers, Pairs DEF Between
  <2> QED BY <2>1 DEF Seen, Passing
<1>4. \A x : EventAt(x).order = o => (x \in after <=> x \in Seen(t))
  BY <1>1, <1>2, <1>3
<1> HIDE DEF after
<1>5. CASE \A x \in Seen(t) : EventAt(x).order # o
  <2>1. \A x \in after : EventAt(x).order # o
    BY <1>4, <1>5
  <2>2. r = NoRow
    BY <1>5 DEF Showing, EventAt
  <2> QED BY <2>1, <2>2 DEF Showing, EventAt, after
<1>6. CASE ~ \A x \in Seen(t) : EventAt(x).order # o
  <2>1. PICK x \in Seen(t) :
            /\ EventAt(x).order = o
            /\ \A y \in Seen(t) : EventAt(y).order = o => EventAt(y).ts <= EventAt(x).ts
            /\ r = IF EventAt(x).op = "d" THEN NoRow ELSE EventAt(x)
    BY <1>6 DEF Showing, EventAt
  <2>2. x \in after /\ \A y \in after : EventAt(y).order = o => EventAt(y).ts <= EventAt(x).ts
    BY <1>4, <2>1
  <2> QED BY <2>1, <2>2 DEF Showing, EventAt, after
<1> QED BY <1>5, <1>6

\* An order that it has an event of: its row is the newest after the batch.
LEMMA WrittenRow ==
    ASSUME TypeOK, LogOK, OffsetsOK, ControlOK, BatchOK, MissedOK, NEW t \in Tables, NEW o \in Orders,
           o \in OrdersIn(batch), NEW e \in Precombined(o)
    PROVE  Showing(topic, IF e.op = "d" THEN NoRow ELSE e, o,
                   Between(Zero, planned) \ (missed[t] \cup Passing(t)))
<1>1. PICK y \in batch : /\ EventAt(y) = e /\ e.order = o
                         /\ \A x \in Between(Zero, planned) : EventAt(x).order = o => EventAt(x).ts <= e.ts
  BY KeptIsNewest
<1>2. y \notin missed[t] /\ y \notin Passing(t)
  BY DEF MissedOK, Passing
<1>3. y \in Between(Zero, planned)
  <2>1. y \in Offsets /\ y[1] \in Partitions /\ committed[y[1]] < y[2] /\ y[2] <= planned[y[1]]
    BY Pairs DEF BatchOK, Between
  <2>2. committed[y[1]] \in Nat /\ y[2] \in Nat /\ Zero[y[1]] = 0
    BY <2>1, Numbers, Pairs
  <2> QED BY <2>1, <2>2 DEF Between
<1> QED BY <1>1, <1>2, <1>3 DEF Showing, EventAt

-----------------------------------------------------------------------------
(* Steps.                                                                   *)

\* What a step does to what a table shows, apart from its rows.
ViewStep(t) ==
    /\ \A p \in Partitions :
          /\ shown[t][p] <= shown'[t][p]
          /\ shown'[t][p] <= Len(topic'[p])
          /\ Len(topic[p]) <= Len(topic'[p])
          /\ \A i \in 1 .. Len(topic[p]) : topic'[p][i] = topic[p][i]
    /\ missed[t] \subseteq missed'[t]
    /\ missed'[t] \ missed[t] \subseteq Gone'
    /\ missed'[t] \cap Between(Zero, shown[t]) = missed[t]

\* A row that is replaced is replaced by one that is not older.
NotOlder(t) ==
    \A o \in Orders :
        table[t][o] # NoRow /\ table'[t][o] # NoRow => table[t][o].ts <= table'[t][o].ts

LEMMA InitInv == Init => Inv
<1> SUFFICES ASSUME Init PROVE Inv
  OBVIOUS
<1>1. TypeOK
  <2>1. Zero \in [Partitions -> 0 .. MaxLog]
    BY StreamAssumption DEF Zero
  <2>2. topic \in [Partitions -> Seq(Events)]
    BY DEF Init
  <2> QED BY <2>1, <2>2, StreamAssumption DEF Init, TypeOK, Rows
<1>2. \A p \in Partitions : Len(topic[p]) = 0
  BY DEF Init
<1>3. LogOK
  BY <1>2, StreamAssumption DEF LogOK
<1>4. OffsetsOK
  BY <1>2 DEF OffsetsOK, Init, Zero
<1>5. ControlOK
  BY DEF ControlOK, Init
<1>6. BatchOK
  BY DEF BatchOK, Init
<1>7. MissedOK
  BY DEF MissedOK, Init
<1>8. RowsOK
  <2>1. Between(Zero, Zero) = {}
    BY Pairs DEF Between, Zero
  <2>2. \A t \in Tables : Seen(t) = {}
    BY <2>1 DEF Seen, Init
  <2> QED BY <2>2 DEF RowsOK, Showing, Init
<1> QED BY <1>1, <1>3, <1>4, <1>5, <1>6, <1>7, <1>8 DEF Inv

\* The offsets that a table is brought past without having them were removed.
LEMMA PassedIsGone ==
    ASSUME Inv, pc \in {"cow", "mor", "commit"}, NEW t \in Tables
    PROVE  /\ Passing(t) \subseteq Between(Zero, expired)
           /\ Passing(t) \subseteq Between(Zero, planned)
           /\ Passing(t) \cap Between(Zero, shown[t]) = {}
           /\ shown[t] = planned => Passing(t) = {}
<1>1. Passing(t) \subseteq Between(committed, planned) \ batch
  BY Up DEF Passing, Inv
<1>2. \A x \in Passing(t) : x \in Offsets /\ x[2] <= expired[x[1]]
  BY <1>1 DEF BatchOK, Inv, Passing, Between
<1>3. \A x \in Passing(t) : x \in Offsets /\ shown[t][x[1]] < x[2] /\ x[2] <= planned[x[1]]
  BY DEF Passing, Between
<1>4. \A x \in Passing(t) : Zero[x[1]] < x[2]
  BY <1>3, Numbers, Pairs DEF Inv
<1>5. \A x \in Passing(t) : ~ (x[2] <= shown[t][x[1]]) /\ x[2] \in Nat /\ shown[t][x[1]] \in Nat
  BY <1>3, Numbers, Pairs DEF Inv
<1> QED BY <1>2, <1>3, <1>4, <1>5 DEF Between

\* The tables ts are brought to the end of the batch: each row is one kept from the
\* batch, or the old one where the batch has nothing for it or the table has it already.
LEMMA Brought ==
    ASSUME Inv, pc \in {"cow", "mor", "commit"}, NEW ts \in SUBSET Tables, Bring(ts),
           UNCHANGED <<topic, expired, planned, origin>>,
           \A t \in Tables \ ts : table'[t] = table[t],
           \A t \in ts, o \in Orders :
              \/ table'[t][o] = table[t][o] /\ (o \notin OrdersIn(batch) \/ shown[t] = planned)
              \/ /\ o \in OrdersIn(batch)
                 /\ \E e \in Precombined(o) : table'[t][o] = IF e.op = "d" THEN NoRow ELSE e
    PROVE  /\ shown' \in [Tables -> [Partitions -> 0 .. MaxLog]]
           /\ missed' \in [Tables -> SUBSET Offsets]
           /\ \A t \in Tables : /\ ViewStep(t) /\ NotOlder(t)
                               /\ missed'[t] \subseteq Between(Zero, shown'[t])
                               /\ missed'[t] \subseteq Gone'
                               /\ missed'[t] \cap batch = {}
           /\ RowsOK'
<1> DEFINE new(t) == IF t \in ts THEN missed[t] \cup Passing(t) ELSE missed[t]
<1>0. /\ shown' = [t \in Tables |-> IF t \in ts THEN planned ELSE shown[t]]
      /\ missed' = [t \in Tables |-> new(t)]
  BY DEF Bring, Passing
<1>1. shown' \in [Tables -> [Partitions -> 0 .. MaxLog]] /\ missed' \in [Tables -> SUBSET Offsets]
  <2>1. \A t \in Tables : Passing(t) \in SUBSET Offsets
    BY DEF Passing, Between
  <2> QED BY <1>0, <2>1 DEF Inv, TypeOK
<1>2. Gone' = Gone
  BY DEF Gone, Between
<1>3. Between(Zero, expired) \subseteq Gone
  BY DEF Gone
<1> SUFFICES ASSUME NEW t \in Tables
             PROVE  /\ ViewStep(t) /\ NotOlder(t)
                    /\ missed'[t] \subseteq Between(Zero, shown'[t])
                    /\ missed'[t] \subseteq Gone'
                    /\ missed'[t] \cap batch = {}
                    /\ \A o \in Orders : Showing(topic', table'[t][o], o, Seen(t)')
  BY <1>1 DEF RowsOK
<1>4. /\ \A p \in Partitions : /\ shown[t][p] <= planned[p] /\ planned[p] <= Len(topic[p])
                               /\ shown[t][p] \in Nat /\ planned[p] \in Nat /\ Len(topic[p]) \in Nat
      /\ Between(Zero, shown[t]) \subseteq Between(Zero, planned)
  BY Up, Numbers DEF Inv
<1>5. /\ missed[t] \subseteq Between(Zero, shown[t]) /\ missed[t] \subseteq Gone
      /\ missed[t] \cap batch = {}
  BY DEF Inv, MissedOK
<1>6. Passing(t) \cap batch = {}
  BY DEF Passing
<1>7. ViewStep(t)
  <2>1. \A p \in Partitions : shown[t][p] <= shown'[t][p] /\ shown'[t][p] <= Len(topic[p])
    BY <1>0, <1>4
  <2>2. /\ missed[t] \subseteq missed'[t]
        /\ missed'[t] \ missed[t] \subseteq Gone
        /\ missed'[t] \cap Between(Zero, shown[t]) = missed[t]
    BY <1>0, <1>3, <1>5, PassedIsGone
  <2> QED BY <1>2, <1>4, <2>1, <2>2 DEF ViewStep
<1>8. /\ missed'[t] \subseteq Between(Zero, shown'[t])
      /\ missed'[t] \subseteq Gone'
      /\ missed'[t] \cap batch = {}
  BY <1>0, <1>2, <1>3, <1>4, <1>5, <1>6, PassedIsGone
<1>9. ASSUME NEW o \in Orders
      PROVE  /\ Showing(topic', table'[t][o], o, Seen(t)')
             /\ table[t][o] # NoRow /\ table'[t][o] # NoRow => table[t][o].ts <= table'[t][o].ts
  <2>1. Showing(topic, table[t][o], o, Seen(t))
    BY DEF Inv, RowsOK
  <2>2. Seen(t)' = Between(Zero, shown'[t]) \ missed'[t]
    BY DEF Seen, Between
  <2>3. ASSUME table[t][o] # NoRow
        PROVE  \E x \in Between(Zero, planned) :
                  /\ EventAt(x).order = o /\ table[t][o] = EventAt(x) /\ EventAt(x).ts \in Nat
    <3>1. PICK x \in Seen(t) : EventAt(x).order = o /\ table[t][o] = EventAt(x)
      BY <2>1, <2>3 DEF Showing, EventAt
    <3>2. x \in Between(Zero, planned) /\ x \in Offsets /\ x[2] <= planned[x[1]]
      BY <1>4 DEF Seen, Between
    <3>3. x[2] <= Len(topic[x[1]])
      BY <1>4, <3>2, Pairs
    <3> QED BY <3>1, <3>2, <3>3, EventTyped DEF Inv
  <2>4. CASE table'[t][o] = table[t][o] /\ (t \notin ts \/ shown[t] = planned)
    <3>1. shown'[t] = shown[t] /\ missed'[t] = missed[t]
      BY <1>0, <2>4, PassedIsGone
    <3> QED BY <2>1, <2>2, <2>3, <2>4, <3>1 DEF Seen
  <2>5. CASE t \in ts /\ table'[t][o] = table[t][o] /\ o \notin OrdersIn(batch)
    <3>1. Seen(t)' = Between(Zero, planned) \ (missed[t] \cup Passing(t))
      BY <1>0, <2>2, <2>5
    <3> QED BY <2>1, <2>3, <2>5, <3>1, UntouchedRow DEF Inv
  <2>6. ASSUME t \in ts, o \in OrdersIn(batch), NEW e \in Precombined(o),
               table'[t][o] = IF e.op = "d" THEN NoRow ELSE e
        PROVE  /\ Showing(topic', table'[t][o], o, Seen(t)')
               /\ table[t][o] # NoRow /\ table'[t][o] # NoRow => table[t][o].ts <= table'[t][o].ts
    <3>1. Seen(t)' = Between(Zero, planned) \ (missed[t] \cup Passing(t))
      BY <1>0, <2>2, <2>6
    <3>2. \A x \in Between(Zero, planned) : EventAt(x).order = o => EventAt(x).ts <= e.ts
      BY <2>6, KeptIsNewest DEF Inv
    <3>3. Showing(topic', table'[t][o], o, Seen(t)')
      <4>1. Showing(topic, IF e.op = "d" THEN NoRow ELSE e, o,
                    Between(Zero, planned) \ (missed[t] \cup Passing(t)))
        BY <2>6, WrittenRow DEF Inv
      <4>2. topic' = topic
        OBVIOUS
      <4> QED BY <2>6, <3>1, <4>1, <4>2
    <3>4. ASSUME table[t][o] # NoRow, table'[t][o] # NoRow
          PROVE  table[t][o].ts <= table'[t][o].ts
      <4>1. table'[t][o] = e
        BY <2>6, <3>4
      <4> QED BY <2>3, <3>2, <3>4, <4>1
    <3> QED BY <3>3, <3>4
  <2> QED BY <2>4, <2>5, <2>6
<1> QED BY <1>7, <1>8, <1>9 DEF NotOlder

\* What a step that leaves the log alone keeps.
LEMMA SameLog ==
    ASSUME Inv, topic' = topic
    PROVE  /\ LogOK'
           /\ \A x : EventAt(x)' = EventAt(x)
BY DEF Inv, LogOK, EventAt

\* A step that brings no table anywhere and writes no row.
LEMMA SameTables ==
    ASSUME Inv, UNCHANGED <<table, shown, missed, origin>>,
           \/ topic' = topic /\ \A p \in Partitions : expired[p] <= expired'[p] /\ expired'[p] \in Nat
           \/ expired' = expired /\ \A p \in Partitions :
                 /\ Len(topic'[p]) \in Nat /\ Len(topic[p]) <= Len(topic'[p])
                 /\ \A i \in 1 .. Len(topic[p]) : topic'[p][i] = topic[p][i]
    PROVE  /\ RowsOK'
           /\ \A t \in Tables : /\ ViewStep(t) /\ NotOlder(t)
                               /\ missed'[t] \subseteq Between(Zero, shown'[t])
                               /\ missed'[t] \subseteq Gone'
<1>1. \A p \in Partitions : /\ Len(topic[p]) <= Len(topic'[p])
                           /\ \A i \in 1 .. Len(topic[p]) : topic'[p][i] = topic[p][i]
  BY Numbers DEF Inv
<1>2. Between(Zero, expired) \subseteq Between(Zero, expired')
  BY Numbers, Pairs DEF Inv, Between
<1>3. Gone \subseteq Gone'
  BY <1>2 DEF Gone, Between
<1> SUFFICES ASSUME NEW t \in Tables
             PROVE  /\ ViewStep(t) /\ NotOlder(t)
                    /\ missed'[t] \subseteq Between(Zero, shown'[t])
                    /\ missed'[t] \subseteq Gone'
                    /\ \A o \in Orders : Showing(topic', table'[t][o], o, Seen(t)')
  BY DEF RowsOK
<1>4. \A p \in Partitions : /\ shown[t][p] <= Len(topic[p]) /\ shown[t][p] \in Nat
                           /\ Len(topic[p]) \in Nat /\ Len(topic'[p]) \in Nat
  <2>1. \A p \in Partitions : Len(topic'[p]) \in Nat
    BY Numbers DEF Inv
  <2> QED BY <2>1, Up, Numbers DEF Inv
<1>5. missed[t] \subseteq Between(Zero, shown[t]) /\ missed[t] \subseteq Gone
  BY DEF Inv, MissedOK
<1>6. ViewStep(t)
  BY <1>1, <1>4, <1>5 DEF ViewStep
<1>7. ASSUME NEW o \in Orders, NEW x \in Seen(t)
      PROVE  topic'[x[1]][x[2]] = topic[x[1]][x[2]] /\ EventAt(x).ts \in Nat
  <2>1. x \in Offsets /\ x[2] <= shown[t][x[1]]
    BY DEF Seen, Between
  <2>2. x[1] \in Partitions /\ x[2] \in 1 .. Len(topic[x[1]])
    BY <1>4, <2>1, Pairs
  <2> QED BY <1>1, <2>1, <2>2, EventTyped DEF Inv
<1>8. ASSUME NEW o \in Orders
      PROVE  /\ Showing(topic', table'[t][o], o, Seen(t)')
             /\ table[t][o] # NoRow => table[t][o].ts <= table[t][o].ts
  <2>1. Showing(topic, table[t][o], o, Seen(t))
    BY DEF Inv, RowsOK
  <2>2. Seen(t)' = Seen(t)
    BY DEF Seen, Between
  <2>3. Showing(topic', table[t][o], o, Seen(t))
    BY <1>7, <2>1 DEF Showing
  <2>4. table[t][o] # NoRow => table[t][o].ts \in Nat
    BY <1>7, <2>1 DEF Showing, EventAt
  <2> QED BY <2>2, <2>3, <2>4
<1> QED BY <1>3, <1>5, <1>6, <1>8 DEF NotOlder

\* Every step keeps the invariant, lets the tables show more and no row go back.
Good == Inv' /\ \A t \in Tables : ViewStep(t) /\ NotOlder(t)

LEMMA FirstStartGood == ASSUME Inv, FirstStart PROVE Good
<1>1. committed' \in [Partitions -> 0 .. MaxLog]
  BY StreamAssumption, Numbers DEF FirstStart, Inv, TypeOK, End, LogOK
<1>2. \A p \in Partitions : committed'[p] <= Len(topic[p])
  BY Numbers DEF FirstStart, Inv, OffsetsOK, End
<1>3. /\ topic' = topic /\ expired' = expired /\ table' = table /\ batch' = batch
      /\ planned' = committed' /\ origin' = committed' /\ pc' = "idle" /\ batch = {}
      /\ shown' = [t \in Tables |-> committed']
      /\ missed' = [t \in Tables |-> Between(Zero, committed')]
  BY DEF FirstStart, Inv, ControlOK
<1>4. TypeOK'
  BY <1>1, <1>3 DEF FirstStart, Inv, TypeOK, Between
<1>5. LogOK'
  BY <1>3, SameLog
<1>6. OffsetsOK'
  BY <1>1, <1>2, <1>3 DEF Inv, OffsetsOK
<1>7. ControlOK' /\ BatchOK'
  BY <1>3 DEF ControlOK, BatchOK
<1>8. Between(Zero, committed') \subseteq Gone'
  BY <1>3 DEF Gone, Between
<1>9. MissedOK'
  BY <1>3, <1>8 DEF MissedOK
<1>10. \A t \in Tables : Seen(t)' = {}
  BY <1>3 DEF Seen, Between
<1>11. \A t \in Tables, o \in Orders : table[t][o] = NoRow
  BY DEF FirstStart, Inv, ControlOK
<1>12. RowsOK'
  BY <1>3, <1>10, <1>11 DEF RowsOK, Showing
<1>13. ASSUME NEW t \in Tables PROVE ViewStep(t) /\ NotOlder(t)
  <2>1. shown[t] = Zero
    BY DEF FirstStart, Inv, ControlOK
  <2>2. Between(Zero, Zero) = {}
    BY Pairs DEF Between, Zero
  <2>3. missed[t] = {}
    BY <2>1, <2>2 DEF Inv, MissedOK
  <2>4. \A p \in Partitions : shown[t][p] <= committed'[p]
    BY <1>1, <2>1 DEF Zero
  <2> QED BY <1>2, <1>3, <1>8, <1>11, <2>1, <2>2, <2>3, <2>4, Numbers DEF ViewStep, NotOlder, Inv
<1> QED BY <1>4, <1>5, <1>6, <1>7, <1>9, <1>12, <1>13 DEF Good, Inv

LEMMA RestartGood == ASSUME Inv, Restart PROVE Good
<1>1. UNCHANGED <<topic, expired, planned, committed, batch, table, crashes, origin, shown, missed>>
  BY DEF Restart
<1>2. pc = "down" /\ pc' \in {"idle", "read"} /\ (pc' = "idle" => planned = committed) /\ batch = {}
  BY DEF Restart, Inv, ControlOK
<1>3. TypeOK' /\ OffsetsOK'
  BY <1>1, <1>2 DEF Inv, TypeOK, OffsetsOK
<1>4. ControlOK' /\ BatchOK' /\ MissedOK'
  BY <1>1, <1>2 DEF Inv, ControlOK, BatchOK, MissedOK, Gone, Between
<1>5. RowsOK' /\ \A t \in Tables : ViewStep(t) /\ NotOlder(t)
  BY <1>1, SameTables, Numbers DEF Inv
<1> QED BY <1>1, <1>3, <1>4, <1>5, SameLog DEF Good, Inv

LEMMA PlanBatchGood == ASSUME Inv, PlanBatch PROVE Good
<1>1. UNCHANGED <<topic, expired, committed, batch, table, crashes, origin, shown, missed>>
  BY DEF PlanBatch
<1>2. /\ pc = "idle" /\ pc' = "read" /\ planned = committed /\ batch = {}
      /\ planned' = [p \in Partitions |-> committed[p] + Share(p)]
  BY DEF PlanBatch, Inv, ControlOK
<1>3. \A p \in Partitions : Share(p) \in 0 .. Unread(p)
  BY ShareBounds DEF PlanBatch, Inv
<1>4. \A p \in Partitions :
        /\ committed[p] + Share(p) \in 0 .. MaxLog
        /\ committed[p] <= committed[p] + Share(p) /\ committed[p] + Share(p) <= Len(topic[p])
  BY <1>3, Numbers, StreamAssumption DEF Unread, Inv, LogOK, OffsetsOK
<1>5. planned' \in [Partitions -> 0 .. MaxLog]
  BY <1>2, <1>4
<1>6. TypeOK'
  BY <1>1, <1>2, <1>5 DEF Inv, TypeOK
<1>7. OffsetsOK'
  BY <1>1, <1>2, <1>4 DEF Inv, OffsetsOK
<1>8. ControlOK' /\ BatchOK'
  BY <1>1, <1>2 DEF Inv, ControlOK, BatchOK
<1>9. MissedOK'
  BY <1>1, <1>2 DEF Inv, MissedOK, Gone, Between
<1>10. RowsOK' /\ \A t \in Tables : ViewStep(t) /\ NotOlder(t)
  BY <1>1, SameTables, Numbers DEF Inv
<1> QED BY <1>1, <1>6, <1>7, <1>8, <1>9, <1>10, SameLog DEF Good, Inv

LEMMA ReadBatchGood == ASSUME Inv, ReadBatch PROVE Good
<1>1. UNCHANGED <<topic, expired, planned, committed, table, crashes, origin, shown, missed>>
  BY DEF ReadBatch
<1>2. /\ pc = "read" /\ pc' \in {"commit", "cow"} /\ (pc' = "commit" => batch' = {})
      /\ batch' = {x \in Between(committed, planned) :
                      x[2] > expired[x[1]] /\ EventAt(x).order \in Orders}
  BY DEF ReadBatch
<1>3. TypeOK' /\ OffsetsOK'
  BY <1>1, <1>2 DEF Inv, TypeOK, OffsetsOK, Between
<1>4. ControlOK'
  BY <1>1, <1>2 DEF Inv, ControlOK
<1>5. BatchOK'
  <2>1. \A x \in Offsets : EventAt(x)' = EventAt(x)
    BY <1>1 DEF EventAt
  <2>2. \A x \in Between(committed, planned) :
            x \in Offsets /\ x[1] \in Partitions /\ x[2] \in Nat /\ expired[x[1]] \in Nat
    BY Pairs, Numbers DEF Between, Inv
  <2>3. Between(committed', planned') = Between(committed, planned)
    BY <1>1
  <2> QED BY <1>1, <1>2, <2>1, <2>2, <2>3 DEF BatchOK
<1>6. MissedOK'
  <2>1. \A x \in batch' : x \notin Gone
    <3> SUFFICES ASSUME NEW x \in batch' PROVE x \notin Gone
      OBVIOUS
    <3>1. /\ x[1] \in Partitions /\ x[2] \in Nat
          /\ committed[x[1]] < x[2] /\ expired[x[1]] < x[2]
      BY <1>2, Pairs, Numbers DEF Between, Inv
    <3>2. origin[x[1]] < x[2]
      BY <3>1, Numbers DEF Inv, OffsetsOK
    <3> QED BY <3>1, <3>2, Numbers DEF Gone, Between, Inv
  <2>2. Gone' = Gone
    BY <1>1 DEF Gone, Between
  <2> QED BY <1>1, <2>1, <2>2 DEF Inv, MissedOK, Between
<1>7. RowsOK' /\ \A t \in Tables : ViewStep(t) /\ NotOlder(t)
  BY <1>1, SameTables, Numbers DEF Inv
<1> QED BY <1>1, <1>3, <1>4, <1>5, <1>6, <1>7, SameLog DEF Good, Inv

LEMMA WriteTableGood == ASSUME Inv, NEW w \in Tables, WriteTable(w) PROVE Good
<1>1. UNCHANGED <<topic, expired, planned, committed, batch, crashes, origin>>
  BY DEF WriteTable
<1>2. /\ pc = w /\ w \in {"cow", "mor"} /\ pc' = IF w = "cow" THEN "mor" ELSE "commit"
      /\ Bring({w}) /\ {w} \in SUBSET Tables
  BY DEF WriteTable, Tables
<1>3. PICK kept \in [OrdersIn(batch) -> EventsIn(batch)] :
          /\ \A o \in OrdersIn(batch) : kept[o] \in Precombined(o)
          /\ table' = [table EXCEPT ![w] = [o \in Orders |->
                          IF o \notin OrdersIn(batch) THEN @[o]
                          ELSE IF kept[o].op = "d" THEN NoRow ELSE kept[o]]]
  BY DEF WriteTable
<1>4. table \in [Tables -> [Orders -> Rows]]
  BY DEF Inv, TypeOK
<1>5. /\ \A t \in Tables \ {w} : table'[t] = table[t]
      /\ \A o \in Orders : o \notin OrdersIn(batch) => table'[w][o] = table[w][o]
      /\ \A o \in Orders : o \in OrdersIn(batch) =>
            table'[w][o] = IF kept[o].op = "d" THEN NoRow ELSE kept[o]
  BY <1>3, <1>4
<1>6. \A t \in {w}, o \in Orders :
         \/ table'[t][o] = table[t][o] /\ (o \notin OrdersIn(batch) \/ shown[t] = planned)
         \/ /\ o \in OrdersIn(batch)
            /\ \E e \in Precombined(o) : table'[t][o] = IF e.op = "d" THEN NoRow ELSE e
  BY <1>3, <1>5
<1>7. /\ shown' \in [Tables -> [Partitions -> 0 .. MaxLog]]
      /\ missed' \in [Tables -> SUBSET Offsets]
      /\ \A t \in Tables : /\ ViewStep(t) /\ NotOlder(t)
                          /\ missed'[t] \subseteq Between(Zero, shown'[t])
                          /\ missed'[t] \subseteq Gone'
                          /\ missed'[t] \cap batch = {}
      /\ RowsOK'
  BY <1>1, <1>2, <1>5, <1>6, Brought
<1>8. table' \in [Tables -> [Orders -> Rows]]
  <2>1. EventsIn(batch) \subseteq Events
    <3>1. \A x \in batch : x \in Offsets /\ x[2] <= planned[x[1]]
      BY DEF Inv, BatchOK, Between
    <3>2. \A x \in batch : x[2] <= Len(topic[x[1]])
      BY <3>1, Pairs, Numbers DEF Inv, OffsetsOK
    <3> QED BY <3>1, <3>2, EventTyped DEF Inv, EventsIn
  <2>2. \A o \in OrdersIn(batch) : kept[o] \in Rows /\ NoRow \in Rows
    BY <2>1 DEF Rows
  <2> QED BY <1>3, <1>4, <2>2
<1>9. TypeOK' /\ OffsetsOK'
  BY <1>1, <1>2, <1>7, <1>8 DEF Inv, TypeOK, OffsetsOK
<1>10. ControlOK'
  <2>1. shown' = [t \in Tables |-> IF t = w THEN planned ELSE shown[t]]
    BY <1>2 DEF Bring
  <2>2. w = "mor" => shown["cow"] = planned
    BY <1>2 DEF Inv, ControlOK
  <2> QED BY <1>1, <1>2, <2>1, <2>2 DEF Inv, ControlOK, Tables
<1>11. BatchOK'
  <2>1. Between(committed', planned') = Between(committed, planned)
    BY <1>1
  <2> QED BY <1>1, <1>2, <2>1, SameLog DEF Inv, BatchOK
<1>12. MissedOK'
  BY <1>1, <1>7 DEF MissedOK, Between
<1> QED BY <1>1, <1>7, <1>9, <1>10, <1>11, <1>12, SameLog DEF Good, Inv

LEMMA CommitBatchGood == ASSUME Inv, CommitBatch PROVE Good
<1>1. UNCHANGED <<topic, expired, planned, table, crashes, origin>>
  BY DEF CommitBatch
<1>2. pc = "commit" /\ pc' = "idle" /\ committed' = planned /\ batch' = {} /\ Bring(Tables)
  BY DEF CommitBatch
<1>3. \A t \in Tables, o \in Orders : o \notin OrdersIn(batch) \/ shown[t] = planned
  BY <1>2 DEF Inv, ControlOK, OrdersIn, EventsIn
<1>4. /\ shown' \in [Tables -> [Partitions -> 0 .. MaxLog]]
      /\ missed' \in [Tables -> SUBSET Offsets]
      /\ \A t \in Tables : /\ ViewStep(t) /\ NotOlder(t)
                          /\ missed'[t] \subseteq Between(Zero, shown'[t])
                          /\ missed'[t] \subseteq Gone'
                          /\ missed'[t] \cap batch = {}
      /\ RowsOK'
  BY <1>1, <1>2, <1>3, Brought
<1>5. TypeOK'
  BY <1>1, <1>2, <1>4 DEF Inv, TypeOK
<1>6. OffsetsOK'
  <2>1. \A p \in Partitions : origin[p] <= planned[p]
    BY Numbers DEF Inv, OffsetsOK
  <2> QED BY <1>1, <1>2, <2>1, Numbers DEF Inv, OffsetsOK
<1>7. ControlOK' /\ BatchOK'
  BY <1>1, <1>2 DEF ControlOK, BatchOK, Bring
<1>8. MissedOK'
  BY <1>2, <1>4 DEF MissedOK, Between
<1> QED BY <1>1, <1>4, <1>5, <1>6, <1>7, <1>8, SameLog DEF Good, Inv

LEMMA CrashGood == ASSUME Inv, Crash PROVE Good
<1>1. UNCHANGED <<topic, expired, planned, committed, table, origin, shown, missed>>
  BY DEF Crash
<1>2. pc' = "down" /\ batch' = {} /\ crashes' = crashes + 1 /\ crashes < MaxCrashes
  BY DEF Crash
<1>3. TypeOK' /\ OffsetsOK'
  BY <1>1, <1>2, StreamAssumption DEF Inv, TypeOK, OffsetsOK
<1>4. ControlOK' /\ BatchOK'
  BY <1>1, <1>2 DEF Inv, ControlOK, BatchOK
<1>5. MissedOK'
  BY <1>1, <1>2 DEF Inv, MissedOK, Gone, Between
<1>6. RowsOK' /\ \A t \in Tables : ViewStep(t) /\ NotOlder(t)
  BY <1>1, SameTables, Numbers DEF Inv
<1> QED BY <1>1, <1>3, <1>4, <1>5, <1>6, SameLog DEF Good, Inv

\* A producer appends: what is in the log stays where it is.
LEMMA ArriveGood == ASSUME Inv, NEW q \in Partitions, NEW e \in Events, Arrive(q, e) PROVE Good
<1>1. UNCHANGED <<expired, jobVars>> /\ topic' = [topic EXCEPT ![q] = Append(@, e)]
  BY DEF Arrive
<1>2. \A p \in Partitions : topic[p] \in Seq(Events)
  BY DEF Inv, TypeOK
<1>3. /\ Len(topic'[q]) = Len(topic[q]) + 1 /\ topic'[q][Len(topic[q]) + 1] = e
      /\ \A i \in 1 .. Len(topic[q]) : topic'[q][i] = topic[q][i]
      /\ \A p \in Partitions \ {q} : topic'[p] = topic[p]
      /\ topic' \in [Partitions -> Seq(Events)]
      /\ Len(topic[q]) < MaxLog /\ Len(topic[q]) \in Nat
  BY <1>1, <1>2 DEF Arrive, Inv, TypeOK
<1>4. \A p \in Partitions :
         /\ Len(topic'[p]) \in Nat /\ Len(topic[p]) <= Len(topic'[p])
         /\ \A i \in 1 .. Len(topic[p]) : topic'[p][i] = topic[p][i]
  BY <1>2, <1>3
<1>5. TypeOK'
  BY <1>1, <1>3 DEF Inv, TypeOK, jobVars
<1>6. LogOK'
  <2> SUFFICES ASSUME NEW p \in Partitions
               PROVE  /\ Len(topic'[p]) <= MaxLog
                      /\ \A i \in 1 .. Len(topic'[p]) :
                            topic'[p][i].order \in Orders => p = PartitionOf[topic'[p][i].order]
                      /\ \A i, j \in 1 .. Len(topic'[p]) :
                            i <= j /\ topic'[p][i].order = topic'[p][j].order
                                => topic'[p][i].ts <= topic'[p][j].ts
    BY DEF LogOK
  <2>1. CASE p # q
    BY <1>3, <2>1 DEF Inv, LogOK
  <2>2. CASE p = q
    <3>1. Len(topic'[q]) <= MaxLog
      BY <1>3, StreamAssumption
    <3>2. /\ e.order \in Orders => q = PartitionOf[e.order]
          /\ \A i \in 1 .. Len(topic[q]) : topic[q][i].order = e.order => topic[q][i].ts <= e.ts
          /\ e.ts \in Nat
      BY StreamAssumption DEF Arrive
    <3>3. \A i \in 1 .. Len(topic'[q]) : i \in 1 .. Len(topic[q]) \/ i = Len(topic[q]) + 1
      BY <1>3
    <3>4. \A i \in 1 .. Len(topic'[q]) :
              topic'[q][i].order \in Orders => q = PartitionOf[topic'[q][i].order]
      <4>1. \A i \in 1 .. Len(topic[q]) :
                topic[q][i].order \in Orders => q = PartitionOf[topic[q][i].order]
        BY DEF Inv, LogOK
      <4> QED BY <1>3, <3>2, <3>3, <4>1
    <3>5. ASSUME NEW i \in 1 .. Len(topic'[q]), NEW j \in 1 .. Len(topic'[q]),
                 i <= j, topic'[q][i].order = topic'[q][j].order
          PROVE  topic'[q][i].ts <= topic'[q][j].ts
      <4>1. CASE j = Len(topic[q]) + 1
        <5>1. topic'[q][j] = e
          BY <1>3, <4>1
        <5>2. CASE i = j
          BY <3>2, <5>1, <5>2
        <5>3. CASE i # j
          <6>1. i \in 1 .. Len(topic[q])
            BY <3>3, <4>1, <5>3
          <6>2. topic'[q][i] = topic[q][i]
            BY <1>3, <6>1
          <6> QED BY <3>2, <3>5, <5>1, <6>1, <6>2
        <5> QED BY <5>2, <5>3
      <4>2. CASE j \in 1 .. Len(topic[q])
        <5>1. i \in 1 .. Len(topic[q])
          BY <1>3, <3>5, <4>2
        <5>2. topic'[q][i] = topic[q][i] /\ topic'[q][j] = topic[q][j]
          BY <1>3, <4>2, <5>1
        <5>3. topic[q][i].order = topic[q][j].order => topic[q][i].ts <= topic[q][j].ts
          BY <3>5, <4>2, <5>1 DEF Inv, LogOK
        <5> QED BY <3>5, <5>2, <5>3
      <4> QED BY <3>3, <4>1, <4>2
    <3> QED BY <2>2, <3>1, <3>4, <3>5
  <2> QED BY <2>1, <2>2
<1>7. OffsetsOK'
  BY <1>1, <1>4, Numbers DEF Inv, OffsetsOK, jobVars
<1>8. ControlOK'
  BY <1>1 DEF Inv, ControlOK, jobVars
<1>9. BatchOK'
  <2>1. Between(committed', planned') = Between(committed, planned)
    BY <1>1 DEF jobVars
  <2>2. \A x \in Between(committed, planned) : EventAt(x)' = EventAt(x)
    <3>1. \A x \in Between(committed, planned) : x[1] \in Partitions /\ x[2] \in 1 .. Len(topic[x[1]])
      BY Pairs, Numbers DEF Between, Inv, OffsetsOK
    <3> QED BY <1>4, <3>1 DEF EventAt
  <2> QED BY <1>1, <2>1, <2>2 DEF Inv, BatchOK, jobVars
<1>10. MissedOK'
  BY <1>1 DEF Inv, MissedOK, Gone, Between, jobVars
<1>11. RowsOK' /\ \A t \in Tables : ViewStep(t) /\ NotOlder(t)
  BY <1>1, <1>4, SameTables DEF jobVars
<1> QED BY <1>5, <1>6, <1>7, <1>8, <1>9, <1>10, <1>11 DEF Good, Inv

LEMMA ExpireGood == ASSUME Inv, NEW q \in Partitions, Expire(q) PROVE Good
<1>1. UNCHANGED <<topic, jobVars>> /\ expired' = [expired EXCEPT ![q] = @ + 1] /\ expired[q] < Len(topic[q])
  BY DEF Expire
<1>2. /\ expired' \in [Partitions -> 0 .. MaxLog]
      /\ \A p \in Partitions : /\ expired[p] <= expired'[p] /\ expired'[p] <= Len(topic[p])
                              /\ expired'[p] \in Nat
  <2>1. expired \in [Partitions -> 0 .. MaxLog] /\ MaxLog \in Nat
    BY StreamAssumption DEF Inv, TypeOK
  <2>2. ASSUME NEW p \in Partitions
        PROVE  /\ expired[p] \in Nat /\ Len(topic[p]) \in Nat
               /\ expired[p] <= Len(topic[p]) /\ Len(topic[p]) <= MaxLog
    BY <2>1, Numbers DEF Inv, LogOK, OffsetsOK
  <2>3. ASSUME NEW p \in Partitions
        PROVE  /\ expired'[p] = IF p = q THEN expired[p] + 1 ELSE expired[p]
               /\ expired[p] <= expired'[p] /\ expired'[p] <= Len(topic[p])
               /\ expired'[p] \in Nat /\ expired'[p] <= MaxLog
    <3>1. expired'[p] = IF p = q THEN expired[p] + 1 ELSE expired[p]
      BY <1>1, <2>1
    <3> QED BY <1>1, <2>1, <2>2, <3>1
  <2>4. DOMAIN expired' = Partitions /\ expired' = [p \in Partitions |-> expired'[p]]
    BY <1>1, <2>1
  <2> QED BY <2>1, <2>3, <2>4
<1>3. TypeOK' /\ OffsetsOK' /\ ControlOK'
  <2>1. TypeOK'
    BY <1>1, <1>2 DEF Inv, TypeOK, jobVars
  <2>2. OffsetsOK'
    BY <1>1, <1>2 DEF Inv, OffsetsOK, jobVars
  <2>3. ControlOK'
    BY <1>1 DEF Inv, ControlOK, jobVars
  <2> QED BY <2>1, <2>2, <2>3
<1>4. RowsOK' /\ \A t \in Tables : /\ ViewStep(t) /\ NotOlder(t)
                                   /\ missed'[t] \subseteq Between(Zero, shown'[t])
                                   /\ missed'[t] \subseteq Gone'
  BY <1>1, <1>2, SameTables DEF jobVars
<1>5. BatchOK'
  <2>1. Between(committed', planned') = Between(committed, planned)
    BY <1>1 DEF jobVars
  <2>2. \A x \in Between(committed, planned) : x[2] <= expired[x[1]] => x[2] <= expired'[x[1]]
    BY <1>2, Pairs, Numbers DEF Between, Inv
  <2> QED BY <1>1, <2>1, <2>2, SameLog DEF Inv, BatchOK, jobVars
<1>6. MissedOK'
  BY <1>1, <1>4 DEF Inv, MissedOK, jobVars
<1> QED BY <1>1, <1>3, <1>4, <1>5, <1>6, SameLog DEF Good, Inv

LEMMA StutterGood == ASSUME Inv, UNCHANGED vars PROVE Good
<1>1. Inv'
  BY DEF Inv, vars, jobVars, TypeOK, LogOK, OffsetsOK, ControlOK, BatchOK, MissedOK, RowsOK,
         Gone, Between, Seen, EventAt, Showing
<1> QED BY <1>1, SameTables, Numbers DEF Good, Inv, vars, jobVars

LEMMA StepGood == ASSUME Inv, [Next]_vars PROVE Good
BY FirstStartGood, RestartGood, PlanBatchGood, ReadBatchGood, WriteTableGood, CommitBatchGood,
   CrashGood, ArriveGood, ExpireGood, StutterGood DEF Next, Job, JobStep

-----------------------------------------------------------------------------
(* Theorems.                                                                *)

LEMMA Invariance == Spec => []Inv
<1>1. Inv /\ [Next]_vars => Inv'
  BY StepGood DEF Good
<1> QED BY InitInv, <1>1, PTL DEF Spec

\* The variables of the job and of the topic keep their types: no offset passes the end
\* of its partition, with any limit on the size of a batch.
THEOREM TypeCorrect == Spec => []TypeOK
<1>1. Inv => TypeOK
  BY DEF Inv
<1> QED BY Invariance, <1>1, PTL

\* Between batches the row of an order that lost no event is its newest committed version.
LEMMA IdleRow ==
    ASSUME Inv, pc = "idle", NEW t \in Tables, NEW o \in Orders, o \notin OrdersIn(missed[t])
    PROVE  IsNewest(table[t][o], o)
<1>1. shown[t] = committed
  BY DEF Inv, ControlOK
<1>2. Showing(topic, table[t][o], o, Between(Zero, committed) \ missed[t])
  BY <1>1 DEF Inv, RowsOK, Seen
<1>3. \A x \in missed[t] : EventAt(x).order # o
  BY DEF OrdersIn, EventsIn
<1> DEFINE all == Between(Zero, committed)
           had == {e \in EventsIn(all) : e.order = o}
           new == {e \in had : \A d \in had : d.ts <= e.ts}
<1>4. CASE \A x \in all \ missed[t] : EventAt(x).order # o
  <2>1. had = {}
    BY <1>3, <1>4 DEF EventsIn
  <2>2. table[t][o] = NoRow
    BY <1>2, <1>4 DEF Showing, EventAt
  <2> QED BY <2>1, <2>2 DEF IsNewest
<1>5. CASE ~ \A x \in all \ missed[t] : EventAt(x).order # o
  <2>1. PICK x \in all \ missed[t] :
            /\ EventAt(x).order = o
            /\ \A y \in all \ missed[t] : EventAt(y).order = o => EventAt(y).ts <= EventAt(x).ts
            /\ table[t][o] = IF EventAt(x).op = "d" THEN NoRow ELSE EventAt(x)
    BY <1>2, <1>5 DEF Showing, EventAt
  <2>2. EventAt(x) \in had /\ \A d \in had : d.ts <= EventAt(x).ts
    BY <1>3, <2>1 DEF EventsIn
  <2>3. EventAt(x) \in new
    BY <2>2
  <2> HIDE DEF had, new, all
  <2> QED BY <2>1, <2>3 DEF IsNewest, had, new, all
<1> QED BY <1>4, <1>5


\* Between batches both tables have the newest committed version of every order that
\* lost no event, whatever was cut short and run again (for_each, lines 239-246).
THEOREM TablesUpToDate == Spec => []BothNewest
<1>1. Inv => BothNewest
  BY IdleRow DEF BothNewest
<1> QED BY Invariance, <1>1, PTL

\* No row is ever replaced by an older version of its order, also when a batch is run
\* again that retention has shortened in the meantime.
THEOREM RowsNeverOlder == Spec => NeverOlder
<1>1. Inv /\ [Next]_vars =>
         [\A t \in Tables, o \in Orders :
             table[t][o] # NoRow /\ table'[t][o] # NoRow => table[t][o].ts <= table'[t][o].ts]_vars
  BY StepGood DEF Good, NotOlder
<1> QED BY Invariance, <1>1, PTL DEF Spec, NeverOlder

\* What a table shows is what MaterializedView promises.
LEMMA ViewShows ==
    ASSUME Inv, NEW t \in Tables, NEW o \in Orders
    PROVE  LET had == {e \in {topic[x[1]][x[2]] : x \in Seen(t)} : e.order = o}
               new == {e \in had : \A d \in had : d.ts <= e.ts}
           IN  \/ table[t][o] \in new /\ table[t][o].op # "d"
               \/ table[t][o] = NoRow /\ (had # {} => \E e \in new : e.op = "d")
<1> DEFINE had == {e \in {topic[x[1]][x[2]] : x \in Seen(t)} : e.order = o}
           new == {e \in had : \A d \in had : d.ts <= e.ts}
<1>1. Showing(topic, table[t][o], o, Seen(t))
  BY DEF Inv, RowsOK
<1>2. CASE \A x \in Seen(t) : topic[x[1]][x[2]].order # o
  BY <1>1, <1>2 DEF Showing
<1>3. CASE ~ \A x \in Seen(t) : topic[x[1]][x[2]].order # o
  <2>1. PICK x \in Seen(t) :
            /\ topic[x[1]][x[2]].order = o
            /\ \A y \in Seen(t) : topic[y[1]][y[2]].order = o =>
                                   topic[y[1]][y[2]].ts <= topic[x[1]][x[2]].ts
            /\ table[t][o] = IF topic[x[1]][x[2]].op = "d" THEN NoRow ELSE topic[x[1]][x[2]]
    BY <1>1, <1>3 DEF Showing
  <2>2. topic[x[1]][x[2]] \in new
    BY <2>1
  <2> HIDE DEF had, new
  <2> QED BY <2>1, <2>2
<1> QED BY <1>2, <1>3

LEMMA PassedOffsets ==
    ASSUME Inv, NEW t \in Tables
    PROVE  UNION {{<<p, i>> : i \in 1 .. shown[t][p]} : p \in Partitions} = Between(Zero, shown[t])
<1>1. \A p \in Partitions : shown[t][p] \in Nat /\ shown[t][p] <= MaxLog /\ MaxLog \in Nat /\ Zero[p] = 0
  <2>1. shown[t] \in [Partitions -> 0 .. MaxLog]
    BY DEF Inv, TypeOK
  <2> QED BY <2>1, Numbers, StreamAssumption DEF Inv
<1>2. ASSUME NEW p \in Partitions, NEW i \in 1 .. shown[t][p]
      PROVE  <<p, i>> \in Between(Zero, shown[t])
  BY <1>1, <1>2 DEF Between, Offsets
<1>3. ASSUME NEW x \in Between(Zero, shown[t])
      PROVE  \E p \in Partitions : \E i \in 1 .. shown[t][p] : x = <<p, i>>
  <2>1. x = <<x[1], x[2]>> /\ x[1] \in Partitions /\ x[2] \in Nat /\ 0 < x[2] /\ x[2] <= shown[t][x[1]]
    BY Pairs DEF Between
  <2> QED BY <1>1, <2>1
<1> QED BY <1>2, <1>3

\* The copy-on-write table is a view of the topic: its readers see the newest versions
\* up to some offsets, which grow.  Batches, crashes and replays do not show.
THEOREM CowTableIsView == Spec => CowIsView
<1> DEFINE shows == \A o \in Orders : CowView!Shows(o)
<1>1. "cow" \in Tables
  BY DEF Tables
<1>2. Init => CowView!Init
  BY <1>1 DEF Init, CowView!Init, Zero
<1>3. Inv => CowView!Passed = Between(Zero, shown["cow"])
  BY <1>1, PassedOffsets DEF CowView!Passed
<1>4. Inv => shows
  BY <1>1, <1>3, ViewShows DEF CowView!Shows, CowView!Newest, CowView!EventsOf, Seen
<1>5. Inv /\ [Next]_vars => CowView!Next
  <2> SUFFICES ASSUME Inv, [Next]_vars PROVE CowView!Next
    OBVIOUS
  <2>1. Inv' /\ ViewStep("cow")
    BY <1>1, StepGood DEF Good
  <2>2. shows'
    BY <1>4, <2>1, PTL
  <2> QED BY <1>3, <2>1, <2>2 DEF CowView!Next, ViewStep
<1>6. Inv /\ [Next]_vars => [CowView!Next]_(CowView!vars)
  BY <1>5
<1> QED BY Invariance, <1>2, <1>6, PTL DEF Spec, CowIsView, CowView!Spec

\* The merge-on-read table is one, too, although it is written second and may be
\* behind the other while a batch is processed.
THEOREM MorTableIsView == Spec => MorIsView
<1> DEFINE shows == \A o \in Orders : MorView!Shows(o)
<1>1. "mor" \in Tables
  BY DEF Tables
<1>2. Init => MorView!Init
  BY <1>1 DEF Init, MorView!Init, Zero
<1>3. Inv => MorView!Passed = Between(Zero, shown["mor"])
  BY <1>1, PassedOffsets DEF MorView!Passed
<1>4. Inv => shows
  BY <1>1, <1>3, ViewShows DEF MorView!Shows, MorView!Newest, MorView!EventsOf, Seen
<1>5. Inv /\ [Next]_vars => MorView!Next
  <2> SUFFICES ASSUME Inv, [Next]_vars PROVE MorView!Next
    OBVIOUS
  <2>1. Inv' /\ ViewStep("mor")
    BY <1>1, StepGood DEF Good
  <2>2. shows'
    BY <1>4, <2>1, PTL
  <2> QED BY <1>3, <2>1, <2>2 DEF MorView!Next, ViewStep
<1>6. Inv /\ [Next]_vars => [MorView!Next]_(MorView!vars)
  BY <1>5
<1> QED BY Invariance, <1>2, <1>6, PTL DEF Spec, MorIsView, MorView!Spec

=============================================================================
