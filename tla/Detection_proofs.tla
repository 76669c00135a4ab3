--------------------------- MODULE Detection_proofs ---------------------------
(***************************************************************************)
(* Every anomaly that the cursor of Layer 1 passes is in anomaly_logs or   *)
(* excused, and every dedup_key is analysed at most once.                  *)
(***************************************************************************)
EXTENDS Detection, FiniteSetTheorems, SequenceTheorems, TLAPS

\* Only anomalies are stored.
TypeInv == TypeOK /\ \A i \in todo : Anomalous(i)

\* The bucket of a timestamp is one of finitely many.
LEMMA Bucket ==
  ASSUME NEW k \in Kind, NEW t \in Moment, NEW z \in Zone
  PROVE  DedupKey(k, t, z) \in Key
<1>1. t \in Nat /\ t >= 1 /\ t <= MaxTime /\ MaxTime \in Nat /\ Minute \in Nat /\ Minute >= 1
  BY TableAssumption DEF Moment
<1>2. t \div Minute \in 0 .. MaxTime
  BY <1>1
<1> QED
  BY <1>2 DEF DedupKey, Key

\* A line read from t on is no older than t; one that is rounded to t is the
\* youngest before it or among the first from it.
LEMMA Rounding ==
  ASSUME NEW h \in Half
  PROVE  /\ h \in Int /\ ToMicro(h) \in Moment
         /\ ToMicro(h) = h - ToMicro(h) \/ ToMicro(h) = h - ToMicro(h) + 1
<1>1. h \in Int /\ 2 <= h /\ h <= 2 * MaxTime /\ MaxTime \in Nat
  BY TableAssumption DEF Half
<1>2. /\ 1 <= (h + 1) \div 2 /\ (h + 1) \div 2 <= MaxTime /\ (h + 1) \div 2 \in Int
      /\ 2 * ((h + 1) \div 2) = h \/ 2 * ((h + 1) \div 2) = h + 1
  BY <1>1
<1> QED
  BY <1>1, <1>2 DEF ToMicro, Moment

\* What the code sees of a line: a time of Loki, and one rounded from it.
LEMMA Line ==
  ASSUME TypeInv, NEW i \in DOMAIN loki
  PROVE  /\ loki[i].ns \in Half /\ loki[i].ns \in Int /\ loki[i].kind \in Kind \cup {Normal}
         /\ at(i) \in Moment /\ at(i) \in Int
         /\ 2 * at(i) = loki[i].ns \/ 2 * at(i) = loki[i].ns + 1
<1>1. loki[i].ns \in Half /\ loki[i].kind \in Kind \cup {Normal}
  BY DEF TypeInv, TypeOK, FilterTypeOK, Entry
<1>2. loki[i].ns \in Int /\ at(i) \in Moment
      /\ (at(i) = loki[i].ns - at(i) \/ at(i) = loki[i].ns - at(i) + 1)
  BY <1>1, Rounding DEF at
<1> QED
  BY <1>1, <1>2 DEF Moment

\* The rows of both writers keep their type, whatever becomes of a transaction.
LEMMA UpsertType ==
  ASSUME TableTypeOK, NEW w \in Writer, NEW k \in Kind, NEW t \in Moment,
         NEW z \in Zone, Upsert(w, k, t, z)
  PROVE  TableTypeOK'
<1>1. DedupKey(k, t, z) \in Key
  BY Bucket
<1>2. [key |-> DedupKey(k, t, z), time |-> t, st |-> w] \in Row
  BY <1>1 DEF Row
<1> QED
  BY <1>2 DEF TableTypeOK, Upsert

LEMMA EndType ==
  ASSUME TableTypeOK, NEW w \in Writer, Commit(w) \/ Abort(w)
  PROVE  TableTypeOK'
<1>1. \A r \in DOMAIN rows : rows[r] \in Row \cup {GoneRow} /\ (rows[r].st = w => rows[r] \in Row)
  BY DEF TableTypeOK, GoneRow, Writer
<1>2. \A x \in Row : [x EXCEPT !.st = "committed"] \in Row
  BY DEF Row
<1>3. PICK n \in Nat : DOMAIN rows = 1 .. n
  BY DEF TableTypeOK
<1>4. DOMAIN rows' = 1 .. n /\ \A r \in 1 .. n : rows'[r] \in Row \cup {GoneRow}
  BY <1>1, <1>2, <1>3 DEF Commit, Abort
<1>5. rows' = [r \in 1 .. n |-> rows'[r]]
  BY <1>3 DEF Commit, Abort
<1> QED
  BY <1>4, <1>5 DEF TableTypeOK

\* Bound, order and set of what is read: TypeInv is kept by every step.
LEMMA TypeStep ==
  ASSUME TypeInv, [Next]_vars
  PROVE  TypeInv'
<1> USE DEF TypeInv, TypeOK, FilterTypeOK, Anomalous
<1>1. CASE TableNext /\ UNCHANGED <<filterVars, consumerVars>>
  <2>1. TableTypeOK'
    BY <1>1, UpsertType, EndType
       DEF TableNext, IngesterInsert, IngesterCommit, IngesterAbort, Writer
  <2> QED
    BY <1>1, <2>1 DEF filterVars, consumerVars
<1>2. ASSUME NEW new \in LogLine, NEW k \in Kind \cup {Normal}, NEW h \in Half,
             Arrive(new, k, h), UNCHANGED <<rows, consumerVars>>
      PROVE  TypeInv'
  <2>1. /\ DOMAIN loki' = DOMAIN loki \cup {new} /\ loki'[new] = [ns |-> h, kind |-> k]
        /\ \A i \in DOMAIN loki : loki'[i] = loki[i]
    BY <1>2 DEF Arrive
  <2>2. [ns |-> h, kind |-> k] \in Entry
    BY DEF Entry
  <2> QED
    BY <1>2, <2>1, <2>2 DEF Arrive, consumerVars, TableTypeOK
<1>3. CASE FilterWork /\ UNCHANGED consumerVars
  <2>1. CASE Fetch /\ UNCHANGED rows
    BY <1>3, <2>1 DEF Fetch, Fusion, QueryRange, Window, Passed, TableTypeOK, consumerVars
  <2>2. CASE MoveCursor /\ UNCHANGED rows
    BY <1>3, <2>2 DEF MoveCursor, Passed, Window, Moment, TableTypeOK, consumerVars
  <2>3. ASSUME NEW i \in todo, StoreRow(i)
        PROVE  TypeInv'
    <3>1. loki[i].kind \in Kind /\ at(i) \in Moment
      BY Line
    <3>2. TableTypeOK'
      BY <2>3, <3>1, UpsertType, TableAssumption DEF StoreRow, Writer
    <3> QED
      BY <1>3, <2>3, <3>2 DEF StoreRow, consumerVars
  <2>4. CASE StoreCommit
    <3>1. TableTypeOK'
      BY <2>4, EndType DEF StoreCommit, Writer
    <3> QED
      BY <1>3, <2>4, <3>1 DEF StoreCommit, consumerVars
  <2> QED
    BY <1>3, <2>1, <2>2, <2>3, <2>4 DEF FilterWork
<1>4. CASE FilterFault /\ UNCHANGED consumerVars
  <2>1. ASSUME NEW i \in todo, StoreRowFails(i), UNCHANGED rows
        PROVE  TypeInv'
    BY <1>4, <2>1 DEF StoreRowFails, TableTypeOK, consumerVars
  <2>2. CASE StoreFails /\ UNCHANGED rows
    BY <1>4, <2>2 DEF StoreFails, TableTypeOK, consumerVars
  <2>3. CASE FilterRestart
    <3>1. TableTypeOK'
      <4>1. CASE UNCHANGED rows
        BY <4>1 DEF TableTypeOK
      <4> QED
        BY <2>3, <4>1, EndType DEF FilterRestart, Writer
    <3> QED
      BY <1>4, <2>3, <3>1 DEF FilterRestart, Passed, consumerVars
  <2> QED
    BY <1>4, <2>1, <2>2, <2>3 DEF FilterFault
<1>5. CASE (Poll \/ ConsumerRestart) /\ UNCHANGED <<rows, filterVars>>
  <2>0. PICK n \in Nat : DOMAIN rows = 1 .. n
    BY DEF TableTypeOK
  <2>1. Committed \subseteq Nat
    BY <2>0 DEF Committed
  <2>4. \A S \in SUBSET Committed : Cardinality(S) \in Nat
    <3>1. IsFiniteSet(1 .. n)
      BY FS_Interval
    <3> QED
      BY <2>0, <3>1, FS_Subset, FS_CardinalityType DEF Committed
  <2>2. CASE Poll
    <3>1. PICK last \in New :
            /\ offset' = last
            /\ taken' = [key \in Key |-> taken[key]
                 + Cardinality({r \in {s \in New : s <= last} : rows[r].key = key})]
      BY <2>2 DEF Poll
    <3>2. \A key \in Key :
            {r \in {s \in New : s <= last} : rows[r].key = key} \in SUBSET Committed
      BY DEF New
    <3>3. taken' \in [Key -> Nat]
      BY <2>4, <3>1, <3>2
    <3>4. offset' \in Nat
      BY <2>1, <3>1 DEF New
    <3>5. UNCHANGED <<rows, loki, fpc, cursor, batch, todo, excused>>
      BY <1>5 DEF filterVars
    <3> QED
      BY <3>3, <3>4, <3>5 DEF TableTypeOK
  <2>3. CASE ConsumerRestart
    <3>1. UNCHANGED <<rows, taken, loki, fpc, cursor, batch, todo, excused>>
      BY <1>5, <2>3 DEF filterVars, ConsumerRestart
    <3>2. offset' = 0 \/ offset' \in Committed
      BY <2>3 DEF ConsumerRestart
    <3>3. 0 \in Nat
      OBVIOUS
    <3>4. offset' \in Nat
      BY <2>1, <3>2, <3>3, Zenon
    <3> QED
      BY <3>1, <3>4 DEF TableTypeOK
  <2> QED
    BY <1>5, <2>2, <2>3
<1>6. CASE UNCHANGED vars
  BY <1>6 DEF vars, filterVars, consumerVars, TableTypeOK
<1> QED
  BY <1>1, <1>2, <1>3, <1>4, <1>5, <1>6 DEF Next

\* Every variable of the detection pipeline has its type, and the filter stores
\* nothing but anomalies.
THEOREM TypeCorrect == Spec => []TypeOK
<1>1. Init => TypeInv
  BY TableAssumption DEF Init, FilterInit, TypeInv, TypeOK, FilterTypeOK, TableTypeOK
<1>2. TypeInv /\ [Next]_vars => TypeInv'
  BY TypeStep
<1>3. TypeInv => TypeOK
  BY DEF TypeInv
<1> QED
  BY <1>1, <1>2, <1>3, PTL DEF Spec

------------------------------------------------------------------------------
\* The row with which the filter is about to commit line i.
Pending(i) ==
  fpc = "commit" /\ \E r \in Holder(DedupKey(loki[i].kind, at(i), NoZone)) : rows[r].st = "filter"

Waiting(i) == i \in batch /\ \E j \in todo : SameKind(i, j)
Behind(i) == batch # {} /\ i \notin batch /\ \A j \in batch : loki[j].ns <= loki[i].ns
Settled(i) == Stored(i) \/ i \in excused

\* In the middle of a batch every anomaly that is not settled waits to be stored,
\* it or the line that was kept in its place, or lies no earlier than all that
\* was read.
CursorInv ==
  /\ TypeInv
  /\ NothingPassedOver
  /\ fpc # "commit" => \A r \in DOMAIN rows : rows[r].st # "filter"
  /\ fpc = "idle" => batch = {}
  /\ batch \subseteq Window(cursor)
  /\ fpc # "idle" => /\ batch # {}
                     /\ \A i \in DOMAIN loki :
                          Anomalous(i) => Settled(i) \/ Waiting(i) \/ Behind(i) \/ Pending(i)

\* What is committed stays, in its place and under its key.
LEMMA RowsStay ==
  ASSUME TypeInv, [Next]_vars, NEW r \in DOMAIN rows, rows[r].st = "committed"
  PROVE  r \in DOMAIN rows' /\ rows'[r] = rows[r]
<1>1. rows \in Seq(Row \cup {GoneRow})
  BY DEF TypeInv, TypeOK, TableTypeOK
<1>2. ASSUME NEW x, rows' = Append(rows, x)
      PROVE  r \in DOMAIN rows' /\ rows'[r] = rows[r]
  <2>1. r \in 1 .. Len(rows) /\ Len(rows) \in Nat
    BY <1>1
  <2> QED
    BY <1>1, <1>2, <2>1
<1>3. ASSUME NEW w \in Writer, Commit(w) \/ Abort(w)
      PROVE  r \in DOMAIN rows' /\ rows'[r] = rows[r]
  BY <1>3 DEF Commit, Abort, Writer
<1>4. \/ UNCHANGED rows
      \/ \E x : rows' = Append(rows, x)
      \/ \E w \in Writer : Commit(w) \/ Abort(w)
  BY DEF Next, TableNext, IngesterInsert, IngesterCommit, IngesterAbort, FilterWork, FilterFault,
         StoreRow, StoreCommit, FilterRestart, Upsert, Writer, vars
<1> QED
  BY <1>2, <1>3, <1>4

\* A stored anomaly stays stored.
LEMMA StoredStays ==
  ASSUME TypeInv, [Next]_vars, NEW i \in DOMAIN loki, Stored(i), loki'[i] = loki[i]
  PROVE  Stored(i)'
<1>1. PICK r \in DOMAIN rows : rows[r].st = "committed" /\ rows[r].key = DedupKey(loki[i].kind, at(i), NoZone)
  BY DEF Stored, Holder, Committed
<1>2. r \in DOMAIN rows' /\ rows'[r] = rows[r]
  BY <1>1, RowsStay
<1> QED
  BY <1>1, <1>2 DEF Stored, Holder, Committed, DedupKey, at

\* The end of a transaction settles the rows of its writer and no others.
LEMMA EndRows ==
  ASSUME TableTypeOK, NEW w \in Writer, Commit(w) \/ Abort(w)
  PROVE  /\ DOMAIN rows' = DOMAIN rows
         /\ \A r \in DOMAIN rows : rows[r].st # w => rows'[r] = rows[r]
         /\ \A r \in DOMAIN rows : rows[r].st = w => rows'[r].st \in {"committed", "gone"}
<1>1. CASE Commit(w)
  <2>1. \A r \in DOMAIN rows : rows[r] \in Row \cup {GoneRow}
    BY DEF TableTypeOK
  <2>2. \A r \in DOMAIN rows : rows[r].st = w => rows[r] \in Row
    BY <2>1 DEF GoneRow, Writer
  <2>3. \A x \in Row : [x EXCEPT !.st = "committed"].st = "committed"
    BY DEF Row
  <2>4. \A r \in DOMAIN rows : rows[r].st = w => rows'[r] = [rows[r] EXCEPT !.st = "committed"]
    BY <1>1 DEF Commit
  <2>5. \A r \in DOMAIN rows : rows[r].st = w => rows'[r].st = "committed"
    BY <2>2, <2>3, <2>4
  <2> QED
    BY <1>1, <2>5 DEF Commit
<1>2. CASE Abort(w)
  <2>1. \A r \in DOMAIN rows : rows[r].st = w => rows'[r] = GoneRow
    BY <1>2 DEF Abort
  <2>2. GoneRow.st = "gone"
    BY DEF GoneRow
  <2> QED
    BY <1>2, <2>1, <2>2 DEF Abort
<1> QED
  BY <1>1, <1>2

\* The ingester neither makes nor touches rows of the filter.
LEMMA IngesterRows ==
  ASSUME TypeInv, TableNext
  PROVE  /\ \A r \in DOMAIN rows : rows[r].st = "filter" => r \in DOMAIN rows' /\ rows'[r] = rows[r]
         /\ \A r \in DOMAIN rows' : rows'[r].st = "filter" => r \in DOMAIN rows /\ rows[r].st = "filter"
<1>1. rows \in Seq(Row \cup {GoneRow})
  BY DEF TypeInv, TypeOK, TableTypeOK
<1>2. ASSUME NEW x, x.st = "ingester", rows' = Append(rows, x)
      PROVE  /\ \A r \in DOMAIN rows : r \in DOMAIN rows' /\ rows'[r] = rows[r]
             /\ \A r \in DOMAIN rows' : r \in DOMAIN rows \/ rows'[r].st = "ingester"
  <2>1. DOMAIN rows = 1 .. Len(rows) /\ DOMAIN rows' = 1 .. Len(rows) + 1 /\ Len(rows) \in Nat
    BY <1>1, <1>2
  <2>2. rows'[Len(rows) + 1] = x /\ \A r \in 1 .. Len(rows) : rows'[r] = rows[r]
    BY <1>1, <1>2
  <2> QED
    BY <1>2, <2>1, <2>2
<1>3. CASE Commit("ingester") \/ Abort("ingester")
  BY <1>3, EndRows DEF TypeInv, TypeOK, Writer
<1>4. CASE UNCHANGED rows
  BY <1>4
<1>5. \/ \E x : x.st = "ingester" /\ rows' = Append(rows, x)
      \/ Commit("ingester") \/ Abort("ingester")
      \/ UNCHANGED rows
  BY DEF TableNext, IngesterInsert, IngesterCommit, IngesterAbort, Upsert
<1> QED
  BY <1>2, <1>3, <1>4, <1>5

\* What the filter still knows of a line while nothing but rows changes.
LEMMA LinesStay ==
  ASSUME TypeInv, [Next]_vars, loki' = loki
  PROVE  /\ Window(cursor)' = {i \in DOMAIN loki : ToNano(cursor') <= loki[i].ns}
         /\ \A i \in DOMAIN loki : /\ Stored(i) => Stored(i)'
                                   /\ Anomalous(i)' <=> Anomalous(i)
<1>1. \A i \in DOMAIN loki : Stored(i) => Stored(i)'
  BY StoredStays
<1> QED
  BY <1>1 DEF Anomalous, Window

\* The cursor moves no further than the reading allows.
LEMMA CursorStep ==
  ASSUME CursorInv, [Next]_vars
  PROVE  CursorInv'
<1> USE DEF CursorInv
<1>0. TypeInv'
  BY TypeStep
<1>1. batch \subseteq DOMAIN loki /\ todo \subseteq batch /\ cursor \in 0 .. MaxTime /\ MaxTime \in Nat
  BY TableAssumption DEF TypeInv, TypeOK, FilterTypeOK
<1>2. ASSUME loki' = loki, cursor' = cursor, excused \subseteq excused'
      PROVE  NothingPassedOver'
  <2>1. Window(cursor)' = Window(cursor)
    BY <1>2, LinesStay DEF Window
  <2>2. \A i \in DOMAIN loki : Stored(i) => Stored(i)'
    BY <1>2, LinesStay
  <2> QED
    BY <1>2, <2>1, <2>2 DEF NothingPassedOver, Anomalous
<1>3. ASSUME loki' = loki, batch' = batch, excused \subseteq excused'
      PROVE  \A i \in DOMAIN loki : /\ Settled(i) => Settled(i)'
                                    /\ Behind(i) => Behind(i)'
                                    /\ Anomalous(i)' <=> Anomalous(i)
  BY <1>3, LinesStay DEF Settled, Behind
<1>4. ASSUME loki' = loki, cursor' = cursor, batch' \in {batch, {}}
      PROVE  batch' \subseteq Window(cursor)'
  BY <1>4, LinesStay DEF Window
<1>5. CASE TableNext /\ UNCHANGED <<filterVars, consumerVars>>
  <2>1. UNCHANGED <<loki, fpc, cursor, batch, todo, excused>>
    BY <1>5 DEF filterVars
  <2>2. \A i \in DOMAIN loki : Pending(i) => Pending(i)'
    BY <1>5, <2>1, IngesterRows DEF Pending, Holder, DedupKey, at
  <2>3. \A i \in DOMAIN loki : Waiting(i) => Waiting(i)'
    BY <2>1 DEF Waiting, SameKind, at
  <2>4. fpc' # "commit" => \A r \in DOMAIN rows' : rows'[r].st # "filter"
    BY <1>5, <2>1, IngesterRows
  <2> QED
    BY <1>0, <1>2, <1>3, <1>4, <2>1, <2>2, <2>3, <2>4
<1>6. ASSUME NEW new \in LogLine, NEW k \in Kind \cup {Normal}, NEW h \in Half, Arrive(new, k, h),
             UNCHANGED <<rows, consumerVars>>
      PROVE  CursorInv'
  <2>1. UNCHANGED <<rows, fpc, cursor, batch, todo>> /\ excused \subseteq excused'
    BY <1>6 DEF Arrive
  <2>2. /\ DOMAIN loki' = DOMAIN loki \cup {new} /\ new \notin DOMAIN loki
        /\ loki'[new] = [ns |-> h, kind |-> k]
        /\ \A i \in DOMAIN loki : loki'[i] = loki[i]
    BY <1>6 DEF Arrive
  <2>3. Window(cursor) \subseteq Window(cursor)'
    BY <2>1, <2>2 DEF Window
  <2>4. ASSUME NEW i \in DOMAIN loki
        PROVE  /\ Settled(i) => Settled(i)'
               /\ Behind(i) => Behind(i)'
               /\ Waiting(i) => Waiting(i)'
               /\ Pending(i) => Pending(i)'
               /\ Anomalous(i)' <=> Anomalous(i)
               /\ i \in Window(cursor)' => i \in Window(cursor)
    <3>1. Settled(i) => Settled(i)'
      BY <2>1, <2>2, StoredStays DEF Settled
    <3>2. Behind(i) => Behind(i)'
      BY <1>1, <2>1, <2>2 DEF Behind
    <3>3. Waiting(i) => Waiting(i)'
      BY <1>1, <2>1, <2>2 DEF Waiting, SameKind, at
    <3>4. Pending(i) => Pending(i)'
      BY <2>1, <2>2 DEF Pending, Holder, DedupKey, at
    <3>5. Anomalous(i)' <=> Anomalous(i)
      BY <2>2 DEF Anomalous
    <3>6. i \in Window(cursor)' => i \in Window(cursor)
      BY <2>1, <2>2 DEF Window
    <3> QED
      BY <3>1, <3>2, <3>3, <3>4, <3>5, <3>6
  <2>5. ASSUME Anomalous(new)', new \notin excused'
        PROVE  new \in Window(cursor)' /\ \A j \in batch : loki[j].ns <= h
    <3>1. k \in Kind
      BY <2>2, <2>5 DEF Anomalous
    <3>2. ~(h < ToNano(cursor)) /\ ~(\E j \in batch : h < loki[j].ns)
      BY <1>6, <2>5, <3>1 DEF Arrive
    <3>3. h \in Int /\ ToNano(cursor) \in Int
      BY <1>1, Rounding DEF ToNano
    <3>4. \A j \in batch : loki[j].ns \in Int
      BY <1>1, Line
    <3> QED
      BY <2>1, <2>2, <3>2, <3>3, <3>4 DEF Window
  <2>6. NothingPassedOver'
    <3>1. \A i \in DOMAIN loki : Anomalous(i)' /\ i \notin Window(cursor)' => Settled(i)'
      BY <2>3, <2>4 DEF NothingPassedOver, Settled
    <3> QED
      BY <2>2, <2>5, <3>1 DEF NothingPassedOver, Settled
  <2>7. fpc # "idle" /\ Anomalous(new)' => Settled(new)' \/ Behind(new)'
    BY <1>1, <2>1, <2>2, <2>5 DEF Settled, Behind
  <2> QED
    BY <1>0, <2>1, <2>2, <2>3, <2>4, <2>6, <2>7
<1>7. CASE Fetch /\ UNCHANGED rows /\ UNCHANGED consumerVars
  <2>1. PICK start, B :
          /\ start \in 0 .. MaxTime /\ (cursor = 0 \/ start = cursor)
          /\ B \in QueryRange(Window(start)) \ {{}} /\ batch' = B
          /\ LET found == {i \in B : Anomalous(i)}
             IN  \E seen \in SUBSET found : \E T \in Fusion(seen) :
                   /\ todo' = T
                   /\ excused' = excused \cup Passed(start) \cup (found \ seen)
                        \cup {i \in seen : \E j \in T : SameText(i, j) /\ ~SameKind(i, j)}
    BY <1>1, <1>7 DEF Fetch
  <2> DEFINE found == {i \in batch' : Anomalous(i)}
  <2>2. PICK seen \in SUBSET found : \E T \in Fusion(seen) :
          /\ todo' = T
          /\ excused' = excused \cup Passed(start) \cup (found \ seen)
               \cup {i \in seen : \E j \in T : SameText(i, j) /\ ~SameKind(i, j)}
    BY <2>1
  <2>3. PICK T \in Fusion(seen) :
          /\ todo' = T
          /\ excused' = excused \cup Passed(start) \cup (found \ seen)
               \cup {i \in seen : \E j \in T : SameText(i, j) /\ ~SameKind(i, j)}
    BY <2>2
  <2>4. UNCHANGED <<rows, loki, cursor>> /\ fpc = "idle" /\ fpc' \in {"store", "acquire"}
    BY <1>7 DEF Fetch
  <2>5. batch' \subseteq Window(start) /\ batch' # {} /\ Window(start) \subseteq DOMAIN loki
    BY <2>1 DEF QueryRange, Window
  <2>6. batch' \subseteq Window(cursor)'
    <3>1. \A i \in DOMAIN loki : 0 <= loki[i].ns
      BY Line DEF Half
    <3>2. Window(start) \subseteq Window(cursor)
      BY <2>1, <3>1 DEF Window, ToNano
    <3> QED
      BY <2>4, <2>5, <3>2 DEF Window
  <2>7. NothingPassedOver'
    BY <1>2, <2>3, <2>4
  <2>8. ASSUME NEW i \in DOMAIN loki, Anomalous(i), ~Settled(i)', ~Waiting(i)'
        PROVE  Behind(i)'
    <3>1. ~Stored(i) /\ i \notin excused'
      BY <2>4, <2>8, LinesStay DEF Settled
    <3>2. i \notin batch'
      <4>1. SUFFICES ASSUME i \in batch'
                     PROVE  FALSE
        OBVIOUS
      <4>2. i \in seen
        BY <2>3, <2>8, <3>1, <4>1
      <4>3. PICK j \in T : SameText(i, j)
        BY <2>3, <4>2 DEF Fusion
      <4>4. SameKind(i, j)
        BY <2>3, <3>1, <4>2, <4>3
      <4>5. Waiting(i)'
        BY <2>3, <2>4, <4>1, <4>4 DEF Waiting, SameKind, at
      <4> QED
        BY <2>8, <4>5
    <3>3. i \in Window(start) \ batch'
      BY <2>3, <2>8, <3>1, <3>2 DEF Passed
    <3>4. \A j \in batch' : loki[j].ns <= loki[i].ns
      BY <2>1, <3>3 DEF QueryRange
    <3> QED
      BY <2>4, <2>5, <3>2, <3>4 DEF Behind
  <2>9. \A i \in DOMAIN loki : Anomalous(i)' <=> Anomalous(i)
    BY <2>4, LinesStay
  <2> QED
    BY <1>0, <2>4, <2>5, <2>6, <2>7, <2>8, <2>9
<1>8. CASE MoveCursor /\ UNCHANGED rows /\ UNCHANGED consumerVars
  <2>1. PICK t \in Moment :
          /\ Newest(batch, t) /\ cursor' = t
          /\ excused' = excused \cup {i \in Passed(t) \ batch : at(i) = t}
    BY <1>8 DEF MoveCursor
  <2>2. fpc = "store" /\ todo = {} /\ fpc' = "idle" /\ batch' = {} /\ UNCHANGED <<rows, loki>>
    BY <1>8 DEF MoveCursor
  <2>3. PICK l \in batch : at(l) = t
    BY <2>1 DEF Newest
  <2>4. ASSUME NEW i \in DOMAIN loki, Anomalous(i), loki[i].ns < ToNano(t)
        PROVE  Settled(i) \/ i \in excused'
    <3>1. Settled(i) \/ Behind(i)
      BY <2>2, <2>4 DEF Waiting, Pending
    <3>2. CASE Behind(i) /\ at(i) = t
      <4>1. ToNano(t) \in Int /\ loki[i].ns \in Int
        BY Line DEF ToNano, Moment
      <4>2. i \notin Window(t) /\ i \notin batch
        BY <2>4, <3>2, <4>1 DEF Window, Behind
      <4> QED
        BY <2>1, <2>4, <3>2, <4>2 DEF Passed, Settled
    <3>3. CASE Behind(i) /\ at(i) # t
      <4>1. loki[l].ns <= loki[i].ns
        BY <2>3, <3>3 DEF Behind
      <4>2. loki[l].ns \in Int /\ (2 * t = loki[l].ns \/ 2 * t = loki[l].ns + 1)
        BY <1>1, <2>3, Line
      <4>3. /\ loki[i].ns \in Int /\ at(i) \in Int /\ t \in Int
            /\ 2 * at(i) = loki[i].ns \/ 2 * at(i) = loki[i].ns + 1
        BY Line DEF Moment
      <4>4. loki[i].ns < 2 * t
        BY <2>4 DEF ToNano
      <4> QED
        BY <3>3, <4>1, <4>2, <4>3, <4>4
    <3> QED
      BY <3>1, <3>2, <3>3
  <2>5. NothingPassedOver'
    <3>1. \A i \in DOMAIN loki : i \notin Window(cursor)' => loki[i].ns < ToNano(t)
      <4>1. ToNano(t) \in Int /\ \A i \in DOMAIN loki : loki[i].ns \in Int
        BY Line DEF ToNano, Moment
      <4> QED
        BY <2>1, <2>2, <4>1 DEF Window
    <3> QED
      BY <2>1, <2>2, <2>4, <3>1, LinesStay DEF NothingPassedOver, Settled
  <2> QED
    BY <1>0, <2>2, <2>5
<1>9. ASSUME NEW l \in todo, StoreRow(l), UNCHANGED consumerVars
      PROVE  CursorInv'
  <2>1. UNCHANGED <<loki, cursor, batch, excused>> /\ todo' = todo \ {l} /\ fpc \in {"acquire", "store"}
    BY <1>9 DEF StoreRow
  <2>2. \A i \in DOMAIN loki : ~Pending(i)
    BY <2>1 DEF Pending
  <2>3. l \in DOMAIN loki
    BY <1>1
  <2>4. Stored(l)' \/ Pending(l)'
    <3>1. CASE rows' = rows
      <4>1. PICK r \in Holder(DedupKey(loki[l].kind, at(l), NoZone)) : rows[r].st \in {"filter", "committed"}
        <5>1. rows \in Seq(Row \cup {GoneRow})
          BY DEF TypeInv, TypeOK, TableTypeOK
        <5>2. \A x : rows # Append(rows, x)
          BY <5>1
        <5> QED
          BY <1>9, <3>1, <5>2 DEF StoreRow, Upsert
      <4>2. rows[r].st = "committed"
        BY <2>1, <4>1 DEF Holder
      <4>3. Stored(l)
        BY <4>1, <4>2 DEF Stored, Committed, Holder
      <4> QED
        BY <2>1, <2>3, <4>3, LinesStay
    <3>2. CASE rows' # rows
      <4> DEFINE x == [key |-> DedupKey(loki[l].kind, at(l), NoZone), time |-> at(l), st |-> "filter"]
      <4>1. rows' = Append(rows, x) /\ fpc' = "commit"
        BY <1>9, <3>2 DEF StoreRow, Upsert
      <4>2. Len(rows) + 1 \in DOMAIN rows' /\ rows'[Len(rows) + 1] = x
        <5>1. rows \in Seq(Row \cup {GoneRow})
          BY DEF TypeInv, TypeOK, TableTypeOK
        <5> QED
          BY <4>1, <5>1
      <4> QED
        BY <2>1, <4>1, <4>2 DEF Pending, Holder, DedupKey, at
    <3> QED
      BY <3>1, <3>2
  <2>5. ASSUME NEW i \in DOMAIN loki, Waiting(i)
        PROVE  Settled(i)' \/ Pending(i)' \/ Waiting(i)'
    <3>1. PICK j \in todo : SameKind(i, j)
      BY <2>5 DEF Waiting
    <3>2. CASE j # l
      BY <2>1, <2>5, <3>1, <3>2 DEF Waiting, SameKind, at
    <3>3. CASE j = l
      <4>1. CASE Pending(l)'
        BY <2>1, <3>1, <3>3, <4>1 DEF Pending, SameKind, DedupKey, at
      <4>2. CASE Stored(l)'
        BY <2>1, <3>1, <3>3, <4>2 DEF Settled, Stored, SameKind, DedupKey, at
      <4> QED
        BY <2>4, <4>1, <4>2
    <3> QED
      BY <3>2, <3>3
  <2>6. fpc' \in {"store", "commit"} /\ (fpc' # "commit" => rows' = rows)
    BY <1>9 DEF StoreRow
  <2>7. fpc' # "commit" => \A r \in DOMAIN rows' : rows'[r].st # "filter"
    BY <2>1, <2>6
  <2> QED
    BY <1>0, <1>2, <1>3, <1>4, <2>1, <2>2, <2>5, <2>6, <2>7
<1>10. CASE StoreCommit /\ UNCHANGED consumerVars
  <2>1. UNCHANGED <<loki, cursor, batch, todo, excused>> /\ fpc' = "store" /\ fpc = "commit"
    BY <1>10 DEF StoreCommit
  <2>2. DOMAIN rows' = DOMAIN rows
        /\ \A r \in DOMAIN rows : IF rows[r].st = "filter" THEN rows'[r] = [rows[r] EXCEPT !.st = "committed"]
                                   ELSE rows'[r] = rows[r]
    BY <1>10 DEF StoreCommit, Commit
  <2>3. \A r \in DOMAIN rows : rows[r].st = "filter" =>
          rows'[r].st = "committed" /\ rows'[r].key = rows[r].key
    <3>1. \A r \in DOMAIN rows : rows[r] \in Row \cup {GoneRow}
      BY DEF TypeInv, TypeOK, TableTypeOK
    <3>2. \A r \in DOMAIN rows : rows[r].st = "filter" => rows[r] \in Row
      BY <3>1 DEF GoneRow
    <3>3. \A x \in Row : LET y == [x EXCEPT !.st = "committed"]
                         IN  y.st = "committed" /\ y.key = x.key
      BY DEF Row
    <3> QED
      BY <2>2, <3>2, <3>3
  <2>4. \A i \in DOMAIN loki : Pending(i) => Settled(i)'
    BY <2>1, <2>2, <2>3 DEF Pending, Settled, Stored, Holder, Committed, DedupKey, at
  <2>5. \A i \in DOMAIN loki : Waiting(i) => Waiting(i)'
    BY <2>1 DEF Waiting, SameKind, at
  <2>6. \A r \in DOMAIN rows' : rows'[r].st # "filter"
    BY <2>2, <2>3
  <2> QED
    BY <1>0, <1>2, <1>3, <1>4, <2>1, <2>4, <2>5, <2>6
<1>11. ASSUME NEW l \in todo, StoreRowFails(l), UNCHANGED rows, UNCHANGED consumerVars
       PROVE  CursorInv'
  <2>1. /\ UNCHANGED <<rows, loki, cursor, batch>> /\ todo' = todo \ {l}
        /\ excused' = excused \cup {i \in batch : SameKind(l, i)}
        /\ fpc' = "store" /\ fpc \in {"acquire", "store"}
    BY <1>11 DEF StoreRowFails
  <2>2. ASSUME NEW i \in DOMAIN loki, Waiting(i)
        PROVE  Settled(i)' \/ Waiting(i)'
    <3>1. PICK j \in todo : SameKind(i, j)
      BY <2>2 DEF Waiting
    <3>2. CASE j # l
      BY <2>1, <2>2, <3>1, <3>2 DEF Waiting, SameKind, at
    <3>3. CASE j = l
      BY <2>1, <2>2, <3>1, <3>3 DEF Waiting, Settled, SameKind
    <3> QED
      BY <3>2, <3>3
  <2>3. \A i \in DOMAIN loki : ~Pending(i)
    BY <2>1 DEF Pending
  <2> QED
    BY <1>0, <1>2, <1>3, <1>4, <2>1, <2>2, <2>3
<1>12. CASE StoreFails /\ UNCHANGED rows /\ UNCHANGED consumerVars
  <2>1. UNCHANGED <<rows, loki, cursor, excused>> /\ batch' = {} /\ fpc' = "idle" /\ fpc = "acquire"
    BY <1>12 DEF StoreFails
  <2> QED
    BY <1>0, <1>2, <2>1
<1>13. CASE FilterRestart /\ UNCHANGED consumerVars
  <2>1. loki' = loki /\ batch' = {} /\ fpc' = "idle" /\ excused' = excused \cup Passed(cursor')
    BY <1>13 DEF FilterRestart
  <2>2. NothingPassedOver'
    BY <2>1, LinesStay DEF NothingPassedOver, Passed, Window
  <2>3. \A r \in DOMAIN rows' : rows'[r].st # "filter"
    <3>1. CASE fpc = "commit"
      <4>1. Commit("filter") \/ Abort("filter")
        BY <1>13, <3>1 DEF FilterRestart
      <4> QED
        BY <4>1, EndRows DEF TypeInv, TypeOK, Writer
    <3> QED
      BY <1>13, <3>1 DEF FilterRestart
  <2> QED
    BY <1>0, <2>1, <2>2, <2>3
<1>14. CASE UNCHANGED <<rows, filterVars>>
  <2>1. UNCHANGED <<rows, loki, fpc, cursor, batch, todo, excused>>
    BY <1>14 DEF filterVars
  <2>2. \A i \in DOMAIN loki : /\ Waiting(i) => Waiting(i)'
                               /\ Pending(i) => Pending(i)'
    <3>1. \A i \in DOMAIN loki : Waiting(i) => Waiting(i)'
      BY <2>1 DEF Waiting, SameKind, at
    <3>2. \A i \in DOMAIN loki : Pending(i) => Pending(i)'
      BY <2>1 DEF Pending, Holder, DedupKey, at
    <3> QED
      BY <3>1, <3>2
  <2> QED
    BY <1>0, <1>2, <1>3, <1>4, <2>1, <2>2
<1> QED
  BY <1>5, <1>6, <1>7, <1>8, <1>9, <1>10, <1>11, <1>12, <1>13, <1>14
     DEF Next, FilterWork, FilterFault, vars

\* The cursor of Layer 1 passes over no anomaly that it could still read, for
\* every number of lines, writers, restarts and failures, and every batch size.
THEOREM NothingLost == Spec => []NothingPassedOver
<1>1. Init => CursorInv
  BY TableAssumption DEF Init, FilterInit, CursorInv, TypeInv, TypeOK, FilterTypeOK, TableTypeOK,
     NothingPassedOver
<1>2. CursorInv /\ [Next]_vars => CursorInv'
  BY CursorStep
<1>3. CursorInv => NothingPassedOver
  BY DEF CursorInv
<1> QED
  BY <1>1, <1>2, <1>3, PTL DEF Spec

------------------------------------------------------------------------------
UniqueKeys ==
  \A q, r \in DOMAIN rows :
    rows[q].st # "gone" /\ rows[r].st # "gone" /\ rows[q].key = rows[r].key => q = r

\* What was handed over once lies behind the offset, in the only row of its key.
Handed(key) == \E r \in Committed : rows[r].key = key /\ r <= offset

OnceInv ==
  /\ TypeInv
  /\ UniqueKeys
  /\ \A key \in Key : taken[key] = 0 \/ (taken[key] = 1 /\ Handed(key))

\* Two writers never leave two rows of one key.
LEMMA UniqueStep ==
  ASSUME TypeInv, UniqueKeys, [Next]_vars
  PROVE  UniqueKeys'
<1>1. rows \in Seq(Row \cup {GoneRow})
  BY DEF TypeInv, TypeOK, TableTypeOK
<1>2. ASSUME NEW x, Holder(x.key) = {}, rows' = Append(rows, x)
      PROVE  UniqueKeys'
  <2>1. PICK new : new = Len(rows) + 1
    OBVIOUS
  <2>2. /\ DOMAIN rows' = DOMAIN rows \cup {new} /\ new \notin DOMAIN rows
        /\ rows'[new] = x /\ \A r \in DOMAIN rows : rows'[r] = rows[r]
    BY <1>1, <1>2, <2>1
  <2>3. \A r \in DOMAIN rows : rows[r].st # "gone" => rows[r].key # x.key
    BY <1>2 DEF Holder
  <2> QED
    BY <2>2, <2>3 DEF UniqueKeys
<1>3. ASSUME NEW w \in Writer, Commit(w) \/ Abort(w)
      PROVE  UniqueKeys'
  <2>1. /\ DOMAIN rows' = DOMAIN rows
        /\ \A r \in DOMAIN rows : rows[r].st # w => rows'[r] = rows[r]
    BY <1>3, EndRows DEF TypeInv, TypeOK
  <2>2. CASE Commit(w)
    <3>1. \A r \in DOMAIN rows : rows[r] \in Row \cup {GoneRow}
      BY <1>1
    <3>2. \A r \in DOMAIN rows : rows[r].st = w => rows[r] \in Row
      BY <3>1 DEF GoneRow, Writer
    <3>3. \A x \in Row : [x EXCEPT !.st = "committed"].key = x.key
      BY DEF Row
    <3>4. \A r \in DOMAIN rows : rows[r].st = w =>
            rows'[r].key = rows[r].key /\ rows[r].st # "gone"
      BY <2>2, <3>2, <3>3 DEF Commit, Writer
    <3>5. \A r \in DOMAIN rows' : rows'[r].st # "gone" =>
            rows'[r].key = rows[r].key /\ rows[r].st # "gone"
      BY <2>1, <3>4
    <3> QED
      BY <2>1, <3>5 DEF UniqueKeys
  <2>3. CASE Abort(w)
    <3>1. \A r \in DOMAIN rows : rows[r].st = w => rows'[r].st = "gone"
      BY <2>3 DEF Abort, GoneRow
    <3>2. \A r \in DOMAIN rows' : rows'[r].st # "gone" => rows'[r] = rows[r]
      BY <2>1, <3>1
    <3> QED
      BY <2>1, <3>2 DEF UniqueKeys
  <2> QED
    BY <1>3, <2>2, <2>3
<1>4. \/ UNCHANGED rows
      \/ \E x : Holder(x.key) = {} /\ rows' = Append(rows, x)
      \/ \E w \in Writer : Commit(w) \/ Abort(w)
  <2>1. ASSUME NEW w, NEW k, NEW t, NEW z, Upsert(w, k, t, z)
        PROVE  UNCHANGED rows \/ \E x : Holder(x.key) = {} /\ rows' = Append(rows, x)
    <3> DEFINE x == [key |-> DedupKey(k, t, z), time |-> t, st |-> w]
    <3>1. x.key = DedupKey(k, t, z)
      OBVIOUS
    <3> QED
      BY <2>1, <3>1 DEF Upsert
  <2> QED
    BY <2>1 DEF Next, TableNext, IngesterInsert, IngesterCommit, IngesterAbort, FilterWork,
                FilterFault, StoreRow, StoreCommit, FilterRestart, Writer, vars
<1>5. CASE UNCHANGED rows
  BY <1>5 DEF UniqueKeys
<1> QED
  BY <1>2, <1>3, <1>4, <1>5

LEMMA OnceStep ==
  ASSUME OnceInv, [Next]_vars
  PROVE  OnceInv'
<1>1. TypeInv' /\ UniqueKeys'
  BY TypeStep, UniqueStep DEF OnceInv
<1>2. taken \in [Key -> Nat] /\ offset \in Nat /\ \A r \in Committed : r \in Nat
  <2>1. rows \in Seq(Row \cup {GoneRow})
    BY DEF OnceInv, TypeInv, TypeOK, TableTypeOK
  <2>2. \A r \in DOMAIN rows : r \in Nat
    BY <2>1
  <2> QED
    BY <2>2 DEF OnceInv, TypeInv, TypeOK, Committed
<1>3. CASE UNCHANGED <<offset, taken>>
  <2>1. \A key \in Key : Handed(key) => Handed(key)'
    BY <1>3, RowsStay DEF OnceInv, Handed, Committed
  <2> QED
    BY <1>1, <1>3, <2>1 DEF OnceInv
<1>4. CASE Poll /\ UNCHANGED <<rows, filterVars>>
  <2>1. PICK last \in New :
          /\ offset' = last
          /\ taken' = [key \in Key |->
               taken[key] + Cardinality({r \in {s \in New : s <= last} : rows[r].key = key})]
    BY <1>4 DEF Poll
  <2>2. offset < last /\ last \in Nat
    BY <1>2, <2>1 DEF New
  <2>3. ASSUME NEW key \in Key
        PROVE  taken'[key] = 0 \/ (taken'[key] = 1 /\ Handed(key)')
    <3> DEFINE H == {r \in {s \in New : s <= last} : rows[r].key = key}
    <3>1. taken'[key] = taken[key] + Cardinality(H)
      BY <2>1
    <3>2. \A q, r \in Committed : rows[q].key = key /\ rows[r].key = key => q = r
      BY DEF OnceInv, UniqueKeys, Committed
    <3>3. H \subseteq Committed /\ \A r \in H : rows[r].key = key /\ offset < r /\ r <= last
      BY DEF New
    <3>4. CASE H = {}
      <4>1. Cardinality(H) = 0
        BY <3>4, FS_EmptySet
      <4>2. taken'[key] = taken[key]
        BY <1>2, <3>1, <4>1
      <4>3. Handed(key) => Handed(key)'
        BY <1>2, <1>4, <2>1, <2>2 DEF Handed, Committed
      <4> QED
        BY <4>2, <4>3 DEF OnceInv
    <3>5. ASSUME NEW r \in H
          PROVE  taken'[key] = 1 /\ Handed(key)'
      <4>1. H = {r}
        BY <3>2, <3>3, <3>5
      <4>2. Cardinality(H) = 1
        BY <4>1, FS_Singleton
      <4>3. ~Handed(key)
        <5>1. \A q \in Committed : rows[q].key = key => q = r
          BY <3>2, <3>3, <3>5
        <5>2. ~(r <= offset)
          BY <1>2, <3>3, <3>5
        <5> QED
          BY <5>1, <5>2 DEF Handed
      <4>4. taken[key] = 0
        BY <4>3 DEF OnceInv
      <4>5. Handed(key)'
        BY <1>4, <2>1, <3>3, <3>5 DEF Handed, Committed
      <4> QED
        BY <3>1, <4>2, <4>4, <4>5
    <3> QED
      BY <3>4, <3>5
  <2> QED
    BY <1>1, <2>3 DEF OnceInv
<1>5. CASE ConsumerRestart /\ UNCHANGED <<rows, filterVars>>
  <2>1. \A r \in Committed : r <= offset'
    BY <1>5 DEF ConsumerRestart
  <2>2. \A key \in Key : Handed(key) => Handed(key)'
    BY <1>5, <2>1 DEF Handed, Committed
  <2>3. taken' = taken
    BY <1>5 DEF ConsumerRestart
  <2> QED
    BY <1>1, <2>2, <2>3 DEF OnceInv
<1> QED
  BY <1>3, <1>4, <1>5 DEF Next, vars, consumerVars

\* First write wins: a dedup_key is analysed at most once, for every number of
\* lines, rows and restarts.
THEOREM OncePerKey == Spec => []AnalysedOnce
<1>1. Init => OnceInv
  BY TableAssumption DEF Init, FilterInit, OnceInv, TypeInv, TypeOK, FilterTypeOK, TableTypeOK,
     UniqueKeys
<1>2. OnceInv /\ [Next]_vars => OnceInv'
  BY OnceStep
<1>3. OnceInv => AnalysedOnce
  BY DEF OnceInv, AnalysedOnce
<1> QED
  BY <1>1, <1>2, <1>3, PTL DEF Spec
==============================================================================
