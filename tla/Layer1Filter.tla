----------------------------- MODULE Layer1Filter -----------------------------
(***************************************************************************)
(* The polling loop of Layer 1 over Loki: fetch a batch forward from the   *)
(* cursor, find the anomalies, upsert them one by one, move the cursor to  *)
(* the newest line that was read.  A restart takes the cursor from the     *)
(* newest row of anomaly_logs, whoever wrote it.                           *)
(*                                                                         *)
(* Loki is external: query_range answers with the earliest lines of        *)
(* [start, end), at most limit of them, the order between streams being    *)
(* arbitrary.  A line may arrive late.  There is no clock: a line beyond   *)
(* the end of a window is one that arrives after the query, and the start  *)
(* of the first window (now less the lookback) may be any time.  A time of *)
(* 0 is None.                                                              *)
(*                                                                         *)
(* Loki counts nanoseconds, a datetime microseconds, and the code converts *)
(* in both directions through a float, which is wrong by less than half a  *)
(* microsecond.  So the lines that share a datetime fall into those which  *)
(* a query from it returns and those whose time was rounded up past their  *)
(* own: time on the side of Loki is counted in halves of a microsecond.    *)
(***************************************************************************)
EXTENDS AnomalyLogs

CONSTANTS
  Normal,          \* the kind of a line on which no stage fires
  Semantic,        \* the kinds that only LogBERT finds
  Message,         \* kind -> container and message of its lines
  BatchSize,
  LogLine          \* bound: the lines that ever reach Loki

ASSUME FilterAssumption ==
  /\ BatchSize \in Nat \ {0}
  /\ Normal \notin Kind /\ Semantic \subseteq Kind

VARIABLES
  loki,            \* the lines that have arrived -> what the code sees of them
  fpc,             \* where process_batch is
  cursor,          \* last_timestamp
  batch, todo,     \* the lines that were read; the anomalies still to store
  excused          \* history: anomalies that arrived behind what was already
                   \* read, or before the time this life of the filter starts
                   \* from, that LogBERT or the database failed on, that the
                   \* fusion took for another, or below the cursor

filterVars == <<loki, fpc, cursor, batch, todo, excused>>

\* Bound: the times on the side of Loki.
Half == 2 .. 2 * MaxTime

\* datetime.fromtimestamp(int(ns) / 1e9) rounds to the nearest microsecond, and
\* int(start_time.timestamp() * 1e9) is where that microsecond begins.
ToMicro(h) == (h + 1) \div 2
ToNano(t) == 2 * t

Entry == [ns : Half, kind : Kind \cup {Normal}]
at(i) == ToMicro(loki[i].ns)
Anomalous(i) == loki[i].kind \in Kind
Stored(i) == Holder(DedupKey(loki[i].kind, at(i), NoZone)) \cap Committed # {}
Window(start) == {i \in DOMAIN loki : ToNano(start) <= loki[i].ns}
Passed(start) == {i \in DOMAIN loki \ Window(start) : Anomalous(i) /\ ~Stored(i)}
Newest(B, t) == \E j \in B : at(j) = t /\ \A i \in B : at(i) <= t

FilterTypeOK ==
  /\ DOMAIN loki \subseteq LogLine
  /\ \A i \in DOMAIN loki : loki[i] \in Entry
  /\ fpc \in {"idle", "acquire", "store", "commit"}
  /\ cursor \in 0 .. MaxTime
  /\ batch \subseteq DOMAIN loki /\ todo \subseteq batch
  /\ excused \subseteq DOMAIN loki

FilterInit ==
  /\ loki = [i \in {} |-> i]
  /\ fpc = "idle"
  /\ cursor = 0
  /\ batch = {} /\ todo = {} /\ excused = {}

\* The line i of kind k reaches Loki with the timestamp h.
Arrive(i, k, h) ==
  /\ i \notin DOMAIN loki
  /\ loki' = [j \in DOMAIN loki \cup {i} |-> IF j = i THEN [ns |-> h, kind |-> k] ELSE loki[j]]
  /\ excused' = IF k \in Kind /\ (h < ToNano(cursor) \/ \E j \in batch : h < loki[j].ns)
                THEN excused \cup {i} ELSE excused
  /\ UNCHANGED <<fpc, cursor, batch, todo>>

\* Mutant: the newest lines of the window, as without direction=forward.
QueryRangeBug(W) ==
  {B \in SUBSET W : /\ Cardinality(B) <= BatchSize
                    /\ Cardinality(B) = BatchSize \/ B = W
                    /\ \A i \in B, j \in W \ B : loki[j].ns <= loki[i].ns}
QueryRange(W) ==
  {B \in SUBSET W : /\ Cardinality(B) <= BatchSize
                    /\ Cardinality(B) = BatchSize \/ B = W
                    /\ \A i \in B, j \in W \ B : loki[i].ns <= loki[j].ns}

\* _run_fusion groups what the stages found by timestamp, container and message,
\* and keeps one line of each group: lines of two nodes or services may be one.
SameText(i, j) == at(i) = at(j) /\ Message[loki[i].kind] = Message[loki[j].kind]
SameKind(i, j) == at(i) = at(j) /\ loki[i].kind = loki[j].kind

\* Mutant: one line of each message, whenever it was written.
FusionBug(F) ==
  {T \in SUBSET F :
     \A i \in F : \E j \in T : \A h \in T :
       Message[loki[h].kind] = Message[loki[i].kind] <=> h = j}
Fusion(F) ==
  {T \in SUBSET F : /\ \A i \in F : \E j \in T : SameText(i, j)
                    /\ \A i, j \in T : SameText(i, j) => i = j}

\* fetch_logs_from_loki and _run_fusion.  Nothing happens when the window is
\* empty or the query fails.  When LogBERT fails, its kinds pass as normal.
Fetch ==
  /\ fpc = "idle"
  /\ \E start \in IF cursor = 0 THEN 0 .. MaxTime ELSE {cursor} :
       \E B \in QueryRange(Window(start)) \ {{}} :
         LET found == {i \in B : Anomalous(i)}
             missed == {i \in found : loki[i].kind \in Semantic}
         IN \E seen \in {found, found \ missed} :
              \E T \in Fusion(seen) :
                /\ batch' = B
                /\ todo' = T
                /\ excused' = excused \cup Passed(start) \cup (found \ seen)
                     \cup {i \in seen : \E j \in T : SameText(i, j) /\ ~SameKind(i, j)}
                /\ fpc' = IF T = {} THEN "store" ELSE "acquire"
  /\ UNCHANGED <<loki, cursor>>

\* One row of store_anomalies; a row that was there already needs no commit.
StoreRow(i) ==
  /\ fpc \in {"acquire", "store"} /\ i \in todo
  /\ Upsert("filter", loki[i].kind, at(i), NoZone)
  /\ todo' = todo \ {i}
  /\ fpc' = IF rows' = rows THEN "store" ELSE "commit"
  /\ UNCHANGED <<loki, cursor, batch, excused>>

StoreCommit ==
  /\ fpc = "commit"
  /\ Commit("filter")
  /\ fpc' = "store"
  /\ UNCHANGED <<loki, cursor, batch, todo, excused>>

\* The exception of one row is logged and the loop goes on; the other lines of
\* its node, service, message and microsecond are lost with it.
StoreRowFails(i) ==
  /\ fpc \in {"acquire", "store"} /\ i \in todo
  /\ todo' = todo \ {i}
  /\ excused' = excused \cup {j \in batch : SameKind(i, j)}
  /\ fpc' = "store"
  /\ UNCHANGED <<loki, cursor, batch>>

\* Mutant: the anomalies of the failed batch are kept.
StoreFailsBug ==
  /\ fpc = "acquire"
  /\ fpc' = "idle" /\ batch' = {}
  /\ UNCHANGED <<loki, cursor, todo, excused>>

\* pool.acquire raises: process_batch ends before it moves the cursor.
StoreFails ==
  /\ fpc = "acquire"
  /\ fpc' = "idle" /\ batch' = {} /\ todo' = {}
  /\ UNCHANGED <<loki, cursor, excused>>

\* Mutant: the cursor moves only behind an anomaly.
MoveCursorBug ==
  /\ fpc = "store" /\ todo = {}
  /\ \E t \in Moment :
       /\ Newest(batch, t)
       /\ cursor' = IF \E i \in batch : Anomalous(i) THEN t ELSE cursor
  /\ fpc' = "idle" /\ batch' = {}
  /\ UNCHANGED <<loki, todo, excused>>

\* _next_cursor_timestamp: the newest microsecond that was read.  When the limit
\* cut the batch within it, what lies below the cursor is not read any more.
MoveCursor ==
  /\ fpc = "store" /\ todo = {}
  /\ \E t \in Moment :
       /\ Newest(batch, t)
       /\ cursor' = t
       /\ excused' = excused \cup {i \in Passed(t) \ batch : at(i) = t}
  /\ fpc' = "idle" /\ batch' = {}
  /\ UNCHANGED <<loki, todo>>

\* SELECT MAX(time) FROM anomaly_logs, or None
LastTime(t) ==
  \/ Committed = {} /\ t = 0
  \/ /\ \E r \in Committed : rows[r].time = t
     /\ \A r \in Committed : rows[r].time <= t

\* The process dies; the row it was about to commit stays or goes.  Nothing of
\* it is left until the next one starts (initialize), so both are one step.
FilterRestart ==
  /\ IF fpc = "commit" THEN Commit("filter") \/ Abort("filter") ELSE UNCHANGED rows
  /\ \E t \in 0 .. MaxTime : LastTime(t)' /\ cursor' = t /\ excused' = excused \cup Passed(t)
  /\ fpc' = "idle" /\ batch' = {} /\ todo' = {}
  /\ UNCHANGED loki
==============================================================================
