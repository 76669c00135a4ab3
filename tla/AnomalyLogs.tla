----------------------------- MODULE AnomalyLogs -----------------------------
(***************************************************************************)
(* The table anomaly_logs and the ingester that writes it beside Layer 1.  *)
(*                                                                         *)
(* A row is named by its id.  BIGSERIAL gives the id when the row is       *)
(* inserted, other sessions see the row when its transaction commits, and  *)
(* these two orders differ.  A row keeps the time of the first line that   *)
(* had its dedup_key; the counters that a conflict updates are left out.   *)
(***************************************************************************)
EXTENDS Integers, Sequences, FiniteSets

CONSTANTS
  Kind,            \* node, service and template of an anomaly
  Zone, NoZone,    \* how the time of an anomaly may be given; without a zone
  MaxTime,         \* bound: timestamps, in microseconds
  Minute,          \* width of the bucket of a dedup_key
  MaxGone,         \* bound: rows inserted by transactions that do not commit
  MaxRows          \* bound: the ingester inserts into a table with fewer rows

ASSUME TableAssumption ==
  /\ MaxTime \in Nat /\ Minute \in Nat \ {0} /\ MaxGone \in Nat /\ MaxRows \in Nat
  /\ NoZone \in Zone

VARIABLE rows      \* id -> row

Writer == {"filter", "ingester"}
Moment == 1 .. MaxTime
Key == Kind \X (0 .. MaxTime) \X Zone

Row == [key : Key, time : Moment, st : Writer \cup {"committed"}]
GoneRow == [st |-> "gone"]   \* an id whose transaction did not commit

TableTypeOK == rows \in Seq(Row \cup {GoneRow})

\* sha256(node | service | template | minute of the timestamp), the minute in
\* isoformat, which writes the zone when the timestamp has one
DedupKey(k, t, z) == <<k, t \div Minute, z>>

Holder(key) == {r \in DOMAIN rows : rows[r].st # "gone" /\ rows[r].key = key}
Committed == {r \in DOMAIN rows : rows[r].st = "committed"}
Gone == {r \in DOMAIN rows : rows[r].st = "gone"}

\* INSERT ... ON CONFLICT (dedup_key) DO UPDATE: it waits while the row that
\* has the key belongs to the open transaction of somebody else.
Upsert(w, k, t, z) ==
  LET key == DedupKey(k, t, z)
  IN \/ /\ Holder(key) = {}
        /\ rows' = Append(rows, [key |-> key, time |-> t, st |-> w])
     \/ /\ \E r \in Holder(key) : rows[r].st \in {w, "committed"}
        /\ UNCHANGED rows

\* The transaction of w ends: its rows become visible, or leave a gap.
Commit(w) ==
  rows' = [r \in DOMAIN rows |->
             IF rows[r].st = w THEN [rows[r] EXCEPT !.st = "committed"] ELSE rows[r]]
Abort(w) ==
  /\ Cardinality(Gone) < MaxGone
  /\ rows' = [r \in DOMAIN rows |-> IF rows[r].st = w THEN GoneRow ELSE rows[r]]

\* create_anomaly and create_anomaly_batch: the rows of one request, inserted
\* one after the other in one transaction, with the time the caller gives.
IngesterInsert(k, t, z) == Len(rows) < MaxRows /\ Upsert("ingester", k, t, z)

Open == \E r \in DOMAIN rows : rows[r].st = "ingester"
IngesterCommit == Open /\ Commit("ingester")
IngesterAbort == Open /\ Abort("ingester")
==============================================================================
