------------------------------ MODULE Detection ------------------------------
(***************************************************************************)
(* From a log line to the analysis: Layer 1, the ingester, and the Layer 2 *)
(* consumer, which polls anomaly_logs by id and hands what is new to       *)
(* process_anomaly_batch.                                                  *)
(***************************************************************************)
EXTENDS Layer1Filter

CONSTANT ConsumerBatch   \* batch_size of the consumer

ASSUME ConsumerAssumption == ConsumerBatch \in Nat \ {0}

VARIABLES
  offset,          \* last_processed_id
  taken            \* history: how often a key was handed over

consumerVars == <<offset, taken>>
vars == <<rows, filterVars, consumerVars>>

TypeOK ==
  /\ TableTypeOK /\ FilterTypeOK
  /\ offset \in Nat
  /\ taken \in [Key -> Nat]

Init ==
  /\ rows = <<>> /\ FilterInit
  /\ offset = 0 /\ taken = [key \in Key |-> 0]

New == {r \in Committed : r > offset}

\* poll_once: WHERE id > $1 ORDER BY id ASC LIMIT $2.  The offset moves before
\* the callback, whose exceptions are logged: whatever becomes of it, these rows
\* are not read again.  The loop is sequential, so that the end of the callback
\* is no step of its own.
Poll ==
  \E last \in New :
    LET batchRows == {r \in New : r <= last}
    IN /\ Cardinality(batchRows) <= ConsumerBatch
       /\ Cardinality(batchRows) = ConsumerBatch \/ batchRows = New
       /\ offset' = last
       /\ taken' = [key \in Key |->
                      taken[key] + Cardinality({r \in batchRows : rows[r].key = key})]

\* Mutant: starts from the beginning of the table.
ConsumerRestartBug == offset' = 0 /\ UNCHANGED taken

\* The process dies, and the next one connects: SELECT COALESCE(MAX(id), 0).
ConsumerRestart ==
  /\ \/ Committed = {} /\ offset' = 0
     \/ offset' \in Committed /\ \A r \in Committed : r <= offset'
  /\ UNCHANGED taken

TableNext ==
  \/ \E k \in Kind, t \in Moment, z \in Zone : IngesterInsert(k, t, z)
  \/ IngesterCommit
  \/ IngesterAbort

FilterWork ==
  \/ (Fetch \/ MoveCursor) /\ UNCHANGED rows
  \/ \E i \in todo : StoreRow(i)
  \/ StoreCommit

FilterFault ==
  \/ (\E i \in todo : StoreRowFails(i)) /\ UNCHANGED rows
  \/ StoreFails /\ UNCHANGED rows
  \/ FilterRestart

Next ==
  \/ TableNext /\ UNCHANGED <<filterVars, consumerVars>>
  \/ (\E i \in LogLine, k \in Kind \cup {Normal}, h \in Half : Arrive(i, k, h))
       /\ UNCHANGED <<rows, consumerVars>>
  \/ (FilterWork \/ FilterFault) /\ UNCHANGED consumerVars
  \/ (Poll \/ ConsumerRestart) /\ UNCHANGED <<rows, filterVars>>

Spec == Init /\ [][Next]_vars

-----------------------------------------------------------------------------
\* The cursor passes over no anomaly that the filter could still read: one that
\* no query from the cursor returns is in anomaly_logs, unless its line came to
\* Loki too late or before this life of the filter, LogBERT or the database
\* failed on it, a line of another node or service with its message and its
\* microsecond took its place, or the batch ended within its microsecond.
NothingPassedOver ==
  \A i \in DOMAIN loki : Anomalous(i) /\ i \notin Window(cursor) => Stored(i) \/ i \in excused

\* A dedup_key is analysed at most once, whoever writes it how often, and over
\* restarts of all parts: first write wins.  It is a promise about keys: an
\* anomaly that the filter writes without a zone and a client of the ingester
\* with one has two of them, and is analysed under each.
AnalysedOnce == \A key \in Key : taken[key] <= 1
==============================================================================
