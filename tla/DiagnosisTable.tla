---------------------------- MODULE DiagnosisTable ----------------------------
(***************************************************************************)
(* What Layer 2 promises of diagnosis_reports to those who read it: it     *)
(* only adds rows, one at a time and complete.  A row is queued only with  *)
(* a plan that no suspicious text has touched, and a plan that it touched  *)
(* is in the table together with the finding that makes a human look.      *)
(***************************************************************************)
EXTENDS Sequences

VARIABLE table

Row == [plan : BOOLEAN, tainted : BOOLEAN, queued : BOOLEAN, flagged : BOOLEAN]

Sound(row) ==
  /\ row.queued => row.plan /\ ~row.tainted
  /\ row.plan /\ row.tainted => row.flagged

Init == table = <<>>

Next == \E row \in Row : Sound(row) /\ table' = Append(table, row)

Spec == Init /\ [][Next]_table
==============================================================================
