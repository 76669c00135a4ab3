------------------------------ MODULE MCDrains ------------------------------
(* Detection with a last failure: with it `calm` may become TRUE, and from     *)
(* then on there is none.  A failure may look like a step of the work, so that *)
(* a formula over steps could not tell when they have ended.                   *)
EXTENDS Detection

VARIABLE calm

OneMessage == [k \in Kind |-> "message"]

\* Of no microsecond does a query return as many lines as a batch has; with as
\* many, the cursor stays.
NoBurst ==
  \A t \in Moment :
    Cardinality({i \in DOMAIN loki : at(i) = t /\ ToNano(t) <= loki[i].ns}) < BatchSize

\* The lines are numbers, given out as they arrive.
InTurn(i) == \A j \in LogLine : j \in DOMAIN loki <=> j < i

CalmInit == Init /\ calm \in BOOLEAN

CalmNext ==
  \/ TableNext /\ UNCHANGED <<filterVars, consumerVars, calm>>
  \/ (\E i \in LogLine, k \in Kind \cup {Normal}, h \in Half : InTurn(i) /\ Arrive(i, k, h))
       /\ NoBurst' /\ UNCHANGED <<rows, consumerVars, calm>>
  \/ FilterWork /\ UNCHANGED <<consumerVars, calm>>
  \/ Poll /\ UNCHANGED <<rows, filterVars, calm>>
  \/ ~calm /\ calm' \in BOOLEAN /\ FilterFault /\ UNCHANGED consumerVars
  \/ ~calm /\ calm' \in BOOLEAN /\ ConsumerRestart /\ UNCHANGED <<rows, filterVars>>

calmVars == <<vars, calm>>

\* Both loops go on, and the server ends every transaction (command_timeout).
FairSpec ==
  /\ CalmInit /\ [][CalmNext]_calmVars
  /\ WF_calmVars(FilterWork /\ UNCHANGED <<consumerVars, calm>>)
  /\ WF_calmVars(Poll /\ UNCHANGED <<rows, filterVars, calm>>)
  /\ WF_calmVars(IngesterCommit /\ UNCHANGED <<filterVars, consumerVars, calm>>)

\* When the failures end, everything ahead of the cursor is stored and all that
\* is stored is handed over: no batch of normal lines, no row that was there
\* before and no transaction left open stops the two loops.
Drains ==
  <>calm =>
    <>[]((\A i \in Window(cursor) : Anomalous(i) => Stored(i) \/ i \in excused) /\ New = {})
=============================================================================
