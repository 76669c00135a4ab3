------------------------------- MODULE MCLive -------------------------------
(* The pipeline with a last disturbance: with it `calm` may become TRUE, and   *)
(* from then on the process stays up.  A disturbance may look like a step of   *)
(* the work, so that a formula over steps could not tell when they have ended. *)
(* Without clients Diagnose is the only step of the Gate that the Knowledge    *)
(* Agent notices.                                                              *)
EXTENDS Repair

VARIABLE calm    \* the process does not die and no exception climbs any more

CalmInit == Init /\ calm \in BOOLEAN

CalmNext ==
  \/ (\E p \in Plan : Diagnose(p)) /\ UNCHANGED <<ka, targetVars, calm>>
  \/ (Work \/ ExpireLock) /\ UNCHANGED <<gateVars, calm>>
  \/ (Crash \/ Unwind) /\ ~calm /\ calm' \in BOOLEAN /\ UNCHANGED gateVars

calmVars == <<vars, calm>>

\* The loop of start() takes its next step as long as its process lives, and
\* the clock of the lock does not stop.  Nobody has to press a button.
FairSpec ==
  /\ CalmInit /\ [][CalmNext]_calmVars
  /\ WF_calmVars(Work /\ UNCHANGED <<gateVars, calm>>)
  /\ WF_calmVars(ExpireLock /\ UNCHANGED <<gateVars, calm>>)

\* When the process stays up, every execution that was queued ends or pauses: no
\* row, lock or older execution left by a crash keeps the loop of start() from
\* finishing it.
Settles == <>calm => \A e \in Exec : status[e] = "queued" ~> status[e] \notin Polled
=============================================================================
