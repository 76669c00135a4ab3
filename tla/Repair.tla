------------------------------- MODULE Repair -------------------------------
(***************************************************************************)
(* The repair pipeline: the Gate and the Knowledge Agent over their shared *)
(* database and one target node.                                           *)
(***************************************************************************)
EXTENDS Gate, Executor

vars == <<dbVars, targetVars, historyVars, gateVars, ka>>

Init == DbInit /\ GateInit /\ ExecutorInit

Next ==
  \/ GateNext /\ UNCHANGED <<ka, targetVars>>
  \/ ExecutorNext /\ UNCHANGED gateVars

Spec == Init /\ [][Next]_vars

TypeOK == DbTypeOK /\ GateTypeOK /\ ExecutorTypeOK

-----------------------------------------------------------------------------
\* The Knowledge Agent is past its checks and may send commands.
Cleared ==
  ka.pc \in {"node", "recover", "loop", "acquire", "attempt", "call", "release",
             "after", "route", "final_plan"}

\* Consent: while the Knowledge Agent can send commands, the content it sends
\* them from is one that a human approved or one that may run by itself,
\* however the stored plan is edited, approved or rejected meanwhile.
Consent == Cleared => ka.mem \in granted[plan] \cup AutoAllowed

\* Steps run in order, over all crashes, recoveries and resumes: a step has a
\* row only when every step before it is verified.
InOrder ==
  \A e \in Exec, s \in Step :
    rows[e][s].st # "none" => \A t \in 1 .. s - 1 : rows[e][t].st = "step_verified"

\* A step that cannot be repeated is not sent again while it is unknown what
\* became of it: only when it never ran or its failure is on record.
NoBlindRepeat ==
  [][\A s \in Step \ Idempotent :
       (At("attempt") /\ ka.job = "step" /\ ka.sid = s /\ ka'.pc = "call")
         => rows[ka.cur][s].st \in {"none"} \cup StepFailed]_vars

\* A paused execution is on the review list: it has an open escalation.
PausedIsListed == \A e \in Exec : status[e] = "paused_for_review" => openEsc[e]

\* The rows go through the life the Gate and the Knowledge Agent promise.
Life == INSTANCE Lifecycle WITH status <- status
LifecycleSpec == Life!Spec
==============================================================================
