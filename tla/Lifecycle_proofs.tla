---------------------------- MODULE Lifecycle_proofs ----------------------------
(***************************************************************************)
(* The life of an execution, for every number of plans, executions, steps, *)
(* keys and requests: it is queued once under its key, and its status then *)
(* follows the edges of Lifecycle, with an escalation open while it is      *)
(* paused.  The Gate decides about a paused execution from what it read    *)
(* before its transaction, so the second half holds as long as no two      *)
(* decisions about one execution overlap; nothing else is asked of the     *)
(* requests, which may be as many as they like.                            *)
(***************************************************************************)
EXTENDS Consent_proofs

-----------------------------------------------------------------------------
(* Idempotency keys: a live record means that its key has queued its one   *)
(* execution.  The key of an automatic execution is inserted without a     *)
(* look at the records when the diagnosis of its plan is stored, and is    *)
(* never used before.                                                      *)

KeyInv ==
  /\ KeyQueuesOnce
  /\ \A k \in AnyKey : record[k] = 0 => born[k] = 0
  /\ \A p \in Plan : planStatus[p] = "none" => record[p] = 0

\* Nothing takes a plan back to before its diagnosis.
LEMMA AgentKeys ==
  ASSUME TypeInv, KeyInv, ExecutorNext
  PROVE  KeyInv'
<1> USE DEF dbVars, historyVars, gateTables, targetVars
<1>1. UNCHANGED <<record, born>>
  BY DEF ExecutorNext, Work, Claim, FetchPlan, CheckApproval, CheckHash, LoadNode, AcquireLock,
         StartAttempt, AgentReply, ReleaseLock, AfterSnapshot, Recover, AfterRecover, NextStep,
         AfterStep, AfterVerify, RouteFailure, AfterRollback, EnterFinal, FinalPlan, AfterFinal,
         DoneStatus, DonePlan, PauseEscalate, PauseStatus, PausePlan, FinishStatus, FinishPlan,
         Crash, Unwind, ExpireLock
<1>2. planStatus \in [Plan -> PlanStatus]
  BY DEF TypeInv, TypeOK, DbTypeOK
<1>3. \/ \E p : \E st : st # "none" /\ planStatus' = [planStatus EXCEPT ![p] = st]
      \/ planStatus' = planStatus
  <2>1. CASE Claim
    <3>1. PICK e \in Exec : \/ planStatus' = [planStatus EXCEPT ![planOf[e]] = "executing"]
                            \/ planStatus' = planStatus
      BY <2>1 DEF Claim
    <3> QED
      BY <3>1
  <2>2. CASE FinalPlan \/ DonePlan \/ PausePlan \/ FinishPlan
    <3>1. CASE SetPlanStatus("final_verifying") \/ SetPlanStatus("final_verified")
                 \/ SetPlanStatus("paused_for_review")
      BY <3>1 DEF SetPlanStatus
    <3>2. CASE FinishPlan
      <4>1. ka.goal # "none" /\ SetPlanStatus(ka.goal)
        BY <3>2 DEF FinishPlan, TypeInv, MemoryOK, At
      <4> QED
        BY <4>1 DEF SetPlanStatus
    <3> QED
      BY <2>2, <3>1, <3>2 DEF FinalPlan, DonePlan, PausePlan
  <2> QED
    BY <2>1, <2>2
       DEF ExecutorNext, Work, FetchPlan, CheckApproval, CheckHash, LoadNode, AcquireLock,
           StartAttempt, AgentReply, ReleaseLock, AfterSnapshot, Recover, AfterRecover,
           NextStep, AfterStep, AfterVerify, RouteFailure, AfterRollback, EnterFinal,
           AfterFinal, DoneStatus, PauseEscalate, PauseStatus, FinishStatus, Crash, Unwind,
           ExpireLock
<1>4. \A p \in Plan : planStatus'[p] = "none" => planStatus[p] = "none"
  BY <1>2, <1>3
<1> QED
  BY <1>1, <1>4 DEF KeyInv, KeyQueuesOnce

LEMMA GateKeys ==
  ASSUME TypeInv, KeyInv, GateNext
  PROVE  KeyInv'
<1> USE DEF dbVars, historyVars, gateVars
<1>0. /\ planStatus \in [Plan -> PlanStatus] /\ record \in [AnyKey -> Exec \cup {0}]
      /\ born \in [AnyKey -> Nat] /\ 0 \notin Exec /\ Plan \subseteq AnyKey
  BY DEF TypeInv, TypeOK, DbTypeOK, AnyKey, Exec
\* A fresh key of a diagnosed plan, or the key of the plan itself.
<1>a. ASSUME NEW e \in Exec, NEW p \in Plan, NEW k \in AnyKey, record[k] = 0,
             InsertQueued(e, p, k), k \in Plan => k = p
      PROVE  KeyInv'
  <2>1. \A j \in AnyKey : /\ record'[j] = IF j = k THEN e ELSE record[j]
                          /\ born'[j] = IF j = k THEN born[j] + 1 ELSE born[j]
    BY <1>0, <1>a DEF InsertQueued
  <2>2. \A q \in Plan : planStatus'[q] = IF q = p THEN "queued" ELSE planStatus[q]
    BY <1>0, <1>a DEF InsertQueued
  <2>3. born[k] = 0
    BY <1>a DEF KeyInv
  <2>4. KeyQueuesOnce'
    BY <2>1, <2>3 DEF KeyInv, KeyQueuesOnce
  <2> QED
    BY <1>0, <1>a, <2>1, <2>2, <2>4 DEF KeyInv
<1>b. ASSUME NEW p, NEW st, st # "none", planStatus' = [planStatus EXCEPT ![p] = st],
             UNCHANGED <<record, born>>
      PROVE  KeyInv'
  <2>1. \A q \in Plan : planStatus'[q] = "none" => planStatus[q] = "none"
    BY <1>0, <1>b
  <2> QED
    BY <1>b, <2>1 DEF KeyInv, KeyQueuesOnce
<1>1. CASE UNCHANGED <<planStatus, record, born>>
  BY <1>1 DEF KeyInv, KeyQueuesOnce
<1>2. ASSUME NEW c \in Client, DecisionStatus(c) \/ ResumeCommit(c) \/ AbortCommit(c)
      PROVE  KeyInv'
  <2>1. UNCHANGED <<record, born>>
    BY <1>2 DEF DecisionStatus, ResumeCommit, AbortCommit, Resolve
  <2>2. \E p : \E st : st # "none" /\ planStatus' = [planStatus EXCEPT ![p] = st]
    BY <1>2, RequestShape
       DEF DecisionStatus, ResumeCommit, AbortCommit, Resolve, TypeInv, TypeOK
  <2> QED
    BY <1>b, <2>1, <2>2
<1>3. ASSUME NEW c \in Client, ExecuteCommit(c) PROVE KeyInv'
  <2>1. /\ req[c].exec \in Exec /\ req[c].plan \in Plan
        /\ req[c].key \in AnyKey /\ req[c].key \notin Plan
    BY <1>3, RequestShape, KeyAssumption DEF ExecuteCommit, AnyKey, TypeInv, TypeOK
  <2> QED
    BY <1>3, <1>a, <2>1 DEF ExecuteCommit
<1>4. ASSUME NEW p \in Plan, Diagnose(p) PROVE KeyInv'
  <2>1. CASE content[p] \in AutoAllowed
    <3>1. record[p] = 0 /\ next \in Exec /\ InsertQueued(next, p, p) /\ p \in AnyKey
      BY <1>0, <1>4, <2>1 DEF Diagnose, KeyInv
    <3> QED
      BY <1>a, <3>1
  <2>2. CASE content[p] \notin AutoAllowed
    BY <1>4, <1>b, <2>2 DEF Diagnose
  <2> QED
    BY <2>1, <2>2
<1>5. ASSUME NEW k \in AnyKey, ExpireRecord(k) PROVE KeyInv'
  <2>1. /\ \A j \in AnyKey : /\ record'[j] = IF j = k THEN 0 ELSE record[j]
                             /\ born'[j] = IF j = k THEN 0 ELSE born[j]
        /\ planStatus' = planStatus
    BY <1>0, <1>5 DEF ExpireRecord
  <2> QED
    BY <1>0, <2>1 DEF KeyInv, KeyQueuesOnce
<1> QED
  BY <1>1, <1>2, <1>3, <1>4, <1>5
     DEF GateNext, ApproveRead, ApproveInsert, RejectInsert, ResumeRead, AbortRead, ExecuteRead,
         DropRequest, ExpireApproval, EditPlan

\* At most one execution is queued under one live Idempotency-Key, however many
\* requests with it overlap (queue_execution and _queue_auto_execution).
THEOREM OncePerKey == Spec => []KeyQueuesOnce
<1>1. Init => KeyInv
  BY DEF Init, DbInit, KeyInv, KeyQueuesOnce, AnyKey
<1>2. TypeInv /\ KeyInv /\ [Next]_vars => KeyInv'
  <2> SUFFICES ASSUME TypeInv, KeyInv, [Next]_vars PROVE KeyInv'
    OBVIOUS
  <2>1. CASE GateNext
    BY <2>1, GateKeys
  <2>2. CASE ExecutorNext
    BY <2>2, AgentKeys
  <2>3. CASE UNCHANGED vars
    BY <2>3 DEF vars, dbVars, historyVars, KeyInv, KeyQueuesOnce
  <2> QED
    BY <2>1, <2>2, <2>3 DEF Next
<1>3. KeyInv => KeyQueuesOnce
  BY DEF KeyInv
<1> QED
  BY <1>1, <1>2, <1>3, TypeInvariant, PTL DEF Spec

-----------------------------------------------------------------------------
(* Where the status of the claimed execution is at each pc *)

Decides(c) == req[c].op \in {"resume", "abort"}

\* No two requests in progress decide about the same execution.
DecisionsApart ==
  \A c, d \in Client : c # d /\ Decides(c) /\ Decides(d) => req[c].exec # req[d].exec

\* Statuses of an execution that the Knowledge Agent is working on.
Running == {"executing", "final_verifying"}

\* Its pcs from the claim to the write that ends or pauses the execution.
Busy == Pc \ {"idle", "done_plan", "pause_plan", "finish_status", "finish_plan"}

AgentLife ==
  /\ ka.pc \in Busy => status[ka.cur] \in Running
  /\ ka.pc \in {"final_plan", "done_status"} \/ ka.job = "final"
       => status[ka.cur] = "final_verifying"
  /\ At("done_plan") => status[ka.cur] = "final_verified"
  /\ At("pause_status") => openEsc[ka.cur]
  /\ At("finish_status") =>
       \/ ka.goal \in {"blocked", "failed_retryable"} /\ status[ka.cur] \in Running
       \/ ka.goal = "kb_done" /\ status[ka.cur] = "final_verified"

\* What a decision was read about is still waiting for it.
Waiting == \A c \in Client : Decides(c) => status[req[c].exec] = "paused_for_review"

LifeInv == AgentLife /\ Waiting /\ PausedIsListed

LEMMA InitLife == Init => LifeInv
<1> SUFFICES ASSUME Init PROVE LifeInv
  OBVIOUS
<1>1. ka.pc = "idle" /\ ka.job = "none"
  BY IdleType DEF Init, ExecutorInit
<1> QED
  BY <1>1 DEF LifeInv, AgentLife, Waiting, Decides, PausedIsListed, Busy, At,
              Init, DbInit, GateInit, NoRequest

-----------------------------------------------------------------------------
(* The Knowledge Agent *)

\* It goes on with the execution, short of the final verification and a pause.
Onwards ==
  /\ ka.pc \in Busy
  /\ ka'.pc \in Busy \ {"final_plan", "done_status", "pause_status"}
  /\ ka'.cur = ka.cur
  /\ ka'.job = "final" => ka.job = "final"

\* It gives the execution up.
GivesUp ==
  /\ ka.pc \in Busy
  /\ \E st \in {"blocked", "failed_retryable"} : FinishWith(st)

Turning == EnterFinal \/ FinalPlan \/ AfterFinal \/ DoneStatus \/ DonePlan
             \/ PauseEscalate \/ PauseStatus \/ FinishStatus

LEMMA AgentSteps ==
  ASSUME TypeInv, ExecutorNext
  PROVE  \/ Claim
         \/ Turning
         \/ /\ UNCHANGED <<status, openEsc>>
            /\ Onwards \/ GivesUp \/ ka' = Idle \/ ka' = ka
<1> USE DEF dbVars
<1>0. ExecutorTypeOK /\ ka \in Memory /\ ka.sid \in 1 .. NSteps + 1
  BY DEF TypeInv, TypeOK, ExecutorTypeOK, Memory
<1>p. 1 \in 1 .. NSteps + 1 /\ \A s \in Step : s \in 1 .. NSteps + 1 /\ s + 1 \in 1 .. NSteps + 1
  BY PlanAssumption DEF Step
<1>s. ka.pc = "after" /\ ka.job \in {"step", "verify", "recover", "rollback"} => ka.sid \in Step
  BY DEF TypeInv, MemoryOK
<1>b. {"fetch", "approval", "hash", "node", "recover", "loop", "acquire", "attempt", "call",
       "release", "after", "route", "pause_escalate"}
        \subseteq Busy \ {"final_plan", "done_status", "pause_status"}
  BY DEF Busy, Pc
<1>q. Busy \subseteq Pc
  BY DEF Busy
<1>j. {"snapshot", "step", "verify", "recover", "rollback"} \subseteq Job \ {"none"}
  BY DEF Job
\* Pausing, and every other way to go on, is a way onwards.
<1>a. ASSUME ka.pc \in Busy,
             \/ Pause
             \/ \E pc \in {"hash", "node", "recover", "loop", "attempt", "call", "after", "route"} :
                  Goto(pc) \/ \E s \in 1 .. NSteps + 1 : Settle(pc, s)
             \/ \E job \in {"snapshot", "step", "verify", "recover", "rollback"},
                   s \in 1 .. NSteps + 1 : StartJob(job, s)
      PROVE  Onwards
  <2>1. CASE Pause
    BY <1>0, <1>a, <1>b, <2>1, PauseMemory DEF Onwards
  <2>2. ASSUME NEW pc \in {"hash", "node", "recover", "loop", "attempt", "call", "after", "route"},
               Goto(pc) \/ \E s \in 1 .. NSteps + 1 : Settle(pc, s)
        PROVE  Onwards
    <3>1. pc \in Pc /\ pc \in Busy \ {"final_plan", "done_status", "pause_status"}
      BY <1>b, <1>q, <2>2
    <3> QED
      BY <1>0, <1>a, <2>2, <3>1, GotoMemory, SettleMemory DEF Onwards
  <2>3. ASSUME NEW job \in {"snapshot", "step", "verify", "recover", "rollback"},
               NEW s \in 1 .. NSteps + 1, StartJob(job, s)
        PROVE  Onwards
    BY <1>0, <1>a, <1>b, <1>j, <2>3, StartMemory DEF Onwards
  <2> QED
    BY <1>a, <2>1, <2>2, <2>3
<1>1. CASE FetchPlan
  <2>1. CASE ka' = [ka EXCEPT !.mem = content[plan], !.pc = "approval"]
    <3>1. ka'.pc = "approval" /\ ka'.cur = ka.cur /\ ka'.job = ka.job
      BY <1>0, <2>1 DEF Memory
    <3> QED
      BY <1>1, <1>b, <3>1 DEF FetchPlan, At, Onwards
  <2> QED
    BY <1>1, <1>b, <2>1 DEF FetchPlan, At, GivesUp
<1>2. CASE CheckApproval \/ CheckHash \/ LoadNode
  BY <1>2, <1>a, <1>b, <1>p DEF CheckApproval, CheckHash, LoadNode, At, GivesUp
<1>3. CASE AcquireLock \/ ReleaseLock \/ StartAttempt \/ AgentReply
  <2>1. ka.pc \in Busy /\ UNCHANGED <<status, openEsc>>
    BY <1>3, <1>b DEF AcquireLock, ReleaseLock, StartAttempt, AgentReply, At
  <2>2. \/ \E pc \in {"attempt", "call", "after"} : Goto(pc)
        \/ ka'.pc \in {"attempt", "release", "after"} /\ ka'.cur = ka.cur /\ ka'.job = ka.job
    BY <1>0, <1>3 DEF AcquireLock, ReleaseLock, StartAttempt, AgentReply, Memory
  <2> QED
    BY <1>a, <1>b, <2>1, <2>2 DEF Onwards
<1>4. CASE AfterSnapshot \/ AfterRecover \/ AfterVerify
  BY <1>0, <1>4, <1>a, <1>b, <1>p, <1>s DEF AfterSnapshot, AfterRecover, AfterVerify, At, GivesUp
<1>5. CASE Recover
  <2>1. CASE ka' = [ka EXCEPT !.job = "recover", !.att = 1, !.out = "none",
                              !.old = rows[ka.cur][ka.sid].retry, !.pc = "attempt"]
    <3>1. ka'.pc = "attempt" /\ ka'.cur = ka.cur /\ ka'.job = "recover"
      BY <1>0, <2>1 DEF Memory
    <3> QED
      BY <1>5, <1>b, <3>1 DEF Recover, At, Onwards
  <2> QED
    BY <1>0, <1>5, <1>a, <1>b, <1>p, <2>1 DEF Recover, At
<1>6. CASE NextStep \/ AfterStep \/ RouteFailure \/ AfterRollback
  BY <1>0, <1>6, <1>a, <1>b DEF NextStep, AfterStep, RouteFailure, AfterRollback, At, GivesUp
<1>7. CASE PausePlan \/ FinishPlan \/ Crash \/ Unwind \/ ExpireLock
  BY <1>7 DEF PausePlan, FinishPlan, Crash, Unwind, ExpireLock
<1> QED
  BY <1>1, <1>2, <1>3, <1>4, <1>5, <1>6, <1>7 DEF ExecutorNext, Work, Turning

\* What it does to the status of an execution is an edge of its life.
LEMMA AgentLives ==
  ASSUME TypeInv, LifeInv, ExecutorNext, UNCHANGED gateVars
  PROVE  LifeInv' /\ [Life!Next]_status
<1>0. /\ status \in [Exec -> ExecStatus] /\ openEsc \in [Exec -> BOOLEAN]
      /\ ExecutorTypeOK /\ ka \in Memory /\ ka.cur \in Exec \cup {0} /\ 0 \notin Exec
      /\ AgentLife /\ Waiting /\ PausedIsListed
  BY DEF TypeInv, TypeOK, DbTypeOK, ExecutorTypeOK, Memory, LifeInv, Exec
<1>r. req' = req /\ \A c \in Client : Decides(c) => req[c].exec \in Exec
  BY RequestShape DEF gateVars, Decides, TypeInv, TypeOK
<1>c. ~At("idle") => ka.cur \in Exec
  BY MidExecution
<1>g. /\ "idle" \notin Busy /\ "fetch" \in Busy /\ "finish_status" \notin Busy
      /\ {"loop", "after", "final_plan", "done_status", "pause_escalate", "pause_status"}
           \subseteq Busy
      /\ {"done_plan", "pause_plan", "finish_plan"} \cap Busy = {}
  BY DEF Busy, Pc
\* A write of status or openEsc to an execution that is not paused.
<1>w. ASSUME NEW e \in Exec, NEW st \in ExecStatus \ {"paused_for_review"},
             status[e] # "paused_for_review",
             status' = [status EXCEPT ![e] = st], openEsc' = openEsc
      PROVE  /\ Waiting' /\ PausedIsListed' /\ status'[e] = st
             /\ <<status[e], st>> \in Life!Edge => Life!Next
  <2>1. \A f \in Exec : status'[f] = IF f = e THEN st ELSE status[f]
    BY <1>0, <1>w
  <2>2. Waiting' /\ PausedIsListed'
    BY <1>0, <1>r, <1>w, <2>1 DEF Waiting, PausedIsListed, Decides
  <2>3. ASSUME <<status[e], st>> \in Life!Edge PROVE Life!Next
    <3>1. Life!Move(e, <<status[e], st>>[2])
      BY <1>w, <2>3 DEF Life!Move
    <3> QED
      BY <2>3, <3>1 DEF Life!Next
  <2> QED
    BY <2>1, <2>2, <2>3
<1>u. ASSUME UNCHANGED <<status, openEsc>>
      PROVE  Waiting' /\ PausedIsListed' /\ [Life!Next]_status
  BY <1>0, <1>r, <1>u DEF Waiting, PausedIsListed, Decides
<1>e. /\ {"queued"} \X {"executing"} \subseteq Life!Edge
      /\ <<"executing", "final_verifying">> \in Life!Edge
      /\ <<"final_verifying", "final_verified">> \in Life!Edge
      /\ <<"final_verified", "kb_done">> \in Life!Edge
      /\ \A a \in Running, b \in {"paused_for_review", "blocked", "failed_retryable"} :
           <<a, b>> \in Life!Edge
  BY DEF Life!Edge, Running
<1>f. /\ Running \subseteq ExecStatus \ {"paused_for_review"}
      /\ {"executing", "final_verifying", "final_verified", "kb_done", "blocked",
          "failed_retryable"} \subseteq ExecStatus \ {"paused_for_review"}
  BY DEF Running, ExecStatus, Polled, Terminal
<1>1. CASE Claim
  <2>1. PICK e \in Exec :
          /\ status[e] \in Polled
          /\ \/ status[e] = "queued" /\ status' = [status EXCEPT ![e] = "executing"]
             \/ status[e] # "queued" /\ UNCHANGED status
          /\ ka' = [Idle EXCEPT !.pc = "fetch", !.cur = e, !.requeued = (status[e] = "queued")]
    BY <1>1 DEF Claim
  <2>2. ka'.pc = "fetch" /\ ka'.cur = e /\ ka'.job = "none" /\ openEsc' = openEsc
    BY <1>1, <2>1, IdleType DEF Claim, Memory
  <2>3. status'[e] \in Running /\ Waiting' /\ PausedIsListed' /\ [Life!Next]_status
    BY <1>0, <1>e, <1>f, <1>u, <1>w, <2>1, <2>2 DEF Polled, Running
  <2> QED
    BY <2>2, <2>3 DEF LifeInv, AgentLife, At
<1>2. CASE EnterFinal
  <2>1. /\ status' = [status EXCEPT ![ka.cur] = "final_verifying"] /\ openEsc' = openEsc
        /\ status[ka.cur] \in Running /\ ka.cur \in Exec
    BY <1>0, <1>2, <1>c, <1>g DEF EnterFinal, SetStatus, At, AgentLife
  <2>2. ka'.pc = "final_plan" /\ ka'.cur = ka.cur /\ ka'.job = "none"
    BY <1>0, <1>2, IdleType DEF EnterFinal, Memory
  <2>3. status'[ka.cur] = "final_verifying" /\ Waiting' /\ PausedIsListed'
    BY <1>f, <1>w, <2>1
  <2>4. [Life!Next]_status
    <3>1. CASE status[ka.cur] = "executing"
      BY <1>e, <1>f, <1>w, <2>1, <3>1
    <3>2. CASE status[ka.cur] = "final_verifying"
      BY <1>0, <2>1, <3>2
    <3> QED
      BY <2>1, <3>1, <3>2 DEF Running
  <2> QED
    BY <2>2, <2>3, <2>4 DEF LifeInv, AgentLife, At, Running
<1>3. CASE FinalPlan
  <2>1. "final" \in Job \ {"none"} /\ ka.sid \in 1 .. NSteps + 1
    BY <1>0 DEF Job, Memory
  <2>2. ka'.pc \in {"acquire", "attempt"} /\ ka'.cur = ka.cur /\ ka'.job = "final"
    BY <1>0, <1>3, <2>1, StartMemory DEF FinalPlan
  <2>3. UNCHANGED <<status, openEsc>> /\ status[ka.cur] = "final_verifying"
    BY <1>0, <1>3 DEF FinalPlan, At, AgentLife
  <2> QED
    BY <1>u, <2>2, <2>3 DEF LifeInv, AgentLife, At, Running
<1>4. CASE AfterFinal
  <2>1. UNCHANGED <<status, openEsc>> /\ status[ka.cur] = "final_verifying"
    BY <1>0, <1>4 DEF AfterFinal, dbVars, AgentLife
  <2>2. ka'.pc \in {"done_status", "pause_escalate"} /\ ka'.cur = ka.cur /\ ka'.job = "none"
    BY <1>0, <1>4, IdleType, PauseMemory DEF AfterFinal, Memory
  <2> QED
    BY <1>u, <2>1, <2>2 DEF LifeInv, AgentLife, At, Running
<1>5. CASE DoneStatus
  <2>1. /\ status' = [status EXCEPT ![ka.cur] = "final_verified"] /\ openEsc' = openEsc
        /\ status[ka.cur] = "final_verifying" /\ ka.cur \in Exec
    BY <1>0, <1>5, <1>c, <1>g DEF DoneStatus, SetStatus, At, AgentLife
  <2>2. ka'.pc = "done_plan" /\ ka'.cur = ka.cur /\ ka'.job = "none"
    <3>1. ka.job = "none"
      BY <1>5 DEF DoneStatus, At, TypeInv, MemoryOK
    <3> QED
      BY <1>0, <1>5, <3>1, GotoMemory DEF DoneStatus, Pc
  <2>3. /\ status'[ka.cur] = "final_verified" /\ Waiting' /\ PausedIsListed' /\ Life!Next
    BY <1>e, <1>f, <1>w, <2>1
  <2> QED
    BY <1>g, <2>2, <2>3 DEF LifeInv, AgentLife, At
<1>6. CASE DonePlan
  <2>1. UNCHANGED <<status, openEsc>> /\ status[ka.cur] = "final_verified"
    BY <1>0, <1>6 DEF DonePlan, At, AgentLife
  <2>2. ka'.pc = "finish_status" /\ ka'.cur = ka.cur /\ ka'.job = "none" /\ ka'.goal = "kb_done"
    BY <1>0, <1>6, FinishMemory DEF DonePlan, Terminal
  <2> QED
    BY <1>g, <1>u, <2>1, <2>2 DEF LifeInv, AgentLife, At
<1>7. CASE PauseEscalate
  <2>1. /\ openEsc' = [openEsc EXCEPT ![ka.cur] = TRUE] /\ status' = status
        /\ status[ka.cur] \in Running /\ ka.cur \in Exec
    BY <1>0, <1>7, <1>c, <1>g DEF PauseEscalate, At, AgentLife
  <2>2. ka'.pc = "pause_status" /\ ka'.cur = ka.cur /\ ka'.job = "none"
    <3>1. ka.job = "none"
      BY <1>7 DEF PauseEscalate, At, TypeInv, MemoryOK
    <3> QED
      BY <1>0, <1>7, <3>1, GotoMemory DEF PauseEscalate, Pc
  <2>3. openEsc'[ka.cur] /\ \A e \in Exec : openEsc[e] => openEsc'[e]
    BY <1>0, <2>1
  <2>4. Waiting' /\ PausedIsListed'
    BY <1>0, <1>r, <2>1, <2>3 DEF Waiting, PausedIsListed, Decides
  <2> QED
    BY <2>1, <2>2, <2>3, <2>4 DEF LifeInv, AgentLife, At
<1>8. CASE PauseStatus
  <2>1. /\ status' = [status EXCEPT ![ka.cur] = "paused_for_review"] /\ openEsc' = openEsc
        /\ status[ka.cur] \in Running /\ openEsc[ka.cur] /\ ka.cur \in Exec
    BY <1>0, <1>8, <1>c, <1>g DEF PauseStatus, SetStatus, At, AgentLife
  <2>2. ka'.pc = "pause_plan" /\ ka'.cur = ka.cur /\ ka'.job = "none"
    <3>1. ka.job = "none"
      BY <1>8 DEF PauseStatus, At, TypeInv, MemoryOK
    <3> QED
      BY <1>0, <1>8, <3>1, GotoMemory DEF PauseStatus, Pc
  <2>3. \A f \in Exec : status'[f] = IF f = ka.cur THEN "paused_for_review" ELSE status[f]
    BY <1>0, <2>1
  <2>4. Waiting' /\ PausedIsListed'
    BY <1>0, <1>r, <2>1, <2>3 DEF Waiting, PausedIsListed, Decides
  <2>5. Life!Next
    <3>1. PICK edge \in Life!Edge : edge = <<status[ka.cur], "paused_for_review">>
      BY <1>e, <2>1
    <3>2. Life!Move(ka.cur, edge[2])
      BY <2>1, <3>1 DEF Life!Move
    <3> QED
      BY <2>1, <3>2 DEF Life!Next
  <2> QED
    BY <1>g, <2>2, <2>4, <2>5 DEF LifeInv, AgentLife, At
<1>9. CASE FinishStatus
  <2>1. /\ status' = [status EXCEPT ![ka.cur] = ka.goal] /\ openEsc' = openEsc
        /\ \/ ka.goal \in {"blocked", "failed_retryable"} /\ status[ka.cur] \in Running
           \/ ka.goal = "kb_done" /\ status[ka.cur] = "final_verified"
        /\ ka.cur \in Exec
    BY <1>0, <1>9, <1>c DEF FinishStatus, SetStatus, At, AgentLife
  <2>2. ka'.pc = "finish_plan" /\ ka'.cur = ka.cur /\ ka'.job = "none"
    <3>1. ka.job = "none"
      BY <1>9 DEF FinishStatus, At, TypeInv, MemoryOK
    <3> QED
      BY <1>0, <1>9, <3>1, GotoMemory DEF FinishStatus, Pc
  <2>3. Waiting' /\ PausedIsListed' /\ Life!Next
    BY <1>e, <1>f, <1>w, <2>1
  <2> QED
    BY <1>g, <2>2, <2>3 DEF LifeInv, AgentLife, At
<1>10. CASE UNCHANGED <<status, openEsc>> /\ Onwards
  BY <1>0, <1>u, <1>10 DEF LifeInv, AgentLife, Onwards, At, Busy
<1>11. CASE UNCHANGED <<status, openEsc>> /\ GivesUp
  <2>1. PICK st \in {"blocked", "failed_retryable"} : FinishWith(st)
    BY <1>11 DEF GivesUp
  <2>2. ka'.pc = "finish_status" /\ ka'.cur = ka.cur /\ ka'.job = "none" /\ ka'.goal = st
    BY <1>0, <2>1, FinishMemory DEF Terminal
  <2>3. status'[ka'.cur] \in Running
    BY <1>0, <1>11, <2>2 DEF GivesUp, AgentLife
  <2> QED
    BY <1>g, <1>u, <1>11, <2>2, <2>3 DEF LifeInv, AgentLife, At
<1>12. CASE UNCHANGED <<status, openEsc>> /\ (ka' = Idle \/ ka' = ka)
  <2>1. AgentLife'
    BY <1>0, <1>12, <1>g, IdleType DEF AgentLife, At
  <2> QED
    BY <1>u, <1>12, <2>1 DEF LifeInv
<1> QED
  BY <1>1, <1>2, <1>3, <1>4, <1>5, <1>6, <1>7, <1>8, <1>9, <1>10, <1>11, <1>12, AgentSteps
     DEF Turning

-----------------------------------------------------------------------------
(* The Gate *)

\* A write of status by the Gate concerns an execution that the Knowledge Agent
\* does not work on, and that no other decision is about.
LEMMA GateWrites ==
  ASSUME TypeInv, LifeInv, UNCHANGED ka, NEW e \in Exec, NEW st \in ExecStatus,
         status' = [status EXCEPT ![e] = st], <<status[e], st>> \in Life!Edge,
         status[e] \in {"none", "paused_for_review"}, st # "paused_for_review",
         \A f \in Exec : f # e => openEsc'[f] = openEsc[f],
         \A c \in Client : Decides(c)' =>
           Decides(c) /\ req'[c] = req[c] /\ req[c].exec # e
  PROVE  LifeInv' /\ Life!Next
<1>0. /\ status \in [Exec -> ExecStatus] /\ ka.cur \in Exec \cup {0}
      /\ AgentLife /\ Waiting /\ PausedIsListed
  BY DEF TypeInv, TypeOK, DbTypeOK, ExecutorTypeOK, Memory, LifeInv
<1>1. \A f \in Exec : status'[f] = IF f = e THEN st ELSE status[f]
  BY <1>0
<1>2. ka.cur = 0 => ka.pc = "idle" /\ ka.job = "none"
  BY DEF TypeInv, MemoryOK, At
<1>3. AgentLife'
  <2>1. CASE ka.cur \in {0, e}
    <3>1. ka.pc \notin Busy \cup {"done_plan", "finish_status"} /\ ka.job # "final"
      BY <1>0, <1>2, <2>1 DEF AgentLife, Running, At, Busy
    <3> QED
      BY <3>1 DEF AgentLife, At, Busy, Pc
  <2>2. CASE ka.cur \in Exec \ {e}
    BY <1>0, <1>1, <2>2 DEF AgentLife, At
  <2> QED
    BY <1>0, <2>1, <2>2
<1>4. Waiting'
  BY <1>0, <1>1, RequestShape DEF Waiting, Decides, TypeInv, TypeOK
<1>5. PausedIsListed'
  BY <1>0, <1>1 DEF PausedIsListed
<1>6. Life!Next
  <2>1. Life!Move(e, <<status[e], st>>[2])
    BY DEF Life!Move
  <2> QED
    BY <2>1 DEF Life!Next
<1> QED
  BY <1>3, <1>4, <1>5, <1>6 DEF LifeInv

LEMMA GateLives ==
  ASSUME TypeInv, Reserved, LifeInv, DecisionsApart, GateNext, UNCHANGED ka
  PROVE  LifeInv' /\ [Life!Next]_status
<1> USE DEF dbVars, historyVars, gateVars
<1>0. /\ req \in [Client -> Request] /\ status \in [Exec -> ExecStatus]
      /\ openEsc \in [Exec -> BOOLEAN]
      /\ NoRequest \in Request /\ NoRequest.op = "none"
      /\ AgentLife /\ Waiting /\ PausedIsListed
  BY DEF TypeInv, TypeOK, DbTypeOK, GateTypeOK, Request, NoRequest, LifeInv
<1>s. \A c \in Client : Decides(c) => req[c].exec \in Exec
  BY RequestShape DEF Decides, TypeInv, TypeOK
<1>e. /\ <<"none", "queued">> \in Life!Edge
      /\ <<"paused_for_review", "queued">> \in Life!Edge
      /\ <<"paused_for_review", "execution_failed">> \in Life!Edge
      /\ {"queued", "execution_failed"} \subseteq ExecStatus
  BY DEF Life!Edge, ExecStatus, Polled, Terminal
\* A request that writes no status leaves the lives as they are.
<1>u. ASSUME UNCHANGED <<status, openEsc>>,
             \A c \in Client : Decides(c)' => status[req'[c].exec] = "paused_for_review"
      PROVE  LifeInv' /\ [Life!Next]_status
  BY <1>0, <1>u DEF LifeInv, AgentLife, Waiting, PausedIsListed, At
<1>1. ASSUME NEW c \in Client, NEW p \in Plan, ResumeRead(c, p) \/ AbortRead(c, p)
      PROVE  LifeInv' /\ [Life!Next]_status
  <2>1. PICK e \in Exec, op \in {"resume", "abort"} :
          status[e] = "paused_for_review" /\ req' = [req EXCEPT ![c] = [op |-> op, exec |-> e]]
    BY <1>1 DEF ResumeRead, AbortRead, Start, LatestExec
  <2>2. \A d \in Client : req'[d] = IF d = c THEN [op |-> op, exec |-> e] ELSE req[d]
    BY <1>0, <2>1
  <2>3. UNCHANGED <<status, openEsc>>
    BY <1>1 DEF ResumeRead, AbortRead
  <2> QED
    BY <1>0, <1>u, <2>1, <2>2, <2>3 DEF Waiting, Decides
<1>2. ASSUME NEW c \in Client, NEW r \in Request, r.op \notin {"resume", "abort"},
             req' = [req EXCEPT ![c] = r], UNCHANGED <<status, openEsc>>
      PROVE  LifeInv' /\ [Life!Next]_status
  <2>1. \A d \in Client : req'[d] = IF d = c THEN r ELSE req[d]
    BY <1>0, <1>2
  <2> QED
    BY <1>0, <1>u, <1>2, <2>1 DEF Waiting, Decides
<1>3. ASSUME NEW c \in Client, NEW p \in Plan,
             \/ ApproveRead(c, p) \/ RejectInsert(c, p)
             \/ \E k \in Key : ExecuteRead(c, p, k)
      PROVE  LifeInv' /\ [Life!Next]_status
  <2>1. content[p] \in Content
    BY DEF TypeInv, TypeOK, DbTypeOK
  <2>2. \E r \in Request : r.op \notin {"resume", "abort"} /\ req' = [req EXCEPT ![c] = r]
    BY <1>3, <2>1 DEF ApproveRead, RejectInsert, ExecuteRead, Start, Request
  <2>3. UNCHANGED <<status, openEsc>>
    BY <1>3 DEF ApproveRead, RejectInsert, ExecuteRead
  <2> QED
    BY <1>2, <2>2, <2>3
<1>4. ASSUME NEW c \in Client, ApproveInsert(c) \/ DecisionStatus(c) \/ DropRequest(c)
      PROVE  LifeInv' /\ [Life!Next]_status
  <2>1. \E r \in Request : r.op \notin {"resume", "abort"} /\ req' = [req EXCEPT ![c] = r]
    BY <1>0, <1>4, RequestShape
       DEF ApproveInsert, DecisionStatus, DropRequest, End, Request, TypeInv, TypeOK
  <2>2. UNCHANGED <<status, openEsc>>
    BY <1>4 DEF ApproveInsert, DecisionStatus, DropRequest
  <2> QED
    BY <1>2, <2>1, <2>2
<1>5. ASSUME NEW c \in Client, ResumeCommit(c) \/ AbortCommit(c)
      PROVE  LifeInv' /\ [Life!Next]_status
  <2>1. PICK e \in Exec : e = req[c].exec
    BY <1>5, <1>s DEF ResumeCommit, AbortCommit, Decides
  <2>2. PICK st \in {"queued", "execution_failed"} :
          /\ status' = [status EXCEPT ![e] = st]
          /\ openEsc' = [openEsc EXCEPT ![e] = FALSE]
          /\ req' = [req EXCEPT ![c] = NoRequest]
    BY <1>5, <2>1 DEF ResumeCommit, AbortCommit, Resolve, End
  <2>3. status[e] = "paused_for_review" /\ Decides(c)
    BY <1>0, <1>5, <2>1 DEF ResumeCommit, AbortCommit, Waiting, Decides
  <2>4. \A d \in Client : req'[d] = IF d = c THEN NoRequest ELSE req[d]
    BY <1>0, <2>2
  <2>5. \A d \in Client : Decides(d)' => Decides(d) /\ req'[d] = req[d] /\ req[d].exec # e
    BY <1>0, <2>1, <2>3, <2>4 DEF Decides, DecisionsApart
  <2>6. \A f \in Exec : f # e => openEsc'[f] = openEsc[f]
    BY <1>0, <2>2
  <2> QED
    BY <1>e, <2>2, <2>3, <2>5, <2>6, GateWrites
\* A queued execution had no row, so no decision is about it.
<1>6. ASSUME NEW e \in Exec, status[e] = "none", status' = [status EXCEPT ![e] = "queued"],
             openEsc' = openEsc, \A c \in Client : Decides(c)' => req'[c] = req[c]
      PROVE  LifeInv' /\ [Life!Next]_status
  <2>1. \A c \in Client : Decides(c)' => Decides(c) /\ req'[c] = req[c] /\ req[c].exec # e
    BY <1>0, <1>6 DEF Decides, Waiting
  <2> QED
    BY <1>e, <1>6, <2>1, GateWrites
<1>7. ASSUME NEW c \in Client, ExecuteCommit(c) PROVE LifeInv' /\ [Life!Next]_status
  <2>1. req[c].exec \in Exec /\ status[req[c].exec] = "none"
    BY <1>7, RequestShape DEF ExecuteCommit, Reserved, TypeInv, TypeOK
  <2>2. /\ status' = [status EXCEPT ![req[c].exec] = "queued"] /\ openEsc' = openEsc
        /\ req' = [req EXCEPT ![c] = NoRequest]
    BY <1>7 DEF ExecuteCommit, InsertQueued, End
  <2>3. \A d \in Client : Decides(d)' => req'[d] = req[d]
    BY <1>0, <2>2 DEF Decides
  <2> QED
    BY <1>6, <2>1, <2>2, <2>3
<1>8. ASSUME NEW p \in Plan, Diagnose(p) PROVE LifeInv' /\ [Life!Next]_status
  <2>1. req' = req /\ openEsc' = openEsc
    BY <1>8 DEF Diagnose
  <2>2. CASE UNCHANGED status
    BY <1>0, <1>u, <2>1, <2>2 DEF Waiting, Decides
  <2>3. CASE next \in Exec /\ InsertQueued(next, p, p)
    <3>1. next \in Int /\ status[next] = "none"
      BY <2>3 DEF Reserved, Exec
    <3> QED
      BY <1>6, <2>1, <2>3, <3>1 DEF InsertQueued
  <2> QED
    BY <1>8, <2>2, <2>3 DEF Diagnose
<1>9. ASSUME \/ \E p \in Plan : ExpireApproval(p)
             \/ \E k \in AnyKey : ExpireRecord(k)
             \/ \E p \in Plan, v \in Content : EditPlan(p, v)
      PROVE  LifeInv' /\ [Life!Next]_status
  <2>1. req' = req /\ UNCHANGED <<status, openEsc>>
    BY <1>9 DEF ExpireApproval, ExpireRecord, EditPlan
  <2> QED
    BY <1>0, <1>u, <2>1 DEF Waiting, Decides
<1> QED
  BY <1>1, <1>3, <1>4, <1>5, <1>7, <1>8, <1>9 DEF GateNext

-----------------------------------------------------------------------------
LEMMA NextLives ==
  ASSUME TypeInv, Reserved, LifeInv, DecisionsApart, [Next]_vars
  PROVE  LifeInv' /\ [Life!Next]_status
<1>1. CASE GateNext /\ UNCHANGED <<ka, targetVars>>
  BY <1>1, GateLives
<1>2. CASE ExecutorNext /\ UNCHANGED gateVars
  BY <1>2, AgentLives
<1>3. CASE UNCHANGED vars
  BY <1>3 DEF vars, dbVars, gateVars, LifeInv, AgentLife, Waiting, Decides, PausedIsListed, At
<1> QED
  BY <1>1, <1>2, <1>3 DEF Next

\* A paused execution has an open escalation, which is what puts it on the
\* review list, as long as resume_plan and abort_plan do not decide about one
\* execution twice at the same time (pause_execution against both handlers).
THEOREM PausedListed == Spec /\ []DecisionsApart => []PausedIsListed
<1>1. ConsentInv => Reserved
  BY DEF ConsentInv
<1>2. TypeInv /\ Reserved /\ DecisionsApart /\ LifeInv /\ [Next]_vars => LifeInv'
  BY NextLives
<1>3. LifeInv => PausedIsListed
  BY DEF LifeInv
<1> QED
  BY <1>1, <1>2, <1>3, InitLife, TypeInvariant, ConsentInvariant, PTL DEF Spec

\* Under the same condition every execution goes through the life that
\* Lifecycle promises: nothing that has ended is ever queued, claimed or paused
\* again, over all crashes, recoveries, expiries and requests.
THEOREM LifeImplemented == Spec /\ []DecisionsApart => LifecycleSpec
<1>1. ConsentInv => Reserved
  BY DEF ConsentInv
<1>2. TypeInv /\ Reserved /\ DecisionsApart /\ LifeInv /\ [Next]_vars => LifeInv' /\ [Life!Next]_status
  BY NextLives
<1>3. Init => Life!Init
  BY DEF Init, DbInit, Life!Init
<1> QED
  BY <1>1, <1>2, <1>3, InitLife, TypeInvariant, ConsentInvariant, PTL
     DEF Spec, LifecycleSpec, Life!Spec

\* One request at a time is enough: the configuration of the run `repair`.
THEOREM OneRequestAtATime ==
  ASSUME \A c, d \in Client : c = d
  PROVE  Spec => []PausedIsListed /\ LifecycleSpec
<1>1. DecisionsApart
  BY DEF DecisionsApart
<1>2. []DecisionsApart
  BY <1>1, PTL
<1> QED
  BY <1>2, PausedListed, LifeImplemented, PTL
=============================================================================
