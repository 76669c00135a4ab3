----------------------------- MODULE Order_proofs -----------------------------
(***************************************************************************)
(* The order of the steps, for every number of executions, steps, requests *)
(* and attempts: what the rows of an execution say is always what the      *)
(* memory of the Knowledge Agent builds on.                                *)
(***************************************************************************)
EXTENDS Repair_proofs

\* Every step before the one it is at is verified.
Prefix ==
  ka.cur # 0 => \A t \in 1 .. ka.sid - 1 : rows[ka.cur][t].st = "step_verified"

\* The step it works on is not verified yet.
AtWork ==
  /\ ka.pc \in {"loop", "acquire", "attempt", "call", "release", "after", "route"}
  /\ ka.job \notin {"snapshot", "final"}
  /\ ka.sid \in Step
Front == AtWork => rows[ka.cur][ka.sid].st # "step_verified"

\* Before the first attempt of a step that cannot be repeated, it has not run
\* or its failure is on record.
BeforeStep ==
  /\ ka.sid \in Step
  /\ \/ At("loop")
     \/ ka.pc \in {"acquire", "attempt"} /\ ka.job = "step" /\ ka.att = 1
Fresh ==
  BeforeStep => ka.sid \in Idempotent \/ rows[ka.cur][ka.sid].st \in {"none"} \cup StepFailed

OrderInv == InOrder /\ Prefix /\ Front /\ Fresh

LEMMA InitOrder == Init => OrderInv
<1> SUFFICES ASSUME Init PROVE OrderInv
  OBVIOUS
<1>1. ka.cur = 0 /\ ka.pc = "idle" /\ ka.sid = 1
  BY IdleType DEF Init, ExecutorInit
<1>2. \A e \in Exec, s \in Step : rows[e][s].st = "none"
  BY DEF Init, DbInit
<1> QED
  BY <1>1, <1>2 DEF OrderInv, InOrder, Prefix, Front, Fresh, AtWork, BeforeStep, At

\* Writing the row of a step that is not verified, when all before it are,
\* keeps the rows in order, and the steps after it have no row.
LEMMA RowInOrder ==
  ASSUME TypeInv, InOrder, Prefix, NEW s \in Step, s = ka.sid, ~At("idle"),
         rows[ka.cur][s].st # "step_verified",
         NEW st \in StepStatus \ {"none"}, NEW r \in 0 .. MaxAttempts - 1, SetRow(s, st, r)
  PROVE  /\ InOrder'
         /\ \A t \in 1 .. s - 1 : rows'[ka.cur][t].st = "step_verified"
         /\ rows'[ka.cur][s].st = st
         /\ \A t \in Step : t > s => rows'[ka.cur][t].st = "none"
<1>1. ka.cur \in Exec /\ ka.cur # 0
  BY MidExecution DEF Exec
<1>2. rows \in [Exec -> [Step -> StepRow]] /\ NSteps \in Nat
  BY PlanAssumption DEF TypeInv, TypeOK, DbTypeOK
<1>3. \A e \in Exec, t \in Step :
        rows'[e][t] = IF e = ka.cur /\ t = s THEN [st |-> st, retry |-> r] ELSE rows[e][t]
  BY <1>1, <1>2 DEF SetRow
<1>4. \A t \in 1 .. s - 1 : t \in Step /\ rows[ka.cur][t].st = "step_verified"
  BY <1>1, <1>2 DEF Prefix, Step
<1>5. \A t \in Step : t > s => rows[ka.cur][t].st = "none"
  BY <1>1, <1>2 DEF InOrder, Step
<1>6. InOrder'
  <2> SUFFICES ASSUME NEW e \in Exec, NEW u \in Step, rows'[e][u].st # "none",
                      NEW t \in 1 .. u - 1
               PROVE  rows'[e][t].st = "step_verified"
    BY DEF InOrder
  <2>1. t \in Step /\ t < u
    BY <1>2 DEF Step
  <2>2. CASE e = ka.cur /\ u = s
    BY <1>3, <1>4, <2>1, <2>2
  <2>3. CASE e = ka.cur /\ u # s
    <3>1. rows[e][u].st # "none"
      BY <1>3, <2>3
    <3>2. u < s
      BY <1>5, <2>3, <3>1 DEF Step
    <3> QED
      BY <1>3, <2>1, <2>3, <3>1, <3>2 DEF InOrder
  <2>4. CASE e # ka.cur
    BY <1>3, <2>1, <2>4 DEF InOrder
  <2> QED
    BY <2>2, <2>3, <2>4
<1> QED
  BY <1>1, <1>3, <1>4, <1>5, <1>6 DEF Step

\* An execution that ends, pauses or is claimed has its whole way before it.
LEMMA AtTheStart ==
  ASSUME InOrder, rows' = rows, ka'.sid = 1, ka'.job = "none",
         ka'.pc \notin {"loop", "acquire", "attempt", "call", "release", "after", "route"}
  PROVE  OrderInv'
  BY DEF OrderInv, InOrder, Prefix, Front, Fresh, AtWork, BeforeStep, At

\* Going on with the same step of the same execution.
LEMMA SameStep ==
  ASSUME OrderInv, rows' = rows, ka'.cur = ka.cur, ka'.sid = ka.sid,
         AtWork' => AtWork, BeforeStep' => BeforeStep
  PROVE  OrderInv'
  BY DEF OrderInv, InOrder, Prefix, Front, Fresh

LEMMA ExecutorOrder ==
  ASSUME TypeInv, TypeInv', OrderInv, ExecutorNext
  PROVE  OrderInv'
<1> USE DEF dbVars, targetVars, historyVars, gateTables
<1>0. /\ ExecutorTypeOK /\ MemoryOK /\ ka.cur \in Exec \cup {0} /\ ka.sid \in 1 .. NSteps + 1
      /\ ka.old \in 0 .. MaxAttempts - 1 /\ ka.att \in Int /\ ka.sid \in Int
      /\ InOrder /\ Prefix /\ Front /\ Fresh
  BY DEF TypeInv, TypeOK, ExecutorTypeOK, Memory, OrderInv
<1>p. 1 \in 1 .. NSteps + 1 /\ Step \subseteq 1 .. NSteps + 1 /\ Step \subseteq Int
      /\ \A s \in Step : s + 1 \in 1 .. NSteps + 1
      /\ 0 \in 0 .. MaxAttempts - 1
  BY PlanAssumption DEF Step
<1>q. {"fetch", "approval", "hash", "node", "recover", "loop", "acquire", "attempt", "call",
       "release", "after", "route", "final_plan", "done_status", "done_plan", "pause_escalate",
       "pause_status", "pause_plan", "finish_status", "finish_plan"} \subseteq Pc
  BY DEF Pc
<1>j. {"snapshot", "step", "verify", "recover", "rollback", "final"} \subseteq Job \ {"none"}
  BY DEF Job
<1>t. {"blocked", "failed_retryable", "kb_done"} \subseteq Terminal \cup {"failed_retryable"}
  BY DEF Terminal
<1>w. {"step_running", "step_verified", "step_failed_aborted", "step_failed_blocked"}
        = StepStatus \ {"none"}
  BY DEF StepStatus
\* The many ways to stop: finish, pause, or lose the process.
<1>a. ASSUME rows' = rows,
             Pause \/ ka' = Idle \/ \E st \in {"blocked", "failed_retryable", "kb_done"} : FinishWith(st)
      PROVE  OrderInv'
  BY <1>0, <1>a, <1>t, AtTheStart, PauseMemory, FinishMemory, IdleMemory
<1>1. CASE Claim
  <2>1. ka'.pc = "fetch" /\ ka'.sid = 1 /\ ka'.job = "none"
    BY <1>1, IdleType DEF Claim, Memory
  <2> QED
    BY <1>0, <1>1, <2>1, AtTheStart DEF Claim
<1>2. CASE FetchPlan
  <2>1. CASE ka' = [ka EXCEPT !.mem = content[plan], !.pc = "approval"]
    <3>1. ka'.pc = "approval" /\ ka'.cur = ka.cur /\ ka'.sid = ka.sid
      BY <1>0, <2>1 DEF ExecutorTypeOK, Memory
    <3> QED
      BY <1>2, <3>1, SameStep DEF FetchPlan, AtWork, BeforeStep, At
  <2> QED
    BY <1>2, <1>a, <2>1 DEF FetchPlan
<1>3. CASE CheckApproval \/ CheckHash
  <2>1. CASE Goto("hash") \/ Goto("node")
    <3>1. ka'.pc \in {"hash", "node"} /\ ka'.cur = ka.cur /\ ka'.sid = ka.sid
      BY <1>0, <1>q, <2>1, GotoMemory
    <3> QED
      BY <1>3, <3>1, SameStep DEF CheckApproval, CheckHash, AtWork, BeforeStep, At
  <2> QED
    BY <1>3, <1>a, <2>1 DEF CheckApproval, CheckHash
<1>4. CASE LoadNode
  <2>1. CASE Goto("recover")
    <3>1. ka'.pc = "recover" /\ ka'.cur = ka.cur /\ ka'.sid = ka.sid
      BY <1>0, <1>q, <2>1, GotoMemory
    <3> QED
      BY <1>4, <3>1, SameStep DEF LoadNode, AtWork, BeforeStep, At
  <2>2. CASE StartJob("snapshot", 1)
    <3>1. ka'.cur = ka.cur /\ ka'.sid = 1 /\ ka'.job = "snapshot" /\ ka'.pc \in {"acquire", "attempt"}
      BY <1>0, <1>p, <1>j, <2>2, StartMemory
    <3> QED
      BY <1>0, <1>4, <3>1 DEF LoadNode, OrderInv, InOrder, Prefix, Front, Fresh, AtWork, BeforeStep, At
  <2> QED
    BY <1>4, <1>a, <2>1, <2>2 DEF LoadNode
<1>5. CASE AcquireLock \/ AgentReply \/ ReleaseLock
  <2>1. /\ rows' = rows /\ ka'.cur = ka.cur /\ ka'.sid = ka.sid /\ ka'.job = ka.job
        /\ ka.pc \in {"acquire", "call", "release"}
        /\ ka'.pc \in {"attempt", "release", "after"}
        /\ ka'.pc = "attempt" => \/ ka.pc = "acquire" /\ ka'.att = ka.att
                                 \/ ka'.att = ka.att + 1 /\ ka.att \in 1 .. MaxAttempts + 1
    <3>1. CASE AcquireLock \/ ReleaseLock
      BY <1>0, <1>q, <3>1, GotoMemory
         DEF AcquireLock, ReleaseLock, ExecutorTypeOK, Memory, At
    <3>2. CASE AgentReply
      <4>1. ka.att \in 1 .. MaxAttempts + 1
        BY <1>0, <3>2, AttemptsBound DEF AgentReply, MemoryOK, At, ExecutorTypeOK, Memory
      <4> QED
        BY <1>0, <3>2, <4>1 DEF AgentReply, ExecutorTypeOK, Memory, At
    <3> QED
      BY <1>5, <3>1, <3>2
  <2>2. AtWork' => AtWork
    BY <2>1 DEF AtWork
  <2>3. BeforeStep' => BeforeStep
    BY <1>0, <2>1, PlanAssumption DEF BeforeStep, At
  <2> QED
    BY <2>1, <2>2, <2>3, SameStep
<1>6. CASE StartAttempt
  <2>1. ka'.pc = "call" /\ ka'.cur = ka.cur /\ ka'.sid = ka.sid /\ ka'.job = ka.job
    BY <1>0, <1>6, <1>q, GotoMemory DEF StartAttempt
  <2>2. CASE Recorded(ka.job)
    <3>1. /\ ~At("idle") /\ ka.sid \in Step /\ ka.att - 1 \in 0 .. MaxAttempts - 1
          /\ rows[ka.cur][ka.sid].st # "step_verified"
          /\ SetRow(ka.sid, "step_running", ka.att - 1)
      <4>1. ka.att - 1 \in 0 .. MaxAttempts - 1
        BY <1>0, <1>6, <2>2, AttemptsBound, PlanAssumption
           DEF StartAttempt, MemoryOK, At, ExecutorTypeOK, Memory
      <4> QED
        BY <1>0, <1>6, <2>2, <4>1
           DEF StartAttempt, Recorded, MemoryOK, At, Front, AtWork
    <3>2. /\ InOrder' /\ \A t \in 1 .. ka.sid - 1 : rows'[ka.cur][t].st = "step_verified"
          /\ rows'[ka.cur][ka.sid].st = "step_running"
      BY <1>0, <1>w, <3>1, RowInOrder
    <3>3. Prefix'
      BY <2>1, <3>2 DEF Prefix
    <3>5. Front'
      <4>1. rows'[ka.cur][ka.sid].st = "step_running"
        BY <3>2
      <4>2. ka'.cur = ka.cur /\ ka'.sid = ka.sid
        BY <2>1
      <4> QED
        BY <4>1, <4>2 DEF Front
    <3>4. Fresh'
      BY <2>1 DEF Fresh, BeforeStep, At
    <3> QED
      BY <3>2, <3>3, <3>4, <3>5 DEF OrderInv
  <2>3. CASE ~Recorded(ka.job)
    BY <1>6, <2>1, <2>3, SameStep DEF StartAttempt, AtWork, BeforeStep, At
  <2> QED
    BY <2>2, <2>3
<1>7. CASE AfterSnapshot
  <2>1. CASE Settle("recover", 1)
    <3>1. ka'.pc = "recover" /\ ka'.sid = 1 /\ ka'.job = "none"
      BY <1>0, <1>p, <1>q, <2>1, SettleMemory
    <3> QED
      BY <1>0, <1>7, <3>1, AtTheStart DEF AfterSnapshot
  <2> QED
    BY <1>7, <1>a, <2>1 DEF AfterSnapshot
<1>8. CASE Recover
  <2>0. rows' = rows /\ ka.pc = "recover" /\ ka.cur # 0
    BY <1>0, <1>8 DEF Recover, MemoryOK, At
  <2>1. CASE ka.sid = NSteps + 1 /\ Goto("loop")
    <3>1. ka'.pc = "loop" /\ ka'.cur = ka.cur /\ ka'.sid = ka.sid /\ ka.sid \notin Step
      BY <1>0, <1>q, <2>1, GotoMemory, PlanAssumption DEF Step
    <3> QED
      BY <2>0, <3>1, SameStep DEF AtWork, BeforeStep, At
  <2>2. CASE rows[ka.cur][ka.sid].st \in {"none"} \cup StepFailed /\ Goto("loop")
    <3>1. ka'.pc = "loop" /\ ka'.cur = ka.cur /\ ka'.sid = ka.sid
      BY <1>0, <1>q, <2>2, GotoMemory
    <3> QED
      BY <1>0, <2>0, <2>2, <3>1
         DEF OrderInv, InOrder, Prefix, Front, Fresh, AtWork, BeforeStep, At, StepFailed
  <2>3. CASE /\ ka.sid \in Step /\ rows[ka.cur][ka.sid].st = "step_verified"
             /\ Settle("recover", ka.sid + 1)
    <3>1. ka'.pc = "recover" /\ ka'.cur = ka.cur /\ ka'.sid = ka.sid + 1
      BY <1>0, <1>p, <1>q, <2>3, SettleMemory
    <3>2. Prefix'
      BY <1>0, <1>p, <2>0, <2>3, <3>1 DEF Prefix
    <3> QED
      BY <1>0, <2>0, <3>1, <3>2 DEF OrderInv, InOrder, Front, Fresh, AtWork, BeforeStep, At
  <2>4. CASE /\ rows[ka.cur][ka.sid].st = "step_running"
             /\ ka' = [ka EXCEPT !.job = "recover", !.att = 1, !.out = "none",
                                 !.old = rows[ka.cur][ka.sid].retry, !.pc = "attempt"]
    <3>1. ka'.pc = "attempt" /\ ka'.cur = ka.cur /\ ka'.sid = ka.sid /\ ka'.job = "recover"
      BY <1>0, <2>4 DEF ExecutorTypeOK, Memory
    <3> QED
      BY <1>0, <2>0, <2>4, <3>1
         DEF OrderInv, InOrder, Prefix, Front, Fresh, AtWork, BeforeStep, At
  <2> QED
    BY <1>8, <2>1, <2>2, <2>3, <2>4 DEF Recover
<1>9. CASE AfterRecover \/ AfterVerify \/ AfterStep
  <2>0. /\ ~At("idle") /\ ka.pc = "after" /\ ka.cur # 0 /\ ka.sid \in Step
        /\ rows[ka.cur][ka.sid].st # "step_verified"
    BY <1>0, <1>9
       DEF AfterRecover, AfterVerify, AfterStep, MemoryOK, At, Front, AtWork
  <2>1. ASSUME NEW pc \in {"recover", "loop"}, Settle(pc, ka.sid + 1),
               SetRow(ka.sid, "step_verified", 0)
        PROVE  OrderInv'
    <3>1. ka'.pc = pc /\ ka'.cur = ka.cur /\ ka'.sid = ka.sid + 1 /\ ka'.job = "none"
      BY <1>0, <1>p, <1>q, <2>0, <2>1, SettleMemory
    <3>2. /\ InOrder' /\ \A t \in 1 .. ka.sid - 1 : rows'[ka.cur][t].st = "step_verified"
          /\ rows'[ka.cur][ka.sid].st = "step_verified"
          /\ \A t \in Step : t > ka.sid => rows'[ka.cur][t].st = "none"
      BY <1>0, <1>p, <1>w, <2>0, <2>1, RowInOrder
    <3>3. Prefix'
      <4>1. ka.sid \in Int /\ ka'.sid - 1 = ka.sid
        BY <1>0, <3>1
      <4>2. \A t \in 1 .. ka.sid : t \in 1 .. ka.sid - 1 \/ t = ka.sid
        BY <4>1
      <4>3. \A t \in 1 .. ka.sid : rows'[ka.cur][t].st = "step_verified"
        BY <3>2, <4>2
      <4> QED
        BY <3>1, <4>1, <4>3 DEF Prefix
    <3>4. ka'.sid \in Step => rows'[ka'.cur][ka'.sid].st = "none"
      <4>1. ka.sid + 1 > ka.sid
        BY <1>0
      <4> QED
        BY <3>1, <3>2, <4>1
    <3> QED
      BY <3>2, <3>3, <3>4 DEF OrderInv, Front, Fresh, AtWork, BeforeStep
  <2>2. ASSUME NEW st \in StepFailed, SetRow(ka.sid, st, 0), Goto("route")
        PROVE  OrderInv'
    <3>1. ka'.pc = "route" /\ ka'.cur = ka.cur /\ ka'.sid = ka.sid
      BY <1>0, <1>q, <2>2, GotoMemory
    <3>2. /\ InOrder' /\ \A t \in 1 .. ka.sid - 1 : rows'[ka.cur][t].st = "step_verified"
          /\ rows'[ka.cur][ka.sid].st = st
      BY <1>0, <1>p, <1>w, <2>0, <2>2, RowInOrder DEF StepFailed
    <3>3. Prefix' /\ Front' /\ Fresh'
      BY <3>1, <3>2 DEF Prefix, Front, Fresh, AtWork, BeforeStep, At, StepFailed
    <3> QED
      BY <3>2, <3>3 DEF OrderInv
  <2>3. CASE rows' = rows /\ Settle("loop", ka.sid) /\ ka.sid \in Idempotent
    <3>1. ka'.pc = "loop" /\ ka'.cur = ka.cur /\ ka'.sid = ka.sid
      BY <1>0, <1>q, <2>3, SettleMemory
    <3> QED
      BY <1>0, <2>0, <2>3, <3>1
         DEF OrderInv, InOrder, Prefix, Front, Fresh, AtWork, BeforeStep, At
  <2>4. CASE rows' = rows /\ StartJob("verify", ka.sid)
    <3>1. /\ ka'.pc \in {"acquire", "attempt"} /\ ka'.cur = ka.cur /\ ka'.sid = ka.sid
          /\ ka'.job = "verify"
      BY <1>0, <1>j, <2>4, StartMemory
    <3> QED
      BY <1>0, <2>0, <2>4, <3>1
         DEF OrderInv, InOrder, Prefix, Front, Fresh, AtWork, BeforeStep, At
  <2> QED
    BY <1>9, <1>a, <2>1, <2>2, <2>3, <2>4
       DEF AfterRecover, AfterVerify, AfterStep, Repeatable, StepFailed
<1>10. CASE NextStep
  <2>1. /\ ka'.pc \in {"acquire", "attempt"} /\ ka'.cur = ka.cur /\ ka'.sid = ka.sid
        /\ ka'.job = "step"
    BY <1>0, <1>10, <1>j, StartMemory DEF NextStep
  <2>2. rows' = rows /\ ka.pc = "loop" /\ ka.sid \in Step
    BY <1>10 DEF NextStep, At
  <2>3. BeforeStep
    BY <2>2 DEF BeforeStep, At
  <2>4. rows[ka.cur][ka.sid].st # "step_verified" \/ ~AtWork
    BY <1>0 DEF Front
  <2>5. ka.job \notin {"snapshot", "final"}
    BY <1>0, <2>2 DEF MemoryOK
  <2> QED
    BY <1>0, <2>1, <2>2, <2>3, <2>4, <2>5
       DEF OrderInv, InOrder, Prefix, Front, Fresh, AtWork, BeforeStep, At
<1>11. CASE RouteFailure
  <2>1. CASE StartJob("rollback", ka.sid)
    <3>1. /\ ka'.pc \in {"acquire", "attempt"} /\ ka'.cur = ka.cur /\ ka'.sid = ka.sid
          /\ ka'.job = "rollback" /\ rows' = rows
      BY <1>0, <1>11, <1>j, <2>1, StartMemory DEF RouteFailure
    <3>2. AtWork
      BY <1>0, <1>11 DEF RouteFailure, AtWork, MemoryOK, At
    <3> QED
      BY <3>1, <3>2, SameStep DEF BeforeStep, At
  <2> QED
    BY <1>11, <1>a, <2>1 DEF RouteFailure
<1>12. CASE EnterFinal
  <2>1. ka'.pc = "final_plan" /\ ka'.cur = ka.cur /\ ka'.sid = ka.sid /\ rows' = rows
    BY <1>12, IdleType DEF EnterFinal, Memory
  <2> QED
    BY <2>1, SameStep DEF AtWork, BeforeStep, At
<1>13. CASE FinalPlan
  <2>1. /\ ka'.pc \in {"acquire", "attempt"} /\ ka'.cur = ka.cur /\ ka'.sid = ka.sid
        /\ ka'.job = "final" /\ rows' = rows
    BY <1>0, <1>13, <1>j, StartMemory DEF FinalPlan
  <2> QED
    BY <2>1, SameStep DEF AtWork, BeforeStep, At
<1>14. CASE AfterFinal
  <2>1. CASE ka' = [Idle EXCEPT !.pc = "done_status", !.cur = ka.cur]
    <3>1. ka'.pc = "done_status" /\ ka'.sid = 1 /\ ka'.job = "none"
      BY <2>1, IdleType DEF Memory
    <3> QED
      BY <1>0, <1>14, <3>1, AtTheStart DEF AfterFinal
  <2> QED
    BY <1>14, <1>a, <2>1 DEF AfterFinal
<1>15. CASE DoneStatus \/ PauseEscalate \/ PauseStatus \/ FinishStatus
  <2>1. /\ ka'.pc \in {"done_plan", "pause_status", "pause_plan", "finish_plan"}
        /\ ka'.cur = ka.cur /\ ka'.sid = ka.sid /\ rows' = rows
    BY <1>0, <1>15, <1>q, GotoMemory DEF DoneStatus, PauseEscalate, PauseStatus, FinishStatus
  <2> QED
    BY <2>1, SameStep DEF AtWork, BeforeStep, At
<1>16. CASE DonePlan \/ PausePlan \/ FinishPlan \/ AfterRollback \/ Crash \/ Unwind
  BY <1>16, <1>a DEF DonePlan, PausePlan, FinishPlan, AfterRollback, Crash, Unwind
<1>17. CASE ExpireLock
  BY <1>17, SameStep DEF ExpireLock, AtWork, BeforeStep, At
<1> QED
  BY <1>1, <1>2, <1>3, <1>4, <1>5, <1>6, <1>7, <1>8, <1>9, <1>10, <1>11, <1>12, <1>13, <1>14,
     <1>15, <1>16, <1>17 DEF ExecutorNext, Work

\* The Gate neither writes a row of a step nor touches the agent's memory.
LEMMA GateOrder ==
  ASSUME OrderInv, GateNext, UNCHANGED <<ka, targetVars>>
  PROVE  OrderInv'
<1>1. rows' = rows
  <2> USE DEF dbVars
  <2>1. ASSUME NEW c \in Client, NEW p \in Plan,
               \/ ApproveRead(c, p) \/ RejectInsert(c, p) \/ ResumeRead(c, p) \/ AbortRead(c, p)
               \/ \E k \in Key : ExecuteRead(c, p, k)
        PROVE  rows' = rows
    BY <2>1 DEF ApproveRead, RejectInsert, ResumeRead, AbortRead, ExecuteRead
  <2>2. ASSUME NEW c \in Client,
               \/ ApproveInsert(c) \/ DecisionStatus(c) \/ ResumeCommit(c) \/ AbortCommit(c)
               \/ ExecuteCommit(c) \/ DropRequest(c)
        PROVE  rows' = rows
    BY <2>2 DEF ApproveInsert, DecisionStatus, ResumeCommit, AbortCommit, Resolve,
                ExecuteCommit, DropRequest
  <2>3. ASSUME NEW p \in Plan, Diagnose(p) \/ ExpireApproval(p) PROVE rows' = rows
    BY <2>3 DEF Diagnose, ExpireApproval
  <2>4. ASSUME NEW k \in AnyKey, ExpireRecord(k) PROVE rows' = rows
    BY <2>4 DEF ExpireRecord
  <2>5. ASSUME NEW p \in Plan, NEW v \in Content, EditPlan(p, v) PROVE rows' = rows
    BY <2>5 DEF EditPlan
  <2> QED
    BY <2>1, <2>2, <2>3, <2>4, <2>5 DEF GateNext
<1> QED
  BY <1>1 DEF OrderInv, InOrder, Prefix, Front, Fresh, AtWork, BeforeStep, At

\* The invariant behind the two theorems below.
THEOREM OrderInvariant == Spec => []OrderInv
<1>1. TypeInv /\ TypeInv' /\ OrderInv /\ [Next]_vars => OrderInv'
  <2> SUFFICES ASSUME TypeInv, TypeInv', OrderInv, [Next]_vars PROVE OrderInv'
    OBVIOUS
  <2>1. CASE GateNext /\ UNCHANGED <<ka, targetVars>>
    BY <2>1, GateOrder
  <2>2. CASE ExecutorNext /\ UNCHANGED gateVars
    BY <2>2, ExecutorOrder
  <2>3. CASE UNCHANGED vars
    BY <2>3 DEF vars, dbVars, OrderInv, InOrder, Prefix, Front, Fresh, AtWork, BeforeStep, At
  <2> QED
    BY <2>1, <2>2, <2>3 DEF Next
<1> QED
  BY <1>1, InitOrder, TypeInvariant, PTL DEF Spec

\* Whatever crashes, resumes and edits happen, a step has a row only when every
\* step before it is verified (the step loop and recovery_start_index).
THEOREM StepsInOrder == Spec => []InOrder
<1>1. OrderInv => InOrder
  BY DEF OrderInv
<1> QED
  BY <1>1, OrderInvariant, PTL

\* A step that cannot be repeated is never sent while it is unknown whether it
\* ran before (execute_fixing_step and recovery_start_index).
THEOREM NeverBlind == Spec => NoBlindRepeat
<1>1. TypeInv /\ OrderInv /\ [Next]_vars =>
        [\A s \in Step \ Idempotent :
           (At("attempt") /\ ka.job = "step" /\ ka.sid = s /\ ka'.pc = "call")
             => rows[ka.cur][s].st \in {"none"} \cup StepFailed]_vars
  <2> SUFFICES ASSUME TypeInv, OrderInv, NEW s \in Step \ Idempotent,
                      At("attempt"), ka.job = "step", ka.sid = s
               PROVE  rows[ka.cur][s].st \in {"none"} \cup StepFailed
    OBVIOUS
  <2>1. ka.att \in 1 .. JobAttempts(ka.job, ka.sid)
    BY DEF TypeInv, MemoryOK, At
  <2>2. JobAttempts(ka.job, ka.sid) = 1
    BY DEF JobAttempts, StepAttempts
  <2>3. BeforeStep
    BY <2>1, <2>2 DEF BeforeStep, At
  <2> QED
    BY <2>3 DEF OrderInv, Fresh
<1> QED
  BY <1>1, TypeInvariant, OrderInvariant, PTL DEF Spec, NoBlindRepeat
==============================================================================
