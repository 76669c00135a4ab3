---------------------------- MODULE Repair_proofs ----------------------------
(***************************************************************************)
(* Proofs about Repair for every number of plans, executions, steps,       *)
(* requests and attempts.                                                  *)
(***************************************************************************)
EXTENDS Repair, TLAPS

-----------------------------------------------------------------------------
(* Types, and what the memory of the Knowledge Agent is at each pc *)

MemoryOK ==
  /\ ka.cur = 0 <=> At("idle")
  /\ ka.pc \in {"acquire", "attempt", "call", "release", "after"} =>
       ka.job # "none" /\ ka.att \in 1 .. JobAttempts(ka.job, ka.sid)
  /\ ka.pc \notin {"acquire", "attempt", "call", "release", "after", "route"} => ka.job = "none"
  /\ ka.job \in {"step", "verify", "recover", "rollback"} => ka.sid \in Step
  /\ At("route") => ka.job \in {"step", "verify"}
  /\ ka.pc \in {"finish_status", "finish_plan"} => ka.goal # "none"

TypeInv == TypeOK /\ MemoryOK

\* The attempts of a train fit the counters.
LEMMA AttemptsBound ==
  ASSUME NEW job \in Job, NEW s \in 1 .. NSteps + 1
  PROVE  /\ JobAttempts(job, s) \in 1 .. MaxAttempts + 1
         /\ Recorded(job) => JobAttempts(job, s) \in 1 .. MaxAttempts
  BY PlanAssumption DEF JobAttempts, StepAttempts, Recorded, Job

LEMMA InitType == Init => TypeInv
<1> SUFFICES ASSUME Init PROVE TypeInv
  OBVIOUS
<1> USE PlanAssumption DEF Init
<1>1. DbTypeOK
  BY DEF DbInit, DbTypeOK, Approval, StepRow, StepStatus, PlanStatus, ExecStatus,
         AnyKey, Exec, Step
<1>2. GateTypeOK
  BY DEF GateInit, GateTypeOK, Request
<1>3. ExecutorTypeOK /\ MemoryOK
  BY DEF ExecutorInit, ExecutorTypeOK, MemoryOK, Memory, Idle, At, Pc, Job, Outcome, Step
<1> QED
  BY <1>1, <1>2, <1>3 DEF TypeInv, TypeOK

\* What a request in progress holds, by the operation it is part of.
LEMMA RequestShape ==
  ASSUME GateTypeOK, NEW c \in Client
  PROVE  /\ req[c].op = "approve" => req[c].plan \in Plan /\ req[c].hash \in Content
         /\ req[c].op = "set_status" => req[c].plan \in Plan /\ req[c].to \in {"approved", "rejected"}
         /\ req[c].op \in {"resume", "abort"} => req[c].exec \in Exec
         /\ req[c].op = "execute" =>
              req[c].plan \in Plan /\ req[c].key \in Key /\ req[c].exec \in Exec
  BY DEF GateTypeOK, Request, NoRequest

\* The rows of a queued execution are rows.
LEMMA InsertType ==
  ASSUME DbTypeOK, NEW e \in Exec, NEW p \in Plan, NEW k \in AnyKey, InsertQueued(e, p, k)
  PROVE  /\ status' \in [Exec -> ExecStatus] /\ planOf' \in [Exec -> Plan]
         /\ record' \in [AnyKey -> Exec \cup {0}] /\ born' \in [AnyKey -> Nat]
         /\ planStatus' \in [Plan -> PlanStatus]
<1>1. "queued" \in ExecStatus /\ "queued" \in PlanStatus
  BY DEF ExecStatus, PlanStatus, Polled
<1> QED
  BY <1>1 DEF InsertQueued, DbTypeOK

\* The actions of the Gate keep the types.
LEMMA GateType ==
  ASSUME TypeOK, GateNext, UNCHANGED <<ka, targetVars>>
  PROVE  TypeOK'
<1> USE PlanAssumption DEF historyVars, gateVars, dbVars, targetVars
<1>e. ExecutorTypeOK'
  BY DEF TypeOK, ExecutorTypeOK
<1>0. DbTypeOK /\ GateTypeOK
  BY DEF TypeOK
<1>1. ASSUME NEW c \in Client, NEW p \in Plan, ApproveRead(c, p) PROVE DbTypeOK' /\ GateTypeOK'
  BY <1>0, <1>1 DEF ApproveRead, Start, DbTypeOK, GateTypeOK, Request
<1>2. ASSUME NEW c \in Client, ApproveInsert(c) PROVE DbTypeOK' /\ GateTypeOK'
  BY <1>0, <1>2, RequestShape DEF ApproveInsert, DbTypeOK, GateTypeOK, Request, Approval
<1>3. ASSUME NEW c \in Client, NEW p \in Plan, RejectInsert(c, p) PROVE DbTypeOK' /\ GateTypeOK'
  BY <1>0, <1>3 DEF RejectInsert, Start, DbTypeOK, GateTypeOK, Request, Approval
<1>4. ASSUME NEW c \in Client, DecisionStatus(c) PROVE DbTypeOK' /\ GateTypeOK'
  BY <1>0, <1>4, RequestShape DEF DecisionStatus, End, DbTypeOK, GateTypeOK, Request, PlanStatus
<1>5. ASSUME NEW c \in Client, NEW p \in Plan, ResumeRead(c, p) PROVE DbTypeOK' /\ GateTypeOK'
  BY <1>0, <1>5 DEF ResumeRead, LatestExec, Start, DbTypeOK, GateTypeOK, Request
<1>6. ASSUME NEW c \in Client, NEW p \in Plan, AbortRead(c, p) PROVE DbTypeOK' /\ GateTypeOK'
  BY <1>0, <1>6 DEF AbortRead, LatestExec, Start, DbTypeOK, GateTypeOK, Request
<1>7. ASSUME NEW c \in Client, ResumeCommit(c) PROVE DbTypeOK' /\ GateTypeOK'
  BY <1>0, <1>7, RequestShape
     DEF ResumeCommit, Resolve, End, DbTypeOK, GateTypeOK, Request, ExecStatus, PlanStatus, Polled
<1>8. ASSUME NEW c \in Client, AbortCommit(c) PROVE DbTypeOK' /\ GateTypeOK'
  BY <1>0, <1>8, RequestShape
     DEF AbortCommit, Resolve, End, DbTypeOK, GateTypeOK, Request, ExecStatus, PlanStatus, Terminal
<1>9. ASSUME NEW c \in Client, NEW p \in Plan, NEW k \in Key, ExecuteRead(c, p, k)
      PROVE  DbTypeOK' /\ GateTypeOK'
  BY <1>0, <1>9 DEF ExecuteRead, Start, DbTypeOK, GateTypeOK, Request, Exec
<1>10. ASSUME NEW c \in Client, ExecuteCommit(c) PROVE DbTypeOK' /\ GateTypeOK'
  <2>1. /\ req[c].plan \in Plan /\ req[c].key \in AnyKey /\ req[c].exec \in Exec
        /\ InsertQueued(req[c].exec, req[c].plan, req[c].key)
    BY <1>0, <1>10, RequestShape DEF ExecuteCommit, AnyKey
  <2> QED
    BY <1>0, <1>10, <2>1, InsertType DEF ExecuteCommit, End, DbTypeOK, GateTypeOK, Request
<1>11. ASSUME NEW c \in Client, DropRequest(c) PROVE DbTypeOK' /\ GateTypeOK'
  BY <1>0, <1>11 DEF DropRequest, End, DbTypeOK, GateTypeOK, Request
<1>12. ASSUME NEW p \in Plan, Diagnose(p) PROVE DbTypeOK' /\ GateTypeOK'
  <2>1. CASE content[p] \notin AutoAllowed
    BY <1>0, <1>12, <2>1 DEF Diagnose, DbTypeOK, GateTypeOK, PlanStatus
  <2>2. CASE content[p] \in AutoAllowed
    <3>1. next \in Exec /\ p \in AnyKey
      BY <1>12, <2>2 DEF Diagnose, AnyKey
    <3>2. DbTypeOK'
      BY <1>0, <1>12, <2>2, <3>1, InsertType DEF Diagnose, DbTypeOK
    <3>3. GateTypeOK'
      BY <1>0, <1>12, <2>2, <3>1 DEF Diagnose, GateTypeOK, Exec
    <3> QED
      BY <3>2, <3>3
  <2> QED
    BY <2>1, <2>2
<1>13. ASSUME NEW p \in Plan, ExpireApproval(p) PROVE DbTypeOK' /\ GateTypeOK'
  BY <1>0, <1>13 DEF ExpireApproval, DbTypeOK, GateTypeOK, Approval
<1>14. ASSUME NEW k \in AnyKey, ExpireRecord(k) PROVE DbTypeOK' /\ GateTypeOK'
  BY <1>0, <1>14 DEF ExpireRecord, DbTypeOK, GateTypeOK
<1>15. ASSUME NEW p \in Plan, NEW v \in Content, EditPlan(p, v) PROVE DbTypeOK' /\ GateTypeOK'
  BY <1>0, <1>15 DEF EditPlan, DbTypeOK, GateTypeOK
<1> QED
  BY <1>e, <1>1, <1>2, <1>3, <1>4, <1>5, <1>6, <1>7, <1>8, <1>9, <1>10, <1>11, <1>12, <1>13,
     <1>14, <1>15 DEF GateNext, TypeOK

-----------------------------------------------------------------------------
(* The ways the Knowledge Agent changes its memory *)

\* In the middle of an execution, whichever it is.
LEMMA MidExecution ==
  ASSUME TypeInv, ~At("idle")
  PROVE  ka.cur \in Exec /\ plan \in Plan
  BY DEF TypeInv, TypeOK, DbTypeOK, ExecutorTypeOK, Memory, MemoryOK, plan

LEMMA GotoMemory ==
  ASSUME ExecutorTypeOK, NEW pc \in Pc, Goto(pc)
  PROVE  /\ ExecutorTypeOK'
         /\ ka'.pc = pc /\ ka'.cur = ka.cur /\ ka'.mem = ka.mem /\ ka'.sid = ka.sid
         /\ ka'.requeued = ka.requeued
         /\ ka'.job = ka.job /\ ka'.att = ka.att /\ ka'.out = ka.out /\ ka'.goal = ka.goal
  BY DEF Goto, ExecutorTypeOK, Memory

LEMMA SettleMemory ==
  ASSUME ExecutorTypeOK, NEW pc \in Pc, NEW s \in 1 .. NSteps + 1, Settle(pc, s)
  PROVE  /\ ExecutorTypeOK'
         /\ ka'.pc = pc /\ ka'.cur = ka.cur /\ ka'.mem = ka.mem /\ ka'.sid = s
         /\ ka'.requeued = ka.requeued
         /\ ka'.job = "none" /\ ka'.att = 0 /\ ka'.out = "none" /\ ka'.goal = ka.goal
<1>1. /\ "none" \in Job /\ "none" \in Outcome
      /\ 0 \in 0 .. MaxAttempts + 1 /\ 0 \in 0 .. MaxAttempts - 1
  BY PlanAssumption DEF Job, Outcome
<1> QED
  BY <1>1 DEF Settle, ExecutorTypeOK, Memory

LEMMA IdleType ==
  /\ Idle \in Memory
  /\ Idle.pc = "idle" /\ Idle.cur = 0 /\ Idle.mem = NoContent /\ Idle.sid = 1
  /\ Idle.job = "none" /\ Idle.goal = "none"
  BY PlanAssumption DEF Idle, Memory, Pc, Job, Outcome, Step

LEMMA FinishMemory ==
  ASSUME ExecutorTypeOK, NEW st \in Terminal \cup {"failed_retryable"}, FinishWith(st)
  PROVE  /\ ExecutorTypeOK'
         /\ ka'.pc = "finish_status" /\ ka'.cur = ka.cur /\ ka'.mem = NoContent
         /\ ka'.sid = 1 /\ ka'.job = "none" /\ ka'.goal = st
<1>1. "finish_status" \in Pc /\ ka.cur \in Exec \cup {0}
  BY DEF Pc, ExecutorTypeOK, Memory
<1> QED
  BY <1>1, IdleType DEF FinishWith, ExecutorTypeOK, Memory

LEMMA PauseMemory ==
  ASSUME ExecutorTypeOK, Pause
  PROVE  /\ ExecutorTypeOK'
         /\ ka'.pc = "pause_escalate" /\ ka'.cur = ka.cur /\ ka'.mem = NoContent
         /\ ka'.sid = 1 /\ ka'.job = "none" /\ ka'.goal = "none"
<1>1. "pause_escalate" \in Pc /\ ka.cur \in Exec \cup {0}
  BY DEF Pc, ExecutorTypeOK, Memory
<1> QED
  BY <1>1, IdleType DEF Pause, ExecutorTypeOK, Memory

LEMMA IdleMemory ==
  ASSUME ka' = Idle
  PROVE  /\ ExecutorTypeOK' /\ MemoryOK'
         /\ ka'.pc = "idle" /\ ka'.cur = 0 /\ ka'.mem = NoContent
         /\ ka'.sid = 1 /\ ka'.job = "none" /\ ka'.goal = "none"
  BY IdleType DEF ExecutorTypeOK, MemoryOK, At

LEMMA StartMemory ==
  ASSUME ExecutorTypeOK, NEW job \in Job \ {"none"}, NEW s \in 1 .. NSteps + 1, StartJob(job, s)
  PROVE  /\ ExecutorTypeOK'
         /\ ka'.pc \in {"acquire", "attempt"} /\ ka'.cur = ka.cur /\ ka'.mem = ka.mem
         /\ ka'.sid = s /\ ka'.job = job /\ ka'.att = 1 /\ ka'.goal = ka.goal
         /\ ka'.requeued = ka.requeued
         /\ ka'.att \in 1 .. JobAttempts(job, s)
<1>1. 1 \in 1 .. JobAttempts(job, s)
  BY AttemptsBound, PlanAssumption
<1>2. "none" \in Outcome /\ {"acquire", "attempt"} \subseteq Pc /\ 1 \in 0 .. MaxAttempts + 1
  BY PlanAssumption DEF Outcome, Pc
<1>3. PICK pc \in {"acquire", "attempt"} :
        ka' = [ka EXCEPT !.job = job, !.sid = s, !.att = 1, !.out = "none", !.pc = pc]
  BY DEF StartJob
<1> HIDE DEF Outcome, Pc
<1> QED
  BY <1>1, <1>2, <1>3 DEF ExecutorTypeOK, Memory

\* The writes of the Knowledge Agent keep the types of the tables.
LEMMA WriteType ==
  ASSUME TypeInv, ~At("idle")
  PROVE  /\ \A st \in ExecStatus : SetStatus(st) => status' \in [Exec -> ExecStatus]
         /\ \A st \in PlanStatus : SetPlanStatus(st) => planStatus' \in [Plan -> PlanStatus]
         /\ \A s \in Step, st \in StepStatus, r \in 0 .. MaxAttempts - 1 :
              SetRow(s, st, r) => rows' \in [Exec -> [Step -> StepRow]]
<1>1. ka.cur \in Exec /\ plan \in Plan
  BY MidExecution
<1>2. /\ status \in [Exec -> ExecStatus] /\ planStatus \in [Plan -> PlanStatus]
      /\ rows \in [Exec -> [Step -> StepRow]]
  BY DEF TypeInv, TypeOK, DbTypeOK
<1>3. ASSUME NEW s \in Step, NEW st \in StepStatus, NEW r \in 0 .. MaxAttempts - 1,
             SetRow(s, st, r)
      PROVE  rows' \in [Exec -> [Step -> StepRow]]
  <2>1. [st |-> st, retry |-> r] \in StepRow
    BY DEF StepRow
  <2> QED
    BY <1>1, <1>2, <1>3, <2>1 DEF SetRow
<1> QED
  BY <1>1, <1>2, <1>3 DEF SetStatus, SetPlanStatus

-----------------------------------------------------------------------------
(* The actions of the Knowledge Agent keep the types *)

LEMMA EffectType ==
  ASSUME TypeInv, ~At("idle"), Effect \/ UNCHANGED targetVars
  PROVE  applied' \in [Plan -> SUBSET Step] /\ baseline' \in [Plan -> SUBSET Step]
<1>1. plan \in Plan /\ (ka.job = "step" => ka.sid \in Step)
  BY MidExecution DEF TypeInv, MemoryOK
<1>2. applied \in [Plan -> SUBSET Step] /\ baseline \in [Plan -> SUBSET Step]
  BY DEF TypeInv, TypeOK, DbTypeOK
<1> HIDE DEF Step
<1> QED
  BY <1>1, <1>2 DEF Effect, targetVars

LEMMA ExecutorType ==
  ASSUME TypeInv, ExecutorNext, UNCHANGED gateVars
  PROVE  TypeInv'
<1> USE DEF dbVars, targetVars, historyVars, gateVars, gateTables
<1>0. /\ DbTypeOK /\ GateTypeOK /\ ExecutorTypeOK /\ MemoryOK
      /\ ka.cur \in Exec \cup {0} /\ ka.sid \in 1 .. NSteps + 1 /\ ka.job \in Job
      /\ ka.att \in 0 .. MaxAttempts + 1 /\ ka.pc \in Pc /\ ka.out \in Outcome
      /\ ka.old \in 0 .. MaxAttempts - 1
  BY DEF TypeInv, TypeOK, ExecutorTypeOK, Memory
<1>g. GateTypeOK'
  BY <1>0 DEF GateTypeOK
<1>i. ~At("idle") => ka.cur \in Exec /\ plan \in Plan
  BY MidExecution
<1>s. SUFFICES DbTypeOK' /\ ExecutorTypeOK' /\ MemoryOK'
  BY <1>g DEF TypeInv, TypeOK
<1>p. 1 \in 1 .. NSteps + 1 /\ Step \subseteq 1 .. NSteps + 1 /\ \A s \in Step : s + 1 \in 1 .. NSteps + 1
  BY PlanAssumption DEF Step
<1>q. {"fetch", "approval", "hash", "node", "recover", "loop",
       "acquire", "attempt", "call", "release", "after", "route",
       "final_plan", "done_status", "done_plan",
       "pause_escalate", "pause_status", "pause_plan", "finish_status", "finish_plan"} \subseteq Pc
  BY DEF Pc
<1>r. {"queued", "executing", "final_verifying", "final_verified", "paused_for_review"}
        \subseteq ExecStatus \cap PlanStatus
  BY DEF ExecStatus, PlanStatus, Polled, Terminal
<1>t. {"blocked", "kb_done"} \subseteq Terminal
  BY DEF Terminal
\* Most actions leave the tables as they are.
<1>d. UNCHANGED <<dbVars, targetVars, historyVars>> => DbTypeOK'
  BY <1>0 DEF DbTypeOK
<1>1. CASE Claim
  <2>1. PICK e \in Exec :
          /\ \/ status' = [status EXCEPT ![e] = "executing"]
                /\ planStatus' = [planStatus EXCEPT ![planOf[e]] = "executing"]
             \/ UNCHANGED <<status, planStatus>>
          /\ \E b \in BOOLEAN : ka' = [Idle EXCEPT !.pc = "fetch", !.cur = e, !.requeued = b]
    BY <1>1 DEF Claim
  <2>2. DbTypeOK'
    <3>1. status' \in [Exec -> ExecStatus] /\ planStatus' \in [Plan -> PlanStatus]
      <4>1. "executing" \in ExecStatus /\ "executing" \in PlanStatus
        BY <1>r
      <4>2. status \in [Exec -> ExecStatus] /\ planStatus \in [Plan -> PlanStatus]
        BY <1>0 DEF DbTypeOK
      <4> QED
        BY <2>1, <4>1, <4>2
    <3> QED
      BY <1>0, <1>1, <3>1 DEF Claim, DbTypeOK
  <2>3. ExecutorTypeOK' /\ ka'.pc = "fetch" /\ ka'.cur = e /\ ka'.job = "none"
    BY <2>1, <1>q, IdleType DEF ExecutorTypeOK, Memory
  <2>4. MemoryOK'
    BY <2>3 DEF MemoryOK, At, Exec
  <2> QED
    BY <2>2, <2>3, <2>4
<1>2. CASE FetchPlan
  <2>1. CASE FinishWith("blocked")
    BY <1>0, <1>2, <2>1, <1>d, <1>i, <1>t, FinishMemory DEF FetchPlan, MemoryOK, At, Terminal
  <2>2. CASE ka' = [ka EXCEPT !.mem = content[plan], !.pc = "approval"]
    <3>1. content[plan] \in Content
      BY <1>0, <1>2, <1>i DEF FetchPlan, DbTypeOK, At
    <3>2. ExecutorTypeOK' /\ ka'.pc = "approval" /\ ka'.cur = ka.cur /\ ka'.job = ka.job /\ ka'.sid = ka.sid
      BY <1>0, <2>2, <3>1, <1>q DEF ExecutorTypeOK, Memory
    <3> QED
      BY <1>0, <1>2, <1>d, <3>2 DEF FetchPlan, MemoryOK, At
  <2> QED
    BY <1>2, <2>1, <2>2 DEF FetchPlan
<1>3. CASE CheckApproval
  <2>1. CASE FinishWith("blocked")
    BY <1>0, <1>3, <2>1, <1>d, <1>t, FinishMemory DEF CheckApproval, MemoryOK, At, Terminal
  <2>2. CASE Goto("hash")
    BY <1>0, <1>3, <2>2, <1>d, <1>q, GotoMemory DEF CheckApproval, MemoryOK, At
  <2> QED
    BY <1>3, <2>1, <2>2 DEF CheckApproval
<1>4. CASE CheckHash
  <2>1. CASE Pause
    BY <1>0, <1>4, <2>1, <1>d, PauseMemory DEF CheckHash, MemoryOK, At
  <2>2. CASE Goto("node")
    BY <1>0, <1>4, <2>2, <1>d, <1>q, GotoMemory DEF CheckHash, MemoryOK, At
  <2> QED
    BY <1>4, <2>1, <2>2 DEF CheckHash
<1>5. CASE LoadNode
  <2>1. CASE FinishWith("blocked") \/ FinishWith("failed_retryable")
    BY <1>0, <1>5, <2>1, <1>d, <1>t, FinishMemory DEF LoadNode, MemoryOK, At, Terminal
  <2>2. CASE Goto("recover")
    BY <1>0, <1>5, <2>2, <1>d, <1>q, GotoMemory DEF LoadNode, MemoryOK, At
  <2>3. CASE StartJob("snapshot", 1)
    <3>1. "snapshot" \in Job \ {"none"}
      BY DEF Job
    <3> QED
      BY <1>0, <1>5, <2>3, <3>1, <1>d, <1>p, StartMemory DEF LoadNode, MemoryOK, At
  <2> QED
    BY <1>5, <2>1, <2>2, <2>3 DEF LoadNode
<1>6. CASE AcquireLock
  <2>1. CASE lock' = ka.cur /\ Goto("attempt")
    BY <1>0, <1>6, <1>i, <2>1, <1>q, GotoMemory DEF AcquireLock, DbTypeOK, MemoryOK, At
  <2>2. CASE UNCHANGED lock /\ ka' = [ka EXCEPT !.out = "node_locked", !.pc = "after"]
    <3>1. /\ ExecutorTypeOK' /\ ka'.pc = "after" /\ ka'.cur = ka.cur
          /\ ka'.job = ka.job /\ ka'.sid = ka.sid /\ ka'.att = ka.att
      BY <1>0, <2>2, <1>q DEF ExecutorTypeOK, Memory, Outcome
    <3>2. DbTypeOK'
      BY <1>0, <1>6, <2>2 DEF AcquireLock, DbTypeOK
    <3> QED
      BY <1>0, <1>6, <3>1, <3>2 DEF AcquireLock, MemoryOK, At
  <2> QED
    BY <1>6, <2>1, <2>2 DEF AcquireLock
<1>7. CASE StartAttempt
  <2>1. ExecutorTypeOK' /\ MemoryOK'
    BY <1>0, <1>7, <1>q, GotoMemory DEF StartAttempt, MemoryOK, At
  <2>2. rows' \in [Exec -> [Step -> StepRow]]
    <3>1. CASE Recorded(ka.job)
      <4>1. ka.sid \in Step /\ ka.att - 1 \in 0 .. MaxAttempts - 1
        BY <1>0, <1>7, <3>1, AttemptsBound, PlanAssumption DEF StartAttempt, MemoryOK, At, Recorded
      <4>2. "step_running" \in StepStatus
        BY DEF StepStatus
      <4> QED
        BY <1>7, <3>1, <4>1, <4>2, WriteType DEF StartAttempt, At
    <3>2. CASE ~Recorded(ka.job)
      BY <1>0, <1>7, <3>2 DEF StartAttempt, DbTypeOK
    <3> QED
      BY <3>1, <3>2
  <2> QED
    BY <1>0, <1>7, <2>1, <2>2 DEF StartAttempt, DbTypeOK
<1>8. CASE AgentReply
  <2>1. PICK out \in Outcome \ {"none", "node_locked"} :
          /\ Effect \/ UNCHANGED targetVars
          /\ \/ /\ ka.att < JobAttempts(ka.job, ka.sid)
                /\ ka' = [ka EXCEPT !.att = @ + 1, !.pc = "attempt"]
             \/ \E pc \in {"release", "after"} : ka' = [ka EXCEPT !.out = out, !.pc = pc]
    BY <1>8 DEF AgentReply, Answer, ProbeAnswer
  <2>2. DbTypeOK'
    BY <1>0, <1>8, <2>1, EffectType DEF AgentReply, DbTypeOK, At
  <2>3. /\ ka.job # "none" /\ ka.att \in 1 .. JobAttempts(ka.job, ka.sid) /\ ka.cur # 0
        /\ JobAttempts(ka.job, ka.sid) \in 1 .. MaxAttempts + 1
    BY <1>0, <1>8, AttemptsBound DEF AgentReply, MemoryOK, At
  <2>4. /\ ExecutorTypeOK' /\ ka'.pc \in {"attempt", "release", "after"} /\ ka'.cur = ka.cur
        /\ ka'.job = ka.job /\ ka'.sid = ka.sid /\ ka'.att \in 1 .. JobAttempts(ka.job, ka.sid)
    <3>1. CASE ka.att < JobAttempts(ka.job, ka.sid) /\ ka' = [ka EXCEPT !.att = @ + 1, !.pc = "attempt"]
      <4>1. /\ ka.att + 1 \in 0 .. MaxAttempts + 1
            /\ ka.att + 1 \in 1 .. JobAttempts(ka.job, ka.sid)
        BY <2>3, <3>1, PlanAssumption
      <4> QED
        BY <1>0, <1>q, <3>1, <4>1 DEF ExecutorTypeOK, Memory
    <3>2. CASE \E pc \in {"release", "after"} : ka' = [ka EXCEPT !.out = out, !.pc = pc]
      <4>1. PICK pc \in {"release", "after"} : ka' = [ka EXCEPT !.out = out, !.pc = pc]
        BY <3>2
      <4>2. out \in Outcome /\ pc \in Pc /\ ka \in Memory
        BY <1>0, <1>q DEF ExecutorTypeOK
      <4> QED
        BY <2>3, <4>1, <4>2 DEF ExecutorTypeOK, Memory
    <3> QED
      BY <2>1, <3>1, <3>2
  <2>5. MemoryOK'
    BY <1>0, <2>3, <2>4 DEF MemoryOK, At
  <2> QED
    BY <2>2, <2>4, <2>5
<1>9. CASE ReleaseLock
  BY <1>0, <1>9, <1>q, GotoMemory DEF ReleaseLock, DbTypeOK, MemoryOK, At
<1>10. CASE AfterSnapshot
  <2>1. CASE Settle("recover", 1)
    BY <1>0, <1>10, <2>1, <1>d, <1>p, <1>q, SettleMemory DEF AfterSnapshot, MemoryOK, At
  <2>2. CASE Pause
    BY <1>0, <1>10, <2>2, <1>d, PauseMemory DEF AfterSnapshot, MemoryOK, At
  <2>3. CASE FinishWith("blocked")
    BY <1>0, <1>10, <2>3, <1>d, <1>t, FinishMemory DEF AfterSnapshot, MemoryOK, At, Terminal
  <2> QED
    BY <1>10, <2>1, <2>2, <2>3 DEF AfterSnapshot
<1>11. CASE Recover
  <2>1. CASE Goto("loop")
    BY <1>0, <1>11, <2>1, <1>d, <1>q, GotoMemory DEF Recover, MemoryOK, At
  <2>2. CASE ka.sid \in Step /\ Settle("recover", ka.sid + 1)
    BY <1>0, <1>11, <2>2, <1>d, <1>p, <1>q, SettleMemory DEF Recover, MemoryOK, At
  <2>3. CASE /\ ka.sid \in Step
             /\ ka' = [ka EXCEPT !.job = "recover", !.att = 1, !.out = "none",
                                 !.old = rows[ka.cur][ka.sid].retry, !.pc = "attempt"]
    <3>1. rows[ka.cur][ka.sid].retry \in 0 .. MaxAttempts - 1
      <4>1. rows[ka.cur][ka.sid] \in StepRow
        BY <1>0, <1>11, <1>i, <2>3 DEF Recover, DbTypeOK, At
      <4> QED
        BY <4>1 DEF StepRow
    <3>2. 1 \in 0 .. MaxAttempts + 1 /\ "recover" \in Job /\ "none" \in Outcome
      BY PlanAssumption DEF Job, Outcome
    <3>3. /\ ExecutorTypeOK' /\ ka'.pc = "attempt" /\ ka'.cur = ka.cur
          /\ ka'.job = "recover" /\ ka'.sid = ka.sid /\ ka'.att = 1
      <4>1. PICK r \in 0 .. MaxAttempts - 1 :
              ka' = [ka EXCEPT !.job = "recover", !.att = 1, !.out = "none",
                               !.old = r, !.pc = "attempt"]
        BY <2>3, <3>1
      <4>2. ka \in Memory /\ "attempt" \in Pc
        BY <1>0, <1>q DEF ExecutorTypeOK
      <4> QED
        BY <3>2, <4>1, <4>2 DEF ExecutorTypeOK, Memory
    <3>4. 1 \in 1 .. JobAttempts("recover", ka.sid)
      BY <1>0, <3>2, AttemptsBound
    <3> QED
      BY <1>0, <1>11, <1>d, <2>3, <3>3, <3>4 DEF Recover, MemoryOK, At
  <2> QED
    BY <1>11, <2>1, <2>2, <2>3 DEF Recover
<1>12. CASE AfterRecover
  <2>0. ~At("idle") /\ ka.sid \in Step
    BY <1>0, <1>12 DEF AfterRecover, MemoryOK, At
  <2>1. CASE ka.out = "match"
    <3>1. rows' \in [Exec -> [Step -> StepRow]]
      BY <1>12, <2>0, <2>1, WriteType, PlanAssumption DEF AfterRecover, StepStatus
    <3>2. DbTypeOK'
      BY <1>0, <1>12, <3>1 DEF AfterRecover, DbTypeOK
    <3> QED
      BY <1>0, <1>12, <1>p, <1>q, <2>0, <2>1, <3>2, SettleMemory DEF AfterRecover, MemoryOK, At
  <2>2. CASE ka.out # "match"
    <3>1. DbTypeOK'
      BY <1>0, <1>12, <2>2 DEF AfterRecover, DbTypeOK
    <3>2. CASE Settle("loop", ka.sid)
      BY <1>0, <1>12, <1>p, <1>q, <2>0, <3>1, <3>2, SettleMemory DEF MemoryOK, At
    <3>3. CASE Pause
      BY <1>0, <1>12, <2>0, <3>1, <3>3, PauseMemory DEF MemoryOK, At
    <3> QED
      BY <1>12, <2>2, <3>2, <3>3 DEF AfterRecover
  <2> QED
    BY <2>1, <2>2
<1>13. CASE NextStep
  <2>1. "step" \in Job \ {"none"}
    BY DEF Job
  <2> QED
    BY <1>0, <1>13, <1>d, <1>p, <2>1, StartMemory DEF NextStep, MemoryOK, At
<1>14. CASE AfterStep
  <2>0. ~At("idle") /\ ka.sid \in Step
    BY <1>0, <1>14 DEF AfterStep, MemoryOK, At
  <2>1. CASE StartJob("verify", ka.sid) /\ UNCHANGED rows
    <3>1. "verify" \in Job \ {"none"}
      BY DEF Job
    <3>2. DbTypeOK'
      BY <1>0, <1>14, <2>1 DEF AfterStep, DbTypeOK
    <3> QED
      BY <1>0, <1>14, <2>0, <2>1, <3>1, <3>2, StartMemory DEF AfterStep, MemoryOK, At
  <2>2. CASE \E st \in StepFailed : SetRow(ka.sid, st, 0) /\ Goto("route")
    <3>1. rows' \in [Exec -> [Step -> StepRow]]
      BY <2>0, <2>2, WriteType, PlanAssumption DEF StepStatus, StepFailed
    <3>2. DbTypeOK'
      BY <1>0, <1>14, <3>1 DEF AfterStep, DbTypeOK
    <3> QED
      BY <1>0, <1>14, <1>q, <2>0, <2>2, <3>2, GotoMemory DEF AfterStep, MemoryOK, At
  <2> QED
    BY <1>14, <2>1, <2>2 DEF AfterStep, StepFailed
<1>15. CASE AfterVerify
  <2>0. ~At("idle") /\ ka.sid \in Step
    BY <1>0, <1>15 DEF AfterVerify, MemoryOK, At
  <2>1. \E st \in StepStatus : SetRow(ka.sid, st, 0)
    BY <1>15 DEF AfterVerify, StepStatus
  <2>2. rows' \in [Exec -> [Step -> StepRow]]
    BY <2>0, <2>1, WriteType, PlanAssumption
  <2>3. DbTypeOK'
    BY <1>0, <1>15, <2>2 DEF AfterVerify, DbTypeOK
  <2>4. CASE Settle("loop", ka.sid + 1)
    BY <1>0, <1>p, <1>q, <2>0, <2>3, <2>4, SettleMemory DEF MemoryOK, At
  <2>5. CASE Goto("route")
    BY <1>0, <1>15, <1>q, <2>0, <2>3, <2>5, GotoMemory DEF AfterVerify, MemoryOK, At
  <2> QED
    BY <1>15, <2>4, <2>5 DEF AfterVerify
<1>16. CASE RouteFailure
  <2>0. ~At("idle") /\ ka.job \in {"step", "verify"} /\ ka.sid \in Step
    BY <1>0, <1>16 DEF RouteFailure, MemoryOK, At
  <2>1. CASE StartJob("rollback", ka.sid)
    <3>1. "rollback" \in Job \ {"none"}
      BY DEF Job
    <3> QED
      BY <1>0, <1>16, <1>d, <2>0, <2>1, <3>1, StartMemory DEF RouteFailure, MemoryOK, At
  <2>2. CASE Pause
    BY <1>0, <1>16, <1>d, <2>2, PauseMemory DEF RouteFailure, MemoryOK, At
  <2>3. CASE FinishWith("blocked")
    BY <1>0, <1>16, <1>d, <1>t, <2>3, FinishMemory DEF RouteFailure, MemoryOK, At, Terminal
  <2> QED
    BY <1>16, <2>1, <2>2, <2>3 DEF RouteFailure
<1>17. CASE AfterRollback
  BY <1>0, <1>17, <1>d, PauseMemory DEF AfterRollback, MemoryOK, At
<1>18. CASE EnterFinal
  <2>1. DbTypeOK'
    BY <1>0, <1>18, <1>r, WriteType DEF EnterFinal, DbTypeOK, At
  <2>2. /\ ExecutorTypeOK' /\ ka'.pc = "final_plan" /\ ka'.cur = ka.cur
        /\ ka'.job = "none" /\ ka'.sid = ka.sid
    <3>1. ka \in Memory /\ "final_plan" \in Pc
      BY <1>0, <1>q DEF ExecutorTypeOK
    <3> QED
      BY <1>18, <3>1, IdleType DEF EnterFinal, ExecutorTypeOK, Memory
  <2> QED
    BY <1>0, <1>18, <2>1, <2>2 DEF EnterFinal, MemoryOK, At
<1>19. CASE FinalPlan
  <2>1. DbTypeOK'
    BY <1>0, <1>19, <1>r, WriteType DEF FinalPlan, DbTypeOK, At
  <2>2. "final" \in Job \ {"none"}
    BY DEF Job
  <2> QED
    BY <1>0, <1>19, <2>1, <2>2, StartMemory DEF FinalPlan, MemoryOK, At
<1>20. CASE AfterFinal
  <2>1. CASE ka' = [Idle EXCEPT !.pc = "done_status", !.cur = ka.cur]
    <3>1. "done_status" \in Pc /\ ka.cur \in Exec \cup {0}
      BY <1>0, <1>q
    <3>2. ExecutorTypeOK' /\ ka'.pc = "done_status" /\ ka'.cur = ka.cur /\ ka'.job = "none"
      BY <2>1, <3>1, IdleType DEF ExecutorTypeOK, Memory
    <3> QED
      BY <1>0, <1>20, <1>d, <3>2 DEF AfterFinal, MemoryOK, At
  <2>2. CASE Pause
    BY <1>0, <1>20, <1>d, <2>2, PauseMemory DEF AfterFinal, MemoryOK, At
  <2> QED
    BY <1>20, <2>1, <2>2 DEF AfterFinal
<1>21. CASE DoneStatus
  <2>1. DbTypeOK'
    BY <1>0, <1>21, <1>r, WriteType DEF DoneStatus, DbTypeOK, At
  <2> QED
    BY <1>0, <1>21, <1>q, <2>1, GotoMemory DEF DoneStatus, MemoryOK, At
<1>22. CASE DonePlan
  <2>1. DbTypeOK'
    BY <1>0, <1>22, <1>r, WriteType DEF DonePlan, DbTypeOK, At
  <2> QED
    BY <1>0, <1>22, <1>t, <2>1, FinishMemory DEF DonePlan, MemoryOK, At
<1>23. CASE PauseEscalate
  <2>1. DbTypeOK'
    BY <1>0, <1>23, <1>i DEF PauseEscalate, DbTypeOK, At
  <2> QED
    BY <1>0, <1>23, <1>q, <2>1, GotoMemory DEF PauseEscalate, MemoryOK, At
<1>24. CASE PauseStatus
  <2>1. DbTypeOK'
    BY <1>0, <1>24, <1>r, WriteType DEF PauseStatus, DbTypeOK, At
  <2> QED
    BY <1>0, <1>24, <1>q, <2>1, GotoMemory DEF PauseStatus, MemoryOK, At
<1>25. CASE PausePlan
  <2>1. DbTypeOK'
    BY <1>0, <1>25, <1>r, WriteType DEF PausePlan, DbTypeOK, At
  <2> QED
    BY <1>25, <2>1, IdleMemory DEF PausePlan
<1>26. CASE FinishStatus
  <2>0. ka.goal \in ExecStatus
    BY <1>0 DEF ExecutorTypeOK, Memory, ExecStatus
  <2>1. DbTypeOK'
    BY <1>0, <1>26, <2>0, WriteType DEF FinishStatus, DbTypeOK, At
  <2> QED
    BY <1>0, <1>26, <1>q, <2>1, GotoMemory DEF FinishStatus, MemoryOK, At
<1>27. CASE FinishPlan
  <2>0. ka.goal \in PlanStatus
    BY <1>0 DEF ExecutorTypeOK, Memory, ExecStatus, PlanStatus
  <2>1. DbTypeOK'
    BY <1>0, <1>27, <2>0, WriteType DEF FinishPlan, DbTypeOK, At
  <2> QED
    BY <1>27, <2>1, IdleMemory DEF FinishPlan
<1>28. CASE Crash \/ Unwind
  <2>1. applied' \in [Plan -> SUBSET Step] /\ baseline' \in [Plan -> SUBSET Step]
    BY <1>28, EffectType DEF Crash, Unwind, InFlight, At
  <2>2. lock' \in Exec \cup {0}
    BY <1>0, <1>28 DEF Crash, Unwind, DbTypeOK
  <2>3. DbTypeOK'
    BY <1>0, <1>28, <2>1, <2>2 DEF Crash, Unwind, DbTypeOK
  <2> QED
    BY <1>28, <2>3, IdleMemory DEF Crash, Unwind
<1>29. CASE ExpireLock
  BY <1>0, <1>29 DEF ExpireLock, DbTypeOK, ExecutorTypeOK, MemoryOK, At
<1> QED
  BY <1>1, <1>2, <1>3, <1>4, <1>5, <1>6, <1>7, <1>8, <1>9, <1>10, <1>11, <1>12, <1>13, <1>14,
     <1>15, <1>16, <1>17, <1>18, <1>19, <1>20, <1>21, <1>22, <1>23, <1>24, <1>25, <1>26, <1>27,
     <1>28, <1>29 DEF ExecutorNext, Work

\* The invariant behind TypeCorrect, which the other proofs build on.
THEOREM TypeInvariant == Spec => []TypeInv
<1>1. TypeInv /\ [Next]_vars => TypeInv'
  <2> SUFFICES ASSUME TypeInv, [Next]_vars PROVE TypeInv'
    OBVIOUS
  <2>1. CASE GateNext /\ UNCHANGED <<ka, targetVars>>
    <3>1. MemoryOK'
      BY <2>1 DEF TypeInv, MemoryOK, At
    <3> QED
      BY <2>1, <3>1, GateType DEF TypeInv
  <2>2. CASE ExecutorNext /\ UNCHANGED gateVars
    BY <2>2, ExecutorType
  <2>3. CASE UNCHANGED vars
    BY <2>3 DEF vars, dbVars, targetVars, historyVars, gateVars, TypeInv, TypeOK, DbTypeOK,
                GateTypeOK, ExecutorTypeOK, MemoryOK, At
  <2> QED
    BY <2>1, <2>2, <2>3 DEF Next
<1> QED
  BY <1>1, InitType, PTL DEF Spec

\* Every row, request and variable of the Knowledge Agent keeps its range; in
\* particular no step is recorded with as many retries as it has attempts.
THEOREM TypeCorrect == Spec => []TypeOK
<1>1. TypeInv => TypeOK
  BY DEF TypeInv
<1> QED
  BY <1>1, TypeInvariant, PTL
=============================================================================
