---------------------------- MODULE Consent_proofs ----------------------------
(***************************************************************************)
(* Consent, for every number of plans, contents, executions, steps and     *)
(* requests: what the Knowledge Agent executes was approved by a human, or *)
(* may run by itself.  The argument has two halves.  A plan that was ever  *)
(* approved keeps the hash of its last approval, which CheckHash compares  *)
(* with the plan in the agent's hands.  And the execution it works on stays *)
(* an execution of that plan, because an execution number is handed out    *)
(* once.                                                                   *)
(***************************************************************************)
EXTENDS Repair_proofs

\* An execution number belongs to at most one request, until it has a row.
Reserved ==
  /\ \A e \in Exec : e >= next => status[e] = "none"
  /\ \A c \in Client : req[c].op = "execute" => req[c].exec < next /\ status[req[c].exec] = "none"
  /\ \A c, d \in Client : req[c].op = "execute" /\ req[d].op = "execute" /\ c # d =>
       req[c].exec # req[d].exec
  /\ \A c \in Client : req[c].op \in {"resume", "abort"} => status[req[c].exec] # "none"
  /\ ka.cur # 0 => status[ka.cur] # "none"

\* What is approved has a hash on record, of a content that was approved.
Granted ==
  /\ \A p \in Plan : approval[p].decision = "approved" => grant[p] # NoContent
  /\ \A p \in Plan : grant[p] # NoContent => grant[p] \in granted[p]

\* Past the approval check, the hash check has something to compare with.
Checked == At("hash") => ka.mem \in AutoAllowed \/ grant[plan] # NoContent

ClearPc == {"node", "recover", "loop", "acquire", "attempt", "call", "release",
            "after", "route", "final_plan"}

ConsentInv == Reserved /\ Granted /\ Checked /\ Consent

LEMMA InitConsent == Init => ConsentInv
<1> SUFFICES ASSUME Init PROVE ConsentInv
  OBVIOUS
<1>1. ka.cur = 0 /\ ka.pc = "idle"
  BY IdleType DEF Init, ExecutorInit
<1>2. Reserved
  BY <1>1 DEF Reserved, Init, DbInit, GateInit, NoRequest
<1>3. Granted
  BY DEF Granted, Init, DbInit
<1> QED
  BY <1>1, <1>2, <1>3 DEF ConsentInv, Checked, Consent, Cleared, At

-----------------------------------------------------------------------------
(* The Knowledge Agent *)

\* It becomes cleared by its checks only, and then keeps what it checked.
LEMMA AgentMemory ==
  ASSUME TypeInv, ExecutorNext
  PROVE  /\ Claim \/ ka'.cur \in {0, ka.cur}
         /\ \/ ka'.pc \notin ClearPc \cup {"hash"}
            \/ /\ ka'.cur = ka.cur /\ ka'.mem = ka.mem
               /\ \/ ka.pc \in ClearPc
                  \/ CheckApproval /\ ka'.pc = "hash"
                  \/ CheckHash /\ ka'.pc = "node"
                  \/ ka'.pc = ka.pc
               /\ ka'.pc = "hash" => CheckApproval \/ ka.pc = "hash"
<1>0. ExecutorTypeOK /\ ka \in Memory /\ ka.sid \in 1 .. NSteps + 1
  BY DEF TypeInv, TypeOK, ExecutorTypeOK, Memory
<1>p. 1 \in 1 .. NSteps + 1 /\ \A s \in Step : s \in 1 .. NSteps + 1 /\ s + 1 \in 1 .. NSteps + 1
  BY PlanAssumption DEF Step
<1>s. ka.pc = "after" /\ ka.job \in {"step", "verify", "recover", "rollback"} => ka.sid \in Step
  BY DEF TypeInv, MemoryOK
<1>q. /\ {"hash", "node", "recover", "loop", "attempt", "call", "after", "route"} \subseteq Pc
      /\ {"done_plan", "pause_status", "pause_plan", "finish_plan"} \subseteq Pc
  BY DEF Pc
<1>j. {"snapshot", "step", "verify", "recover", "rollback", "final"} \subseteq Job \ {"none"}
  BY DEF Job
<1>c. ClearPc \cap {"idle", "fetch", "approval", "hash", "done_status", "done_plan",
                    "pause_escalate", "pause_status", "pause_plan",
                    "finish_status", "finish_plan"} = {}
      /\ {"acquire", "attempt", "call", "after", "release", "route", "node", "recover", "loop",
          "final_plan"} \subseteq ClearPc
  BY DEF ClearPc
<1>t. {"blocked", "failed_retryable", "kb_done"} \subseteq Terminal \cup {"failed_retryable"}
  BY DEF Terminal
<1>a. CASE Pause \/ ka' = Idle \/ \E st \in {"blocked", "failed_retryable", "kb_done"} : FinishWith(st)
  BY <1>0, <1>a, <1>c, <1>t, PauseMemory, FinishMemory, IdleMemory
<1>1. CASE Claim
  <2>1. ka'.pc = "fetch"
    BY <1>1, IdleType DEF Claim, Memory
  <2> QED
    BY <1>1, <1>c, <2>1
<1>2. CASE FetchPlan
  <2>1. CASE ka' = [ka EXCEPT !.mem = content[plan], !.pc = "approval"]
    <3>1. ka'.pc = "approval" /\ ka'.cur = ka.cur
      BY <1>0, <2>1 DEF Memory
    <3> QED
      BY <1>c, <3>1
  <2> QED
    BY <1>2, <1>a, <2>1 DEF FetchPlan
<1>3. CASE CheckApproval
  BY <1>0, <1>3, <1>a, <1>q, GotoMemory DEF CheckApproval
<1>4. CASE CheckHash
  BY <1>0, <1>4, <1>a, <1>q, GotoMemory DEF CheckHash
<1>5. CASE LoadNode
  <2>1. CASE Goto("recover") \/ StartJob("snapshot", 1)
    <3>1. ka'.cur = ka.cur /\ ka'.mem = ka.mem /\ ka'.pc # "hash"
      BY <1>0, <1>p, <1>q, <1>j, <2>1, GotoMemory, StartMemory
    <3> QED
      BY <1>5, <1>c, <3>1 DEF LoadNode, At
  <2> QED
    BY <1>5, <1>a, <2>1 DEF LoadNode
<1>6. CASE AcquireLock \/ ReleaseLock \/ StartAttempt \/ AgentReply
  <2>1. ka.pc \in ClearPc /\ ka'.cur = ka.cur /\ ka'.mem = ka.mem /\ ka'.pc # "hash"
    <3>1. ka.pc \in ClearPc
      BY <1>6, <1>c DEF AcquireLock, ReleaseLock, StartAttempt, AgentReply, At
    <3>2. CASE AcquireLock \/ ReleaseLock \/ StartAttempt
      BY <1>0, <1>q, <3>1, <3>2, GotoMemory
         DEF AcquireLock, ReleaseLock, StartAttempt, ExecutorTypeOK, Memory
    <3>3. CASE AgentReply
      BY <1>0, <3>1, <3>3 DEF AgentReply, Memory
    <3> QED
      BY <1>6, <3>2, <3>3
  <2> QED
    BY <2>1
<1>7. CASE AfterSnapshot \/ AfterRecover \/ AfterVerify
  <2>1. CASE \/ \E s \in 1 .. NSteps + 1 : Settle("recover", s) \/ Settle("loop", s)
             \/ Goto("route")
    <3>1. ka'.cur = ka.cur /\ ka'.mem = ka.mem /\ ka'.pc # "hash"
      BY <1>0, <1>q, <2>1, SettleMemory, GotoMemory
    <3> QED
      BY <1>7, <1>c, <3>1 DEF AfterSnapshot, AfterRecover, AfterVerify, At
  <2> QED
    BY <1>0, <1>7, <1>a, <1>p, <1>s, <2>1 DEF AfterSnapshot, AfterRecover, AfterVerify, At
<1>8. CASE Recover
  <2>1. CASE Goto("loop") \/ \E s \in 1 .. NSteps + 1 : Settle("recover", s)
    <3>1. ka'.cur = ka.cur /\ ka'.mem = ka.mem /\ ka'.pc # "hash"
      BY <1>0, <1>q, <2>1, SettleMemory, GotoMemory
    <3> QED
      BY <1>8, <1>c, <3>1 DEF Recover, At
  <2>2. CASE ka' = [ka EXCEPT !.job = "recover", !.att = 1, !.out = "none",
                              !.old = rows[ka.cur][ka.sid].retry, !.pc = "attempt"]
    <3>1. ka'.cur = ka.cur /\ ka'.mem = ka.mem /\ ka'.pc # "hash"
      BY <1>0, <2>2 DEF Memory
    <3> QED
      BY <1>8, <1>c, <3>1 DEF Recover, At
  <2> QED
    BY <1>8, <1>p, <2>1, <2>2 DEF Recover
<1>9. CASE NextStep \/ AfterStep \/ RouteFailure \/ FinalPlan
  <2>1. CASE \/ \E job \in Job \ {"none"} : StartJob(job, ka.sid)
             \/ Goto("route")
    <3>1. ka'.cur = ka.cur /\ ka'.mem = ka.mem /\ ka'.pc # "hash"
      BY <1>0, <1>q, <2>1, StartMemory, GotoMemory
    <3> QED
      BY <1>9, <1>c, <3>1 DEF NextStep, AfterStep, RouteFailure, FinalPlan, At
  <2> QED
    BY <1>9, <1>a, <1>j, <2>1 DEF NextStep, AfterStep, RouteFailure, FinalPlan
<1>10. CASE EnterFinal
  <2>1. ka'.cur = ka.cur /\ ka'.mem = ka.mem /\ ka'.pc = "final_plan"
    BY <1>0, <1>10, IdleType DEF EnterFinal, Memory
  <2> QED
    BY <1>10, <1>c, <2>1 DEF EnterFinal, At
<1>11. CASE AfterFinal
  <2>1. CASE ka' = [Idle EXCEPT !.pc = "done_status", !.cur = ka.cur]
    <3>1. ka'.pc = "done_status" /\ ka'.cur = ka.cur
      BY <2>1, IdleType DEF Memory
    <3> QED
      BY <1>c, <3>1
  <2> QED
    BY <1>11, <1>a, <2>1 DEF AfterFinal
<1>12. CASE DoneStatus \/ PauseEscalate \/ PauseStatus \/ FinishStatus
  <2>1. /\ ka'.pc \in {"done_plan", "pause_status", "pause_plan", "finish_plan"}
        /\ ka'.cur = ka.cur
    BY <1>0, <1>12, <1>q, GotoMemory DEF DoneStatus, PauseEscalate, PauseStatus, FinishStatus
  <2> QED
    BY <1>c, <2>1
<1>13. CASE DonePlan \/ PausePlan \/ FinishPlan \/ AfterRollback \/ Crash \/ Unwind
  BY <1>13, <1>a DEF DonePlan, PausePlan, FinishPlan, AfterRollback, Crash, Unwind
<1>14. CASE ExpireLock
  BY <1>14 DEF ExpireLock
<1> QED
  BY <1>1, <1>2, <1>3, <1>4, <1>5, <1>6, <1>7, <1>8, <1>9, <1>10, <1>11, <1>12, <1>13, <1>14
     DEF ExecutorNext, Work

\* It moves only executions that are there, and only ever works on one of them.
LEMMA AgentTables ==
  ASSUME TypeInv, Reserved, ExecutorNext, UNCHANGED gateVars
  PROVE  /\ UNCHANGED <<approval, grant, granted, planOf, record, born>>
         /\ Reserved'
<1> USE DEF dbVars, historyVars, gateTables, targetVars
<1>1. UNCHANGED <<approval, grant, granted, planOf, record, born>>
  BY DEF ExecutorNext, Work, Claim, FetchPlan, CheckApproval, CheckHash, LoadNode, AcquireLock,
         StartAttempt, AgentReply, ReleaseLock, AfterSnapshot, Recover, AfterRecover, NextStep,
         AfterStep, AfterVerify, RouteFailure, AfterRollback, EnterFinal, FinalPlan, AfterFinal,
         DoneStatus, DonePlan, PauseEscalate, PauseStatus, PausePlan, FinishStatus, FinishPlan,
         Crash, Unwind, ExpireLock
<1>2. status \in [Exec -> ExecStatus] /\ ka \in Memory
  BY DEF TypeInv, TypeOK, DbTypeOK, ExecutorTypeOK
<1>3. /\ \A e \in Exec : status'[e] = "none" <=> status[e] = "none"
      /\ ka'.cur # 0 => status'[ka'.cur] # "none"
  <2>1. CASE Claim
    <3>1. PICK e \in Exec :
            /\ status[e] # "none"
            /\ status' = [status EXCEPT ![e] = "executing"] \/ status' = status
            /\ ka' = [Idle EXCEPT !.pc = "fetch", !.cur = e, !.requeued = (status[e] = "queued")]
      BY <2>1 DEF Claim, Polled
    <3>2. ka'.cur = e
      BY <3>1, IdleType DEF Memory
    <3> QED
      BY <1>2, <3>1, <3>2
  <2>2. CASE EnterFinal \/ DoneStatus \/ PauseStatus \/ FinishStatus
    <3>1. ka.cur \in Exec /\ ka.cur # 0
      BY <2>2, MidExecution DEF EnterFinal, DoneStatus, PauseStatus, FinishStatus, At, Exec
    <3>2. \E st : st # "none" /\ status' = [status EXCEPT ![ka.cur] = st]
      BY <2>2 DEF EnterFinal, DoneStatus, PauseStatus, FinishStatus, SetStatus,
                  TypeInv, MemoryOK, At
    <3>3. ~Claim
      BY <2>2 DEF EnterFinal, DoneStatus, PauseStatus, FinishStatus, Claim, At
    <3> QED
      BY <1>2, <3>1, <3>2, <3>3, AgentMemory DEF Reserved
  <2>3. CASE status' = status /\ ~Claim
    BY <2>3, AgentMemory DEF Reserved
  <2>4. \/ Claim \/ EnterFinal \/ DoneStatus \/ PauseStatus \/ FinishStatus
        \/ status' = status
    BY DEF ExecutorNext, Work, FetchPlan, CheckApproval, CheckHash, LoadNode, AcquireLock,
           StartAttempt, AgentReply, ReleaseLock, AfterSnapshot, Recover, AfterRecover,
           NextStep, AfterStep, AfterVerify, RouteFailure, AfterRollback, FinalPlan, AfterFinal,
           DonePlan, PauseEscalate, PausePlan, FinishPlan, Crash, Unwind, ExpireLock
  <2> QED
    BY <2>1, <2>2, <2>3, <2>4
<1>4. \A c \in Client : req[c].op \in {"resume", "abort", "execute"} => req[c].exec \in Exec
  BY RequestShape DEF TypeInv, TypeOK
<1> QED
  BY <1>1, <1>3, <1>4 DEF Reserved, gateVars

LEMMA AgentConsent ==
  ASSUME TypeInv, ConsentInv, ExecutorNext, UNCHANGED gateVars
  PROVE  ConsentInv'
<1>0. Reserved /\ Granted /\ Checked /\ Consent
  BY DEF ConsentInv
<1>1. UNCHANGED <<approval, grant, granted, planOf>> /\ Reserved'
  BY <1>0, AgentTables
<1>2. Granted'
  BY <1>0, <1>1 DEF Granted
<1>3. CASE ka'.pc \notin ClearPc \cup {"hash"}
  BY <1>1, <1>2, <1>3 DEF ConsentInv, Checked, Consent, Cleared, ClearPc, At
<1>4. CASE ka'.pc \in ClearPc \cup {"hash"}
  <2>1. /\ ka'.mem = ka.mem /\ plan' = plan
        /\ \/ ka.pc \in ClearPc
           \/ CheckApproval /\ ka'.pc = "hash"
           \/ CheckHash /\ ka'.pc = "node"
           \/ ka'.pc = ka.pc
        /\ ka'.pc = "hash" => CheckApproval \/ ka.pc = "hash"
    BY <1>1, <1>4, AgentMemory DEF plan
  <2>2. ka'.mem \in granted'[plan'] \cup AutoAllowed <=> ka.mem \in granted[plan] \cup AutoAllowed
    BY <1>1, <2>1
  <2>3. ka'.pc = "hash" => ka.mem \in AutoAllowed \/ grant[plan] # NoContent
    <3>1. CASE CheckApproval /\ ka'.pc = "hash"
      <4>1. ApprovalValid(plan) \/ ka.mem \in AutoAllowed
        BY <3>1, FinishMemory DEF CheckApproval, TypeInv, TypeOK, Terminal
      <4>2. plan \in Plan
        BY <3>1, MidExecution DEF CheckApproval, At
      <4> QED
        BY <1>0, <4>1, <4>2 DEF Granted, ApprovalValid
    <3>2. CASE ka.pc = "hash"
      BY <1>0, <3>2 DEF Checked, At
    <3> QED
      BY <2>1, <3>1, <3>2
  <2>4. ka'.pc \in ClearPc => ka.mem \in granted[plan] \cup AutoAllowed
    <3>1. CASE CheckHash /\ ka'.pc = "node"
      <4>1. grant[plan] \in {NoContent, ka.mem}
        BY <3>1, PauseMemory DEF CheckHash, TypeInv, TypeOK
      <4>2. plan \in Plan /\ At("hash")
        BY <3>1, MidExecution DEF CheckHash, At
      <4> QED
        BY <1>0, <4>1, <4>2 DEF Granted, Checked
    <3>2. CASE ka.pc \in ClearPc
      BY <1>0, <3>2 DEF Consent, Cleared, ClearPc
    <3> QED
      BY <2>1, <3>1, <3>2 DEF ClearPc
  <2>5. Checked'
    BY <1>1, <2>1, <2>3 DEF Checked, At
  <2>6. Consent'
    BY <2>2, <2>4 DEF Consent, Cleared, ClearPc
  <2> QED
    BY <1>1, <1>2, <2>5, <2>6 DEF ConsentInv
<1> QED
  BY <1>3, <1>4

-----------------------------------------------------------------------------
(* The Gate *)

\* A request that ends or hands over keeps the numbers of the others apart.
LEMMA RequestMoves ==
  ASSUME TypeInv, Reserved, UNCHANGED <<ka, next>>, NEW c \in Client, NEW r \in Request,
         req' = [req EXCEPT ![c] = r], r.op # "execute",
         r.op \in {"resume", "abort"} => r.exec \in Exec /\ status[r.exec] # "none",
         \A e \in Exec : status'[e] = "none" <=> status[e] = "none"
  PROVE  Reserved'
<1>1. /\ req \in [Client -> Request] /\ next \in Int /\ Exec \subseteq Int
      /\ ka.cur \in Exec \cup {0}
  BY DEF TypeInv, TypeOK, GateTypeOK, Exec, ExecutorTypeOK, Memory
<1>2. \A d \in Client : req[d].op \in {"resume", "abort", "execute"} => req[d].exec \in Exec
  BY RequestShape DEF TypeInv, TypeOK
<1>3. \A d \in Client : req'[d] = IF d = c THEN r ELSE req[d]
  BY <1>1
<1> QED
  BY <1>1, <1>2, <1>3 DEF Reserved

LEMMA GateReserved ==
  ASSUME TypeInv, Reserved, GateNext, UNCHANGED ka
  PROVE  /\ Reserved'
         /\ \A e \in Exec : status[e] # "none" => planOf'[e] = planOf[e]
<1> USE DEF dbVars, historyVars, gateVars
<1>0. /\ req \in [Client -> Request] /\ next \in 1 .. MaxExec + 1 /\ Exec \subseteq Int
      /\ status \in [Exec -> ExecStatus] /\ planOf \in [Exec -> Plan]
      /\ NoRequest \in Request /\ NoRequest.op = "none" /\ next \in Int /\ 0 \notin Exec
      /\ \A p \in Plan : content[p] \in Content
      /\ ka.cur \in Exec \cup {0}
  BY PlanAssumption DEF TypeInv, TypeOK, DbTypeOK, GateTypeOK, Exec, Request, NoRequest,
                        ExecutorTypeOK, Memory
<1>1. ASSUME NEW c \in Client, NEW p \in Plan,
             ApproveRead(c, p) \/ RejectInsert(c, p) \/ ResumeRead(c, p) \/ AbortRead(c, p)
      PROVE  Reserved' /\ planOf' = planOf
  <2>1. PICK r \in Request :
          /\ req' = [req EXCEPT ![c] = r] /\ r.op # "execute"
          /\ r.op \in {"resume", "abort"} => r.exec \in Exec /\ status[r.exec] # "none"
    BY <1>0, <1>1 DEF ApproveRead, RejectInsert, ResumeRead, AbortRead, Start, Request, LatestExec
  <2>2. UNCHANGED <<status, next, planOf>>
    BY <1>1 DEF ApproveRead, RejectInsert, ResumeRead, AbortRead
  <2> QED
    BY <2>1, <2>2, RequestMoves
<1>2. ASSUME NEW c \in Client, ApproveInsert(c) \/ DecisionStatus(c) \/ DropRequest(c)
      PROVE  Reserved' /\ planOf' = planOf
  <2>1. PICK r \in Request : req' = [req EXCEPT ![c] = r] /\ r.op \in {"none", "set_status"}
    BY <1>0, <1>2, RequestShape
       DEF ApproveInsert, DecisionStatus, DropRequest, End, Request, TypeInv, TypeOK
  <2>2. UNCHANGED <<status, next, planOf>>
    BY <1>2 DEF ApproveInsert, DecisionStatus, DropRequest
  <2> QED
    BY <2>1, <2>2, RequestMoves
<1>3. ASSUME NEW c \in Client, ResumeCommit(c) \/ AbortCommit(c)
      PROVE  Reserved' /\ planOf' = planOf
  <2>1. PICK st : st # "none" /\ status' = [status EXCEPT ![req[c].exec] = st]
    BY <1>3 DEF ResumeCommit, AbortCommit, Resolve
  <2>2. req[c].exec \in Exec /\ status[req[c].exec] # "none"
    BY <1>3, RequestShape DEF ResumeCommit, AbortCommit, Reserved, TypeInv, TypeOK
  <2>3. UNCHANGED <<next, planOf>> /\ req' = [req EXCEPT ![c] = NoRequest]
    BY <1>3 DEF ResumeCommit, AbortCommit, Resolve, End
  <2>4. \A e \in Exec : status'[e] = "none" <=> status[e] = "none"
    BY <1>0, <2>1, <2>2
  <2> QED
    BY <1>0, <2>3, <2>4, RequestMoves
<1>4. ASSUME NEW c \in Client, NEW p \in Plan, NEW k \in Key, ExecuteRead(c, p, k)
      PROVE  Reserved' /\ planOf' = planOf
  <2>1. /\ next' = next + 1 /\ next \in Exec /\ UNCHANGED <<status, planOf>>
        /\ req' = [req EXCEPT ![c] = [op |-> "execute", plan |-> p, key |-> k, exec |-> next]]
    BY <1>4 DEF ExecuteRead, Start
  <2>2. /\ req'[c].op = "execute" /\ req'[c].exec = next
        /\ \A d \in Client : d # c => req'[d] = req[d]
    BY <1>0, <2>1
  <2>3. \A d \in Client : req[d].op \in {"resume", "abort", "execute"} => req[d].exec \in Exec
    BY RequestShape DEF TypeInv, TypeOK
  <2>4. ka' = ka /\ status[next] = "none"
    BY <1>0, <2>1 DEF Reserved
  <2>5. \A d \in Client : req'[d].op = "execute" =>
          /\ req'[d].exec < next' /\ status'[req'[d].exec] = "none"
          /\ d # c => req'[d].exec # next
    <3>1. ASSUME NEW d \in Client, req'[d].op = "execute", d # c
          PROVE  /\ req'[d].exec \in Exec /\ req'[d].exec < next
                 /\ status'[req'[d].exec] = "none"
      BY <2>1, <2>2, <2>3, <3>1 DEF Reserved
    <3> QED
      BY <1>0, <2>1, <2>2, <2>4, <3>1 DEF Exec
  <2>6. \A d, f \in Client : req'[d].op = "execute" /\ req'[f].op = "execute" /\ d # f =>
          req'[d].exec # req'[f].exec
    BY <2>2, <2>5 DEF Reserved
  <2>7. \A e \in Exec : e >= next' => status'[e] = "none"
    BY <1>0, <2>1 DEF Reserved, Exec
  <2>8. \A d \in Client : req'[d].op \in {"resume", "abort"} => status'[req'[d].exec] # "none"
    BY <2>1, <2>2 DEF Reserved
  <2> QED
    BY <2>1, <2>4, <2>5, <2>6, <2>7, <2>8 DEF Reserved
<1>5. ASSUME NEW c \in Client, ExecuteCommit(c)
      PROVE  Reserved' /\ \A e \in Exec : status[e] # "none" => planOf'[e] = planOf[e]
  <2>1. PICK e \in Exec : e = req[c].exec
    BY <1>5, RequestShape DEF ExecuteCommit, TypeInv, TypeOK
  <2>2. /\ status' = [status EXCEPT ![e] = "queued"] /\ next' = next
        /\ req' = [req EXCEPT ![c] = NoRequest]
        /\ planOf' = [planOf EXCEPT ![e] = req[c].plan]
    BY <1>5, <2>1 DEF ExecuteCommit, InsertQueued, End
  <2>3. e < next /\ status[e] = "none" /\ ka.cur # e
    BY <1>0, <1>5, <2>1 DEF ExecuteCommit, Reserved
  <2>4. \A d \in Client : req'[d] = IF d = c THEN NoRequest ELSE req[d]
    BY <1>0, <2>2
  <2>5. \A d \in Client : /\ d # c /\ req[d].op = "execute" => req[d].exec \in Exec \ {e}
                          /\ req[d].op \in {"resume", "abort"} => req[d].exec \in Exec
    BY <1>5, <2>1, RequestShape DEF ExecuteCommit, Reserved, TypeInv, TypeOK
  <2>6. \A f \in Exec : /\ status'[f] = IF f = e THEN "queued" ELSE status[f]
                        /\ planOf'[f] = IF f = e THEN req[c].plan ELSE planOf[f]
    BY <1>0, <2>2
  <2> QED
    BY <1>0, <2>2, <2>3, <2>4, <2>5, <2>6 DEF Reserved
<1>6. ASSUME NEW p \in Plan, Diagnose(p)
      PROVE  Reserved' /\ \A e \in Exec : status[e] # "none" => planOf'[e] = planOf[e]
  <2>1. \A d \in Client : req[d].op \in {"resume", "abort", "execute"} => req[d].exec \in Exec
    BY RequestShape DEF TypeInv, TypeOK
  <2>2. CASE UNCHANGED <<status, planOf, next>>
    BY <1>0, <1>6, <2>1, <2>2 DEF Diagnose, Reserved
  <2>3. CASE next \in Exec /\ InsertQueued(next, p, p) /\ next' = next + 1
    <3>1. status[next] = "none" /\ req' = req /\ ka' = ka
      BY <1>0, <1>6, <2>3 DEF Diagnose, Reserved
    <3>2. \A f \in Exec : /\ status'[f] = IF f = next THEN "queued" ELSE status[f]
                          /\ planOf'[f] = IF f = next THEN p ELSE planOf[f]
      BY <1>0, <2>3 DEF InsertQueued
    <3>3. \A e \in Exec : e >= next' => status'[e] = "none"
      BY <1>0, <2>3, <3>2 DEF Reserved, Exec
    <3>4. \A d \in Client : req[d].op = "execute" =>
            req[d].exec < next' /\ status'[req[d].exec] = "none"
      <4>1. ASSUME NEW d \in Client, req[d].op = "execute"
            PROVE  req[d].exec \in Exec /\ req[d].exec < next /\ status[req[d].exec] = "none"
        BY <2>1, <4>1 DEF Reserved
      <4> QED
        BY <1>0, <2>3, <3>2, <4>1 DEF Exec
    <3>5. \A d \in Client : req[d].op \in {"resume", "abort"} => status'[req[d].exec] # "none"
      BY <2>1, <3>2 DEF Reserved
    <3>6. ka.cur # 0 => status'[ka.cur] # "none"
      BY <1>0, <3>2 DEF Reserved
    <3> QED
      BY <2>3, <3>1, <3>2, <3>3, <3>4, <3>5, <3>6 DEF Reserved
  <2> QED
    BY <1>6, <2>2, <2>3 DEF Diagnose
<1>7. ASSUME \/ \E p \in Plan : ExpireApproval(p)
             \/ \E k \in AnyKey : ExpireRecord(k)
             \/ \E p \in Plan, v \in Content : EditPlan(p, v)
      PROVE  Reserved' /\ planOf' = planOf
  BY <1>7 DEF ExpireApproval, ExpireRecord, EditPlan, Reserved
<1> QED
  BY <1>1, <1>2, <1>3, <1>4, <1>5, <1>6, <1>7 DEF GateNext

\* Once there is a hash on record for a plan there always is one, of a content
\* that was approved: a request inserts the hash of what it read.
LEMMA GateGrants ==
  ASSUME TypeInv, Granted, GateNext
  PROVE  /\ Granted'
         /\ \A p \in Plan : /\ grant[p] # NoContent => grant'[p] # NoContent
                            /\ granted[p] \subseteq granted'[p]
<1> USE DEF dbVars, historyVars, gateVars
<1>0. /\ grant \in [Plan -> Content \cup {NoContent}] /\ granted \in [Plan -> SUBSET Content]
      /\ approval \in [Plan -> Approval] /\ NoContent \notin Content
  BY PlanAssumption DEF TypeInv, TypeOK, DbTypeOK
<1>1. ASSUME NEW c \in Client, ApproveInsert(c)
      PROVE  /\ Granted'
             /\ \A p \in Plan : /\ grant[p] # NoContent => grant'[p] # NoContent
                                /\ granted[p] \subseteq granted'[p]
  <2>1. PICK q \in Plan, v \in Content : q = req[c].plan /\ v = req[c].hash
    BY <1>1, RequestShape DEF ApproveInsert, TypeInv, TypeOK
  <2>2. /\ approval' = [approval EXCEPT ![q] = [decision |-> "approved", live |-> TRUE]]
        /\ grant' = [grant EXCEPT ![q] = v]
        /\ granted' = [granted EXCEPT ![q] = @ \cup {v}]
    BY <1>1, <2>1 DEF ApproveInsert
  <2>3. \A p \in Plan : /\ grant'[p] = IF p = q THEN v ELSE grant[p]
                        /\ granted'[p] = IF p = q THEN granted[p] \cup {v} ELSE granted[p]
                        /\ p # q => approval'[p] = approval[p]
    BY <1>0, <2>2
  <2>4. v # NoContent
    BY <1>0, <2>1
  <2>5. Granted'
    BY <2>3, <2>4 DEF Granted
  <2> QED
    BY <2>3, <2>4, <2>5
<1>2. ASSUME NEW c \in Client, NEW p \in Plan, RejectInsert(c, p)
      PROVE  Granted' /\ UNCHANGED <<grant, granted>>
  BY <1>0, <1>2 DEF RejectInsert, Granted
<1>3. ASSUME NEW p \in Plan, ExpireApproval(p)
      PROVE  Granted' /\ UNCHANGED <<grant, granted>>
  <2>1. \A q \in Plan : approval'[q].decision = approval[q].decision
    BY <1>0, <1>3 DEF ExpireApproval, Approval
  <2> QED
    BY <1>3, <2>1 DEF ExpireApproval, Granted
<1>4. CASE UNCHANGED <<approval, grant, granted>>
  BY <1>4 DEF Granted
<1>5. \/ \E c \in Client : ApproveInsert(c) \/ \E p \in Plan : RejectInsert(c, p)
      \/ \E p \in Plan : ExpireApproval(p)
      \/ UNCHANGED <<approval, grant, granted>>
  BY DEF GateNext, ApproveRead, ResumeRead, AbortRead, ExecuteRead, DecisionStatus,
         ResumeCommit, AbortCommit, Resolve, ExecuteCommit, DropRequest, Diagnose,
         ExpireRecord, EditPlan
<1> QED
  BY <1>1, <1>2, <1>3, <1>4, <1>5

LEMMA GateConsent ==
  ASSUME TypeInv, ConsentInv, GateNext, UNCHANGED <<ka, targetVars>>
  PROVE  ConsentInv'
<1>0. Reserved /\ Granted /\ Checked /\ Consent
  BY DEF ConsentInv
<1>1. /\ Reserved' /\ Granted'
      /\ \A e \in Exec : status[e] # "none" => planOf'[e] = planOf[e]
      /\ \A p \in Plan : /\ grant[p] # NoContent => grant'[p] # NoContent
                         /\ granted[p] \subseteq granted'[p]
  BY <1>0, GateReserved, GateGrants
<1>2. ~At("idle") => plan' = plan /\ plan \in Plan
  <2>1. ~At("idle") => ka.cur \in Exec /\ plan \in Plan /\ status[ka.cur] # "none"
    BY <1>0, MidExecution DEF Reserved, TypeInv, MemoryOK
  <2> QED
    BY <1>1, <2>1 DEF plan
<1>3. Checked'
  BY <1>0, <1>1, <1>2 DEF Checked, At
<1>4. Consent'
  <2>1. Cleared => ~At("idle")
    BY DEF Cleared, At
  <2> QED
    BY <1>0, <1>1, <1>2, <2>1 DEF Consent, Cleared
<1> QED
  BY <1>1, <1>3, <1>4 DEF ConsentInv

-----------------------------------------------------------------------------
\* The invariant behind OnlyWithConsent, which the proofs about lives use too.
THEOREM ConsentInvariant == Spec => []ConsentInv
<1>1. TypeInv /\ ConsentInv /\ [Next]_vars => ConsentInv'
  <2> SUFFICES ASSUME TypeInv, ConsentInv, [Next]_vars PROVE ConsentInv'
    OBVIOUS
  <2>1. CASE GateNext /\ UNCHANGED <<ka, targetVars>>
    BY <2>1, GateConsent
  <2>2. CASE ExecutorNext /\ UNCHANGED gateVars
    BY <2>2, AgentConsent
  <2>3. CASE UNCHANGED vars
    BY <2>3 DEF vars, dbVars, historyVars, gateVars, ConsentInv, Reserved, Granted, Checked,
                Consent, Cleared, At, plan
  <2> QED
    BY <2>1, <2>2, <2>3 DEF Next
<1> QED
  BY <1>1, InitConsent, TypeInvariant, PTL DEF Spec

\* The plan that commands are sent from was approved by a human or may run by
\* itself, however often it is edited, approved, rejected or resumed meanwhile
\* (the checks at the head of execute_plan against approve_plan).
THEOREM OnlyWithConsent == Spec => []Consent
<1>1. ConsentInv => Consent
  BY DEF ConsentInv
<1> QED
  BY <1>1, ConsentInvariant, PTL
=============================================================================
