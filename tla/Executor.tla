------------------------------ MODULE Executor ------------------------------
(***************************************************************************)
(* Layer 4, the Knowledge Agent: one process that claims an execution,     *)
(* checks it, runs its steps on the target through the On-Device Agent,    *)
(* verifies them, and finishes the execution or pauses it for a human.     *)
(*                                                                         *)
(* Every statement commits alone, and the process may die between any two. *)
(* ka is the memory of the process, lost when it dies: what it works on,   *)
(* the content it read, and where it is.  A command train                  *)
(* (run_runner_command) is the same for every kind of job, so the pcs      *)
(* "acquire", "attempt", "call" and "release" serve them all, and "after"  *)
(* is where each caller goes on with the outcome.                          *)
(***************************************************************************)
EXTENDS RepairState

VARIABLE ka

Job == {"none", "snapshot", "step", "verify", "recover", "rollback", "final"}
Outcome == {"none", "success", "failed", "hook_denied", "node_locked", "error", "match", "mismatch"}
Pc == {"idle", "fetch", "approval", "hash", "node", "recover", "loop",
       "acquire", "attempt", "call", "release", "after", "route",
       "final_plan", "done_status", "done_plan",
       "pause_escalate", "pause_status", "pause_plan", "finish_status", "finish_plan"}

Memory ==
  [pc : Pc,
   cur : Exec \cup {0},              \* the claimed execution
   requeued : BOOLEAN,               \* claimed from 'queued', not recovered
   mem : Content \cup {NoContent},   \* the action_plan it read
   sid : 1 .. NSteps + 1,               \* the step it is at
   job : Job, att : 0 .. MaxAttempts + 1, out : Outcome,
   old : 0 .. MaxAttempts - 1,       \* retry_count of the row under recovery
   goal : Terminal \cup {"none", "failed_retryable"}]   \* status to finish with

ExecutorTypeOK == ka \in Memory

Idle == [pc |-> "idle", cur |-> 0, requeued |-> FALSE, mem |-> NoContent, sid |-> 1,
         job |-> "none", att |-> 0, out |-> "none", old |-> 0, goal |-> "none"]

ExecutorInit == ka = Idle

plan == planOf[ka.cur]
At(pc) == ka.pc = pc

\* The next memory: go on at pc, go on with step s at pc once a command train is
\* over, end the execution with a status, pause it.  What the rest of the code
\* does not read is forgotten.
Goto(pc) == ka' = [ka EXCEPT !.pc = pc]
Settle(pc, s) == ka' = [ka EXCEPT !.pc = pc, !.sid = s,
                                  !.job = "none", !.att = 0, !.out = "none", !.old = 0]
FinishWith(st) == ka' = [Idle EXCEPT !.pc = "finish_status", !.cur = ka.cur, !.goal = st]
Pause == ka' = [Idle EXCEPT !.pc = "pause_escalate", !.cur = ka.cur]

\* validate_plan: the runners, the verifications and the risk policy are complete.
ValidPlan(v) == v \notin Malformed
\* environment_allowed: the node has the environment the plan was made for.
EnvironmentAllowed(v) == v \notin Misplaced

Mutates(job, s) == job \in {"snapshot", "rollback"} \/ (job = "step" /\ s \in Mutating)
Recorded(job) == job \in {"step", "verify", "recover"}

\* Mutant: one attempt too many.
StepAttemptsBug(s) == IF s \in Idempotent THEN MaxAttempts + 1 ELSE 1
StepAttempts(s) == IF s \in Idempotent THEN MaxAttempts ELSE 1
JobAttempts(job, s) ==
  CASE job = "step" -> StepAttempts(s)
    [] job = "snapshot" -> 2
    [] OTHER -> 1

StartJob(job, s) ==
  ka' = [ka EXCEPT !.job = job, !.sid = s, !.att = 1, !.out = "none",
                   !.pc = IF Mutates(job, s) THEN "acquire" ELSE "attempt"]

\* retry is kept while the command runs: nobody reads it of a settled row.
SetRow(s, st, retry) == rows' = [rows EXCEPT ![ka.cur][s] = [st |-> st, retry |-> retry]]
SetStatus(st) == status' = [status EXCEPT ![ka.cur] = st]
SetPlanStatus(st) == planStatus' = [planStatus EXCEPT ![plan] = st]

\* Tables that the Knowledge Agent only reads.
gateTables == <<content, approval, grant, planOf, record, historyVars>>
-----------------------------------------------------------------------------
(* process_one and the checks at the head of execute_plan *)

\* Mutant: an execution that a dead process left behind is not polled.
ClaimBug ==
  /\ At("idle")
  /\ \E e \in Exec :
       /\ status[e] = "queued"
       /\ \A f \in Exec : f < e => status[f] # "queued"
       /\ status' = [status EXCEPT ![e] = "executing"]
       /\ planStatus' = [planStatus EXCEPT ![planOf[e]] = "executing"]
       /\ ka' = [Idle EXCEPT !.pc = "fetch", !.cur = e, !.requeued = TRUE]
  /\ UNCHANGED <<rows, openEsc, lock, gateTables, targetVars>>

\* The oldest execution that is queued, or that a dead process left behind.
Claim ==
  /\ At("idle")
  /\ \E e \in Exec :
       /\ status[e] \in Polled
       /\ \A f \in Exec : f < e => status[f] \notin Polled
       /\ \/ /\ status[e] = "queued"
             /\ status' = [status EXCEPT ![e] = "executing"]
             /\ planStatus' = [planStatus EXCEPT ![planOf[e]] = "executing"]
          \/ /\ status[e] # "queued"
             /\ UNCHANGED <<status, planStatus>>
       /\ ka' = [Idle EXCEPT !.pc = "fetch", !.cur = e, !.requeued = (status[e] = "queued")]
  /\ UNCHANGED <<rows, openEsc, lock, gateTables, targetVars>>

FetchPlan ==
  /\ At("fetch")
  /\ \/ ~ValidPlan(content[plan]) /\ FinishWith("blocked")
     \/ /\ ValidPlan(content[plan])
        /\ ka' = [ka EXCEPT !.mem = content[plan], !.pc = "approval"]
  /\ UNCHANGED <<dbVars, targetVars, historyVars>>

CheckApproval ==
  /\ At("approval")
  /\ \/ (ApprovalValid(plan) \/ ka.mem \in AutoAllowed) /\ Goto("hash")
     \/ ~(ApprovalValid(plan) \/ ka.mem \in AutoAllowed) /\ FinishWith("blocked")
  /\ UNCHANGED <<dbVars, targetVars, historyVars>>

\* Mutant: the stored plan is hashed again, instead of the plan in hand.
CheckHashBug ==
  /\ At("hash")
  /\ \/ (grant[plan] # NoContent => grant[plan] = content[plan]) /\ Goto("node")
     \/ grant[plan] # NoContent /\ grant[plan] # content[plan] /\ Pause
  /\ UNCHANGED <<dbVars, targetVars, historyVars>>

\* Drift signal 0: what was read must hash to what was approved last, if ever.
CheckHash ==
  /\ At("hash")
  /\ \/ grant[plan] \in {NoContent, ka.mem} /\ Goto("node")
     \/ grant[plan] \notin {NoContent, ka.mem} /\ Pause
  /\ UNCHANGED <<dbVars, targetVars, historyVars>>

\* load_node and environment_allowed; then the snapshot, if a step mutates.
LoadNode ==
  /\ At("node")
  /\ \/ FinishWith("failed_retryable")                    \* the agent does not answer
     \/ ~EnvironmentAllowed(ka.mem) /\ FinishWith("blocked")
     \/ /\ EnvironmentAllowed(ka.mem)
        /\ IF Snapshot /\ Mutating # {} THEN StartJob("snapshot", 1) ELSE Goto("recover")
  /\ UNCHANGED <<dbVars, targetVars, historyVars>>

-----------------------------------------------------------------------------
(* run_runner_command: the lock, the attempts, the finally block *)

AcquireLock ==
  /\ At("acquire")
  /\ \/ lock = 0 /\ lock' = ka.cur /\ Goto("attempt")
     \/ lock # 0 /\ UNCHANGED lock /\ ka' = [ka EXCEPT !.out = "node_locked", !.pc = "after"]
  /\ UNCHANGED <<planStatus, status, rows, openEsc, gateTables, targetVars>>

\* upsert_step(step_running) before every attempt that belongs to a step; a
\* verification passes its step's id and so starts the row's count afresh.
StartAttempt ==
  /\ At("attempt")
  /\ IF Recorded(ka.job) THEN SetRow(ka.sid, "step_running", ka.att - 1) ELSE UNCHANGED rows
  /\ Goto("call")
  /\ UNCHANGED <<planStatus, status, openEsc, lock, gateTables, targetVars>>

\* What the command changes on the target when it runs.
Effect ==
  CASE ka.job = "step" ->
         applied' = [applied EXCEPT ![plan] = @ \cup {ka.sid}] /\ UNCHANGED baseline
    [] ka.job = "snapshot" ->
         baseline' = [baseline EXCEPT ![plan] = applied[plan]] /\ UNCHANGED applied
    [] ka.job = "rollback" ->
         applied' = [applied EXCEPT ![plan] = baseline[plan]] /\ UNCHANGED baseline
    [] OTHER -> UNCHANGED targetVars

\* The command ran or it did not; when it did not exit with 0, or when no
\* answer came back, either is possible.
Answer(out) ==
  \/ out \in {"success", "failed", "error"} /\ Effect
  \/ out \in {"failed", "error", "hook_denied"} /\ UNCHANGED targetVars

\* A probe answers for the target: it finds a step verified only if the step
\* is in place.  The final probe looks at the service, not at the steps.
ProbeAnswer(out) ==
  /\ out \in {"match", "mismatch", "error", "hook_denied"}
  /\ out = "match" /\ ka.job # "final" => ka.sid \in applied[plan]
  /\ UNCHANGED targetVars

AgentReply ==
  /\ At("call")
  /\ \E out \in Outcome \ {"none", "node_locked"} :
       /\ IF ka.job \in {"verify", "recover", "final"} THEN ProbeAnswer(out) ELSE Answer(out)
       /\ IF out \in {"failed", "error"} /\ ka.att < JobAttempts(ka.job, ka.sid)
          THEN ka' = [ka EXCEPT !.att = @ + 1, !.pc = "attempt"]
          ELSE ka' = [ka EXCEPT !.out = out,
                                !.pc = IF Mutates(ka.job, ka.sid) THEN "release" ELSE "after"]
  /\ UNCHANGED <<dbVars, historyVars>>

ReleaseLock ==
  /\ At("release")
  /\ lock' = IF lock = ka.cur THEN 0 ELSE lock
  /\ Goto("after")
  /\ UNCHANGED <<planStatus, status, rows, openEsc, gateTables, targetVars>>

-----------------------------------------------------------------------------
(* what the callers do with the outcome *)

AfterSnapshot ==
  /\ At("after") /\ ka.job = "snapshot"
  /\ CASE ka.out = "success" -> Settle("recover", 1)
       [] ka.out = "hook_denied" -> Pause
       [] OTHER -> FinishWith("blocked")
  /\ UNCHANGED <<dbVars, targetVars, historyVars>>

\* Mutant: a step that was running is taken for done instead of probed.
RecoverBug ==
  /\ At("recover")
  /\ \/ ka.sid = NSteps + 1 /\ Goto("loop")
     \/ /\ ka.sid \in Step
        /\ LET row == rows[ka.cur][ka.sid] IN
             \/ row.st \in {"none"} \cup StepFailed /\ Goto("loop")
             \/ row.st \in {"step_verified", "step_running"} /\ Settle("recover", ka.sid + 1)
  /\ UNCHANGED <<dbVars, targetVars, historyVars>>

\* recovery_start_index: the first step that is not verified; a step that was
\* running when the process died is probed before anything else happens to it.
Recover ==
  /\ At("recover")
  /\ \/ ka.sid = NSteps + 1 /\ Goto("loop")
     \/ /\ ka.sid \in Step
        /\ LET row == rows[ka.cur][ka.sid] IN
             \/ row.st \in {"none"} \cup StepFailed /\ Goto("loop")
             \/ row.st = "step_verified" /\ Settle("recover", ka.sid + 1)
             \/ /\ row.st = "step_running"
                /\ ka' = [ka EXCEPT !.job = "recover", !.att = 1, !.out = "none",
                                    !.old = row.retry, !.pc = "attempt"]
  /\ UNCHANGED <<dbVars, targetVars, historyVars>>

\* Mutant: the idempotency mode of the step is not looked at.
RepeatableBug(s, retry) == retry < MaxAttempts - 1
\* May a step that was running, and is not in place, be run again unasked?
Repeatable(s, retry) == s \in Idempotent /\ retry < MaxAttempts - 1

AfterRecover ==
  /\ At("after") /\ ka.job = "recover"
  /\ \/ /\ ka.out = "match"
        /\ SetRow(ka.sid, "step_verified", 0)
        /\ Settle("recover", ka.sid + 1)
     \/ /\ ka.out # "match"
        /\ IF Repeatable(ka.sid, ka.old) THEN Settle("loop", ka.sid) ELSE Pause
        /\ UNCHANGED rows
  /\ UNCHANGED <<planStatus, status, openEsc, lock, gateTables, targetVars>>

NextStep ==
  /\ At("loop") /\ ka.sid \in Step
  /\ StartJob("step", ka.sid)
  /\ UNCHANGED <<dbVars, targetVars, historyVars>>

\* The rest of execute_fixing_step after the command: verify, or record why not.
AfterStep ==
  /\ At("after") /\ ka.job = "step"
  /\ \/ ka.out = "success" /\ StartJob("verify", ka.sid) /\ UNCHANGED rows
     \/ /\ ka.out \in {"hook_denied", "node_locked"}
        /\ SetRow(ka.sid, "step_failed_blocked", 0)
        /\ Goto("route")
     \/ /\ ka.out \in {"failed", "error"}
        /\ SetRow(ka.sid, "step_failed_aborted", 0)
        /\ Goto("route")
  /\ UNCHANGED <<planStatus, status, openEsc, lock, gateTables, targetVars>>

AfterVerify ==
  /\ At("after") /\ ka.job = "verify"
  /\ \/ /\ ka.out = "match"
        /\ SetRow(ka.sid, "step_verified", 0)
        /\ Settle("loop", ka.sid + 1)
     \/ /\ ka.out # "match"
        /\ SetRow(ka.sid, "step_failed_aborted", 0)
        /\ Goto("route")
  /\ UNCHANGED <<planStatus, status, openEsc, lock, gateTables, targetVars>>

\* The failed step is on record: roll an aborted one back, then pause or end.
RouteFailure ==
  /\ At("route")
  /\ LET aborted == ka.job = "verify" \/ ka.out \in {"failed", "error"} IN
       \/ aborted /\ Rollback /\ StartJob("rollback", ka.sid)
       \/ aborted /\ ~Rollback /\ Pause
       \/ ~aborted /\ ka.out = "hook_denied" /\ Pause
       \/ ~aborted /\ ka.out = "node_locked" /\ FinishWith("blocked")
  /\ UNCHANGED <<dbVars, targetVars, historyVars>>

AfterRollback ==
  /\ At("after") /\ ka.job = "rollback" /\ Pause
  /\ UNCHANGED <<dbVars, targetVars, historyVars>>

-----------------------------------------------------------------------------
(* the tail of execute_plan, pause_execution and finish_execution *)

EnterFinal ==
  /\ At("loop") /\ ka.sid = NSteps + 1
  /\ SetStatus("final_verifying")
  /\ ka' = [Idle EXCEPT !.pc = "final_plan", !.cur = ka.cur, !.mem = ka.mem, !.sid = ka.sid]
  /\ UNCHANGED <<planStatus, rows, openEsc, lock, gateTables, targetVars>>

FinalPlan ==
  /\ At("final_plan")
  /\ SetPlanStatus("final_verifying") /\ StartJob("final", ka.sid)
  /\ UNCHANGED <<status, rows, openEsc, lock, gateTables, targetVars>>

AfterFinal ==
  /\ At("after") /\ ka.job = "final"
  /\ \/ ka.out = "match" /\ ka' = [Idle EXCEPT !.pc = "done_status", !.cur = ka.cur]
     \/ ka.out # "match" /\ Pause
  /\ UNCHANGED <<dbVars, targetVars, historyVars>>

DoneStatus ==
  /\ At("done_status")
  /\ SetStatus("final_verified") /\ Goto("done_plan")
  /\ UNCHANGED <<planStatus, rows, openEsc, lock, gateTables, targetVars>>

DonePlan ==
  /\ At("done_plan")
  /\ SetPlanStatus("final_verified") /\ FinishWith("kb_done")
  /\ UNCHANGED <<status, rows, openEsc, lock, gateTables, targetVars>>

\* Mutant: the pause takes effect without an escalation.
PauseEscalateBug ==
  /\ At("pause_escalate")
  /\ SetStatus("paused_for_review") /\ Goto("pause_plan")
  /\ UNCHANGED <<planStatus, rows, openEsc, lock, gateTables, targetVars>>

PauseEscalate ==
  /\ At("pause_escalate")
  /\ openEsc' = [openEsc EXCEPT ![ka.cur] = TRUE] /\ Goto("pause_status")
  /\ UNCHANGED <<planStatus, status, rows, lock, gateTables, targetVars>>

PauseStatus ==
  /\ At("pause_status")
  /\ SetStatus("paused_for_review") /\ Goto("pause_plan")
  /\ UNCHANGED <<planStatus, rows, openEsc, lock, gateTables, targetVars>>

PausePlan ==
  /\ At("pause_plan")
  /\ SetPlanStatus("paused_for_review") /\ ka' = Idle
  /\ UNCHANGED <<status, rows, openEsc, lock, gateTables, targetVars>>

FinishStatus ==
  /\ At("finish_status")
  /\ SetStatus(ka.goal) /\ Goto("finish_plan")
  /\ UNCHANGED <<planStatus, rows, openEsc, lock, gateTables, targetVars>>

FinishPlan ==
  /\ At("finish_plan")
  /\ SetPlanStatus(ka.goal) /\ ka' = Idle
  /\ UNCHANGED <<status, rows, openEsc, lock, gateTables, targetVars>>

-----------------------------------------------------------------------------
(* failures of the process, and the clock of the lock *)

\* A command that was on its way may run although nobody waits for it.
InFlight == \/ UNCHANGED targetVars
            \/ At("call") /\ Effect

\* The process is killed: nothing of it is left but its rows.
Crash ==
  /\ ~At("idle")
  /\ ka' = Idle
  /\ InFlight
  /\ UNCHANGED <<dbVars, historyVars>>

\* An exception climbs to the loop of start(); the finally block has run.
Unwind ==
  /\ At("attempt") \/ At("call")
  /\ Mutates(ka.job, ka.sid)
  /\ lock' = IF lock = ka.cur THEN 0 ELSE lock
  /\ ka' = Idle
  /\ InFlight
  /\ UNCHANGED <<planStatus, status, rows, openEsc, gateTables>>

\* The train that the lock row belongs to is still running.
Holding == ka.pc \in {"attempt", "call", "release"} /\ Mutates(ka.job, ka.sid)

\* The row of a dead process expires and is swept or taken over.  The row of
\* a running train does not expire: that is what NodeLocks establishes.
ExpireLock ==
  /\ lock # 0 /\ ~Holding
  /\ lock' = 0
  /\ UNCHANGED <<planStatus, status, rows, openEsc, gateTables, targetVars, ka>>

Work ==
  \/ Claim \/ FetchPlan \/ CheckApproval \/ CheckHash \/ LoadNode
  \/ AcquireLock \/ StartAttempt \/ AgentReply \/ ReleaseLock
  \/ AfterSnapshot \/ Recover \/ AfterRecover \/ NextStep \/ AfterStep \/ AfterVerify
  \/ RouteFailure \/ AfterRollback \/ EnterFinal \/ FinalPlan \/ AfterFinal
  \/ DoneStatus \/ DonePlan \/ PauseEscalate \/ PauseStatus \/ PausePlan
  \/ FinishStatus \/ FinishPlan

ExecutorNext == Work \/ Crash \/ Unwind \/ ExpireLock
==============================================================================
