----------------------------- MODULE RepairState -----------------------------
(***************************************************************************)
(* The rows of the shared database that the Layer 3 Gate (dashboard) and   *)
(* the Layer 4 Knowledge Agent both read and write, and the target node.   *)
(*                                                                         *)
(* Data is abstracted to what decides control.  The content of a plan is a *)
(* value of Content: two contents are equal when their canonical SHA-256   *)
(* is.  What the code computes from the content alone is a set of          *)
(* contents: AutoAllowed (plan_auto_allowed), Malformed (validate_plan     *)
(* fails), Misplaced (environment_allowed fails on the target node).       *)
(* Steps are numbered 1..NSteps in plan order.  Executions are numbered in    *)
(* the order of requested_at, the start of the transaction that inserts    *)
(* them.  Timestamps that only expire are flags, cleared by an action at   *)
(* any time.                                                               *)
(***************************************************************************)
EXTENDS Integers, FiniteSets

CONSTANTS
  Plan, Content, Key,   \* plans, plan contents, Idempotency-Key header values
  NoContent,            \* no approval, or no plan read yet
  MaxExec,              \* bound: executions ever inserted
  NSteps,                  \* steps of a plan
  MaxAttempts,          \* idempotency.max_attempts of an idempotent step
  AutoAllowed, Malformed, Misplaced,
  Mutating,             \* steps whose runner has side_effect = "mutate"
  Idempotent,           \* steps whose idempotency.mode is "idempotent"
  Snapshot, Rollback    \* pre_execution_snapshot.enabled, rollback.enabled

Exec == 1 .. MaxExec
Step == 1 .. NSteps

ASSUME PlanAssumption ==
  /\ Plan # {}
  /\ MaxExec \in Nat /\ NSteps \in Nat \ {0} /\ MaxAttempts \in Nat \ {0}
  /\ AutoAllowed \subseteq Content /\ Malformed \subseteq Content /\ Misplaced \subseteq Content
  /\ Mutating \subseteq Step /\ Idempotent \subseteq Step
  /\ Snapshot \in BOOLEAN /\ Rollback \in BOOLEAN
  /\ NoContent \notin Content

\* The key of an execution that Layer 2 queues itself is auto:<plan>:<schema>,
\* written here as the plan; no client sends such a key.
AnyKey == Key \cup Plan
ASSUME KeyAssumption == Key \cap Plan = {}

VARIABLES
  content,      \* plan -> action_plan of its diagnosis_reports row
  approval,     \* plan -> the latest plan_approvals row
  grant,        \* plan -> plan_sha256 of the latest 'approved' row
  planStatus,   \* plan -> plan_status of its diagnosis_reports row
  status,       \* execution -> status of its plan_executions row
  planOf,       \* execution -> its plan
  record,       \* key -> execution of its unexpired idempotency_records row, or 0
  rows,         \* execution, step -> execution_steps row
  openEsc,      \* execution -> has it an open execution_escalations row?
  lock,         \* execution_id in the node_locks row of the target, or 0
  applied,      \* plan -> steps whose change is in place on the target
  baseline,     \* plan -> what the snapshot on the target would restore
  granted,      \* history: plan -> contents a human ever approved
  born          \* history: key -> executions inserted under its current record

dbVars == <<content, approval, grant, planStatus, status, planOf, record, rows, openEsc, lock>>
targetVars == <<applied, baseline>>
historyVars == <<granted, born>>

(***************************************************************************)
(* kb_done stands for kb_imported, kb_skipped and kb_import_failed.        *)
(***************************************************************************)
Polled == {"queued", "executing", "final_verifying"}
Terminal == {"final_verified", "kb_done", "execution_failed", "blocked"}
ExecStatus == {"none", "paused_for_review", "failed_retryable"} \cup Polled \cup Terminal
PlanStatus ==
  {"none", "pending_approval", "approved", "rejected"} \cup (ExecStatus \ {"none"})
StepStatus == {"none", "step_running", "step_verified", "step_failed_aborted", "step_failed_blocked"}
StepFailed == {"step_failed_aborted", "step_failed_blocked"}

Approval == [decision : {"none", "approved", "rejected"}, live : BOOLEAN]
StepRow == [st : StepStatus, retry : 0 .. MaxAttempts - 1]

DbTypeOK ==
  /\ content \in [Plan -> Content]
  /\ approval \in [Plan -> Approval]
  /\ grant \in [Plan -> Content \cup {NoContent}]
  /\ planStatus \in [Plan -> PlanStatus]
  /\ status \in [Exec -> ExecStatus]
  /\ planOf \in [Exec -> Plan]
  /\ record \in [AnyKey -> Exec \cup {0}]
  /\ rows \in [Exec -> [Step -> StepRow]]
  /\ openEsc \in [Exec -> BOOLEAN]
  /\ lock \in Exec \cup {0}
  /\ applied \in [Plan -> SUBSET Step]
  /\ baseline \in [Plan -> SUBSET Step]
  /\ granted \in [Plan -> SUBSET Content]
  /\ born \in [AnyKey -> Nat]

DbInit ==
  /\ content \in [Plan -> Content]
  /\ approval = [p \in Plan |-> [decision |-> "none", live |-> FALSE]]
  /\ grant = [p \in Plan |-> NoContent]
  /\ planStatus = [p \in Plan |-> "none"]
  /\ status = [e \in Exec |-> "none"]
  /\ planOf = [e \in Exec |-> CHOOSE p \in Plan : TRUE]   \* set when e is inserted
  /\ record = [k \in AnyKey |-> 0]
  /\ rows = [e \in Exec |-> [s \in Step |-> [st |-> "none", retry |-> 0]]]
  /\ openEsc = [e \in Exec |-> FALSE]
  /\ lock = 0
  /\ applied = [p \in Plan |-> {}]
  /\ baseline = [p \in Plan |-> {}]
  /\ granted = [p \in Plan |-> {}]
  /\ born = [k \in AnyKey |-> 0]

\* The latest approval row is an approval whose approved_until lies ahead.
ApprovalValid(p) == approval[p].decision = "approved" /\ approval[p].live

\* The plan has an unexpired record under some key.
PlanBusy(p) == \E k \in AnyKey : record[k] # 0 /\ planOf[record[k]] = p

\* ORDER BY requested_at DESC LIMIT 1 over the plan's executions, {} if none
LatestExec(p) ==
  {e \in Exec : /\ status[e] # "none" /\ planOf[e] = p
                /\ \A f \in Exec : status[f] # "none" /\ planOf[f] = p => f <= e}
==============================================================================
