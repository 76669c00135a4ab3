-------------------------------- MODULE Gate --------------------------------
(***************************************************************************)
(* Layer 3, the Gate: the plan handlers of the dashboard, and the Layer 2  *)
(* transaction that stores a diagnosis and queues what may run by itself.  *)
(*                                                                         *)
(* The dashboard serves requests in threads, each with its own connection, *)
(* and PostgreSQL runs at READ COMMITTED.  A handler is therefore split    *)
(* where another request or the Knowledge Agent can get in between: after  *)
(* what it reads, and after each statement it commits alone.  A request    *)
(* that its checks refuse changes nothing and is left out.                 *)
(***************************************************************************)
EXTENDS RepairState

CONSTANT Client         \* requests that can be in progress at the same time

VARIABLES
  req,                  \* client -> the rest of its handler, NoRequest if none
  next                  \* the next execution to be inserted

gateVars == <<req, next>>

NoRequest == [op |-> "none"]
Request ==
  {NoRequest}
    \cup [op : {"approve"}, plan : Plan, hash : Content]
    \cup [op : {"set_status"}, plan : Plan, to : {"approved", "rejected"}]
    \cup [op : {"resume", "abort"}, exec : Exec]
    \cup [op : {"execute"}, plan : Plan, key : Key, exec : Exec]

GateTypeOK == req \in [Client -> Request] /\ next \in 1 .. MaxExec + 1

GateInit == req = [c \in Client |-> NoRequest] /\ next = 1

Start(c, r) == req[c].op = "none" /\ req' = [req EXCEPT ![c] = r]
End(c) == req' = [req EXCEPT ![c] = NoRequest]

\* What approve_plan calls terminal.
Closed == Terminal \cup {"rejected"}

-----------------------------------------------------------------------------
(* approve_plan and reject_plan: statements that commit one by one *)

\* SELECT the plan; the hash of what is read is what will be approved.
ApproveRead(c, p) ==
  /\ planStatus[p] \notin Closed \cup {"none"}
  /\ Start(c, [op |-> "approve", plan |-> p, hash |-> content[p]])
  /\ UNCHANGED <<dbVars, next, historyVars>>

ApproveInsert(c) ==
  /\ req[c].op = "approve"
  /\ LET p == req[c].plan IN
       /\ approval' = [approval EXCEPT ![p] = [decision |-> "approved", live |-> TRUE]]
       /\ grant' = [grant EXCEPT ![p] = req[c].hash]
       /\ granted' = [granted EXCEPT ![p] = @ \cup {req[c].hash}]
       /\ req' = [req EXCEPT ![c] = [op |-> "set_status", plan |-> p, to |-> "approved"]]
  /\ UNCHANGED <<content, planStatus, status, planOf, record, rows, openEsc, lock, next, born>>

RejectInsert(c, p) ==
  /\ planStatus[p] # "none"
  /\ approval' = [approval EXCEPT ![p] = [decision |-> "rejected", live |-> FALSE]]
  /\ Start(c, [op |-> "set_status", plan |-> p, to |-> "rejected"])
  /\ UNCHANGED <<content, grant, planStatus, status, planOf, record, rows, openEsc, lock,
                 next, historyVars>>

DecisionStatus(c) ==
  /\ req[c].op = "set_status"
  /\ planStatus' = [planStatus EXCEPT ![req[c].plan] = req[c].to]
  /\ End(c)
  /\ UNCHANGED <<content, approval, grant, status, planOf, record, rows, openEsc, lock,
                 next, historyVars>>

-----------------------------------------------------------------------------
(* resume_plan and abort_plan: read, then one transaction without FOR UPDATE *)

\* Mutant: the status of the execution is not checked.
ResumeReadBug(c, p) ==
  \E e \in LatestExec(p) :
    /\ ApprovalValid(p)
    /\ Start(c, [op |-> "resume", exec |-> e])
    /\ UNCHANGED <<dbVars, next, historyVars>>

ResumeRead(c, p) ==
  \E e \in LatestExec(p) :
    /\ status[e] = "paused_for_review"
    /\ ApprovalValid(p)
    /\ Start(c, [op |-> "resume", exec |-> e])
    /\ UNCHANGED <<dbVars, next, historyVars>>

AbortRead(c, p) ==
  \E e \in LatestExec(p) :
    /\ status[e] = "paused_for_review"
    /\ Start(c, [op |-> "abort", exec |-> e])
    /\ UNCHANGED <<dbVars, next, historyVars>>

\* Resolve the open escalations and move the execution and its plan to st.
Resolve(c, e, st) ==
  /\ openEsc' = [openEsc EXCEPT ![e] = FALSE]
  /\ status' = [status EXCEPT ![e] = st]
  /\ planStatus' = [planStatus EXCEPT ![planOf[e]] = st]
  /\ End(c)
  /\ UNCHANGED <<content, approval, grant, planOf, record, rows, lock, next, historyVars>>

ResumeCommit(c) == req[c].op = "resume" /\ Resolve(c, req[c].exec, "queued")
AbortCommit(c) == req[c].op = "abort" /\ Resolve(c, req[c].exec, "execution_failed")

-----------------------------------------------------------------------------
(* queue_execution, and _queue_auto_execution inside store_diagnosis *)

\* The INSERTs of a queued execution e of plan p under key k.
InsertQueued(e, p, k) ==
  /\ status' = [status EXCEPT ![e] = "queued"]
  /\ planOf' = [planOf EXCEPT ![e] = p]
  /\ record' = [record EXCEPT ![k] = e]
  /\ born' = [born EXCEPT ![k] = @ + 1]
  /\ planStatus' = [planStatus EXCEPT ![p] = "queued"]

\* The transaction starts: its reads find neither the key nor the plan in an
\* unexpired record, and the plan approved or free to run by itself.
ExecuteRead(c, p, k) ==
  /\ planStatus[p] # "none"
  /\ record[k] = 0 /\ ~PlanBusy(p)
  /\ ApprovalValid(p) \/ content[p] \in AutoAllowed
  /\ next \in Exec
  /\ Start(c, [op |-> "execute", plan |-> p, key |-> k, exec |-> next])
  /\ next' = next + 1
  /\ UNCHANGED <<dbVars, historyVars>>

\* Mutant: the idempotency record is inserted with ON CONFLICT DO UPDATE.
ExecuteCommitBug(c) ==
  /\ req[c].op = "execute"
  /\ InsertQueued(req[c].exec, req[c].plan, req[c].key)
  /\ End(c)
  /\ UNCHANGED <<content, approval, grant, rows, openEsc, lock, next, granted>>

\* It commits, unless the primary key of idempotency_records refuses it.
ExecuteCommit(c) ==
  /\ req[c].op = "execute"
  /\ record[req[c].key] = 0
  /\ InsertQueued(req[c].exec, req[c].plan, req[c].key)
  /\ End(c)
  /\ UNCHANGED <<content, approval, grant, rows, openEsc, lock, next, granted>>

\* Layer 2 stores the diagnosis of p, and its execution when it may run alone.
Diagnose(p) ==
  /\ planStatus[p] = "none"
  /\ \/ /\ content[p] \notin AutoAllowed
        /\ planStatus' = [planStatus EXCEPT ![p] = "pending_approval"]
        /\ UNCHANGED <<status, planOf, record, born, next>>
     \/ /\ content[p] \in AutoAllowed
        /\ next \in Exec
        /\ InsertQueued(next, p, p)
        /\ next' = next + 1
  /\ UNCHANGED <<content, approval, grant, rows, openEsc, lock, req, granted>>

-----------------------------------------------------------------------------
(* What happens to a request or a row without a handler *)

\* The connection fails or the dashboard restarts: the rest never runs.
DropRequest(c) ==
  /\ req[c].op # "none"
  /\ End(c)
  /\ UNCHANGED <<dbVars, next, historyVars>>

ExpireApproval(p) ==
  /\ approval[p].live
  /\ approval' = [approval EXCEPT ![p].live = FALSE]
  /\ UNCHANGED <<content, grant, planStatus, status, planOf, record, rows, openEsc, lock,
                 gateVars, historyVars>>

ExpireRecord(k) ==
  /\ record[k] # 0
  /\ record' = [record EXCEPT ![k] = 0]
  /\ born' = [born EXCEPT ![k] = 0]
  /\ UNCHANGED <<content, approval, grant, planStatus, status, planOf, rows, openEsc, lock,
                 gateVars, granted>>

\* Something outside the repository edits the stored action_plan, the change
\* that the hash of the approval is there to notice.
EditPlan(p, v) ==
  /\ planStatus[p] # "none" /\ v # content[p]
  /\ content' = [content EXCEPT ![p] = v]
  /\ UNCHANGED <<approval, grant, planStatus, status, planOf, record, rows, openEsc, lock,
                 gateVars, historyVars>>

GateNext ==
  \/ \E c \in Client :
       \/ \E p \in Plan : \/ ApproveRead(c, p) \/ RejectInsert(c, p)
                          \/ ResumeRead(c, p) \/ AbortRead(c, p)
                          \/ \E k \in Key : ExecuteRead(c, p, k)
       \/ ApproveInsert(c) \/ DecisionStatus(c)
       \/ ResumeCommit(c) \/ AbortCommit(c)
       \/ ExecuteCommit(c) \/ DropRequest(c)
  \/ \E p \in Plan : Diagnose(p) \/ ExpireApproval(p)
  \/ \E k \in AnyKey : ExpireRecord(k)
  \/ \E p \in Plan, v \in Content : EditPlan(p, v)

-----------------------------------------------------------------------------
\* At most one execution is queued under one live Idempotency-Key, whatever
\* requests with that key overlap: a second one is answered with the first.
KeyQueuesOnce == \A k \in AnyKey : born[k] <= 1
==============================================================================
