------------------------------- MODULE MCGate -------------------------------
(* The Gate with several requests at a time.  The Knowledge Agent is reduced *)
(* to the moves that Lifecycle allows it, one transaction each.              *)
EXTENDS Gate, TLC

Symmetry == Permutations(Client)

vars == <<dbVars, targetVars, historyVars, gateVars>>

Life == INSTANCE Lifecycle WITH status <- status

AgentMove(e, st) ==
  /\ <<status[e], st>> \in Life!Edge
  /\ st \in {"executing", "paused_for_review", "blocked"}
  /\ status' = [status EXCEPT ![e] = st]
  /\ planStatus' = [planStatus EXCEPT ![planOf[e]] = st]
  /\ openEsc' = [openEsc EXCEPT ![e] = @ \/ st = "paused_for_review"]
  /\ UNCHANGED <<content, approval, grant, planOf, record, rows, lock, gateVars, historyVars>>

Init == DbInit /\ GateInit

Spec ==
  /\ Init
  /\ [][(GateNext \/ \E e \in Exec : \E st \in ExecStatus : AgentMove(e, st))
          /\ UNCHANGED targetVars]_vars

\* docs/runbooks/bootstrap.md: a second key for a plan with a live record is
\* answered with 409, so one plan has at most one live record.
OneRecordPerPlan ==
  \A j, k \in AnyKey :
    record[j] # 0 /\ record[k] # 0 /\ planOf[record[j]] = planOf[record[k]] => j = k
=============================================================================
