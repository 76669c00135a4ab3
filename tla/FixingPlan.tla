------------------------------ MODULE FixingPlan ------------------------------
(***************************************************************************)
(* From what the LLM drafts to the executable plan: the deterministic lab  *)
(* steps, the conversion with its checks, and the policy that decides      *)
(* whether the plan may run by itself.                                     *)
(*                                                                         *)
(* A draft is the (target, operation) pairs of its node_agent commands in  *)
(* Execute steps, in the order of step_id, and the set `aside` of the      *)
(* pairs that stand anywhere else.  A cluster is what its evidence shows:  *)
(* the services it mentions (`seen`) and whether a message has one of the  *)
(* signatures of a configuration error (`config`).                         *)
(***************************************************************************)
EXTENDS OnDeviceAgent, Selections

NoPlan == [steps |-> <<>>, test |-> FALSE, auto |-> FALSE, review |-> FALSE]

NoSteps == [execute |-> <<>>, aside |-> {}]

Start(s) == <<s, IF s = "nginx" THEN "start" ELSE "restart">>

\* What a configuration error takes out of the draft, before it is known what
\* is put in.
Removed(cluster) ==
  IF cluster.config THEN {Start(s) : s \in cluster.seen} \cup (cluster.seen \X {"reload"})
  ELSE {}

Repair(s, cluster) == IF cluster.config THEN <<s, "restore_config">> ELSE Start(s)

\* The order in which the code looks for the services of the lab.
LabServices == <<"nginx", "postgresql", "redis", "mysql">>

Repairs(services, cluster) == [i \in DOMAIN services |-> Repair(services[i], cluster)]

\* Mutant: forgets what the draft said before the signature was noticed.
EnsureLabStepsBug(draft, cluster) ==
  LET existing == ToSet(draft.execute) \cup draft.aside
      missing == {s \in cluster.seen : Repair(s, cluster) \notin existing}
  IN draft.execute \o Repairs(Filter(LabServices, missing), cluster)

\* _ensure_lab_node_agent_steps: the Execute commands that result.  A pair that
\* the draft has anywhere is not added again.
EnsureLabSteps(draft, cluster) ==
  LET removed == Removed(cluster)
      existing == (ToSet(draft.execute) \cup draft.aside) \ removed
      missing == {s \in cluster.seen : Repair(s, cluster) \notin existing}
  IN Filter(draft.execute, ToSet(draft.execute) \ removed)
       \o Repairs(Filter(LabServices, missing), cluster)

-----------------------------------------------------------------------------
(* A plan is its steps and its policy; the rest follows from the steps.    *)

Services(steps) == {steps[i][1] : i \in DOMAIN steps}

\* Steps, their verifications, the final verification, snapshot and rollback.
PlanOps(steps) ==
  LET s == PrimaryService(Services(steps))
  IN steps \o [i \in DOMAIN steps |-> VerificationFor(steps[i])]
       \o <<FinalProbe(s), <<s, "ensure_snapshot">>, <<s, "restore_config">>>>

ProfileOf(steps) == ExecutionProfileFor(PlanOps(steps), Services(steps))

\* _to_fixing_plan raises when nothing is executable, an operation is not in
\* the catalogue, or a service was never observed; and so does the validator of
\* FixingPlan when the manifest does not cover a command.
Known(steps) == steps # <<>> /\ ToSet(steps) \subseteq Operation

MatchesEvidence(steps, cluster) == Services(steps) \subseteq cluster.seen

Covered(steps) ==
  \A i \in DOMAIN PlanOps(steps) :
    ProfileAllows(ProfileOf(steps), RunnerFor(PlanOps(steps)[i]))

Convertible(steps, cluster) ==
  Known(steps) /\ MatchesEvidence(steps, cluster) /\ Covered(steps)

\* Findings take the policy back that the environment gave.
PlanOf(steps, test, force, findings) ==
  [steps |-> steps, test |-> test, auto |-> test /\ ~force /\ ~findings,
   review |-> findings]

\* _plan_auto_allowed; the risk level of a converted plan is always low.
AutoAllowed(plan) == plan.steps # <<>> /\ plan.test /\ plan.auto /\ ~plan.review
==============================================================================
