------------------------------- MODULE Analysis -------------------------------
(***************************************************************************)
(* The analyzer of Layer 2, from a batch of anomalies to a stored          *)
(* diagnosis: cluster, look for a similar diagnosis to reuse, or else let  *)
(* the LLM agent investigate and plan, convert the plan, notify, store.    *)
(*                                                                         *)
(* The LLM is external: at every turn it may ask for tools or not, it may  *)
(* fail, and its draft may be any one.  LangGraph is external, and counts  *)
(* one super-step for each node that runs.                                 *)
(***************************************************************************)
EXTENDS Clusters, FixingPlan

CONSTANTS
  Settings,        \* the environments to start in: records of test, force, reuse
  Anomaly,         \* the rows that the consumer may read
  Batch,           \* and the batches of them
  Draft,           \* what the LLM may plan
  NoContainer,     \* the container of a row without one
  MaxIterations, RecursionLimit,
  MaxReports       \* a bound

\* Each turn takes a super-step, each but the last is followed by one of the
\* tools, and the planner takes one.
ASSUME LimitAssumption ==
  /\ MaxIterations \in Nat /\ RecursionLimit \in Nat
  /\ 2 * (MaxIterations + 1) <= RecursionLimit

ASSUME BatchAssumption == Batch \subseteq Seq(Anomaly)
ASSUME AnomalyAssumption ==
  \A a \in Anomaly : a.seen \subseteq Service /\ a.config \in BOOLEAN /\ a.time \in Int
\* The draft's Execute steps are a list, of whatever words.
ASSUME DraftAssumption == \A d \in Draft : d.execute \in Seq(ToSet(d.execute))
ASSUME SettingsAssumption == Settings \subseteq [test : BOOLEAN, force : BOOLEAN, reuse : BOOLEAN]

VARIABLES
  settings,        \* of this life of the process
  pc,
  inbox,           \* the batch, until the loop over its clusters starts
  clusters,        \* the clusters still to analyse, the current one first
  turn,            \* iteration
  supersteps,      \* what LangGraph has counted
  findings,        \* whether the taint registry holds any
  tainted,         \* history: the agent has seen injection-shaped output
  draft,
  diagnosis,       \* the diagnosis in hand
  reports          \* diagnosis_reports, oldest first

agentVars == <<turn, supersteps, findings, tainted, draft>>
vars == <<settings, pc, inbox, clusters, agentVars, diagnosis, reports>>

-----------------------------------------------------------------------------
Current == Head(clusters)

\* `containers` is affected_services and `findings` tells whether root_cause has
\* injection_findings.  `origin` is history: the investigation it goes back to.
Diagnosis(plan, found) ==
  [containers |-> Current.containers \ {NoContainer}, plan |-> plan, findings |-> found,
   origin |-> [tainted |-> tainted, seen |-> Current.seen, config |-> Current.config]]

NoDiagnosis ==
  [containers |-> {}, plan |-> NoPlan, findings |-> FALSE,
   origin |-> [tainted |-> FALSE, seen |-> {}, config |-> FALSE]]

Init ==
  /\ settings \in Settings
  /\ pc = "idle" /\ inbox = <<>> /\ clusters = <<>>
  /\ turn = 0 /\ supersteps = 0 /\ findings = FALSE /\ tainted = FALSE
  /\ draft = NoSteps
  /\ diagnosis = NoDiagnosis
  /\ reports = <<>>

\* Mutant: looks for the end before the current cluster is taken off.
NextClusterBug ==
  /\ clusters' = Tail(clusters)
  /\ pc' = IF clusters = <<>> THEN "idle" ELSE "similar"
  /\ diagnosis' = NoDiagnosis

\* The loop of process_anomaly_batch goes on with the next cluster.
NextCluster ==
  /\ clusters' = Tail(clusters)
  /\ pc' = IF Len(clusters) = 1 THEN "idle" ELSE "similar"
  /\ diagnosis' = NoDiagnosis

-----------------------------------------------------------------------------
(* A batch *)

\* What the analysis reads of a cluster.
Evidence(c) == [containers |-> c.containers, seen |-> c.seen, config |-> c.config]

\* The consumer hands over what it has read, in the order of ids, and the
\* aggregator clusters it.
TakeBatch(b) ==
  LET formed == Aggregate(b)
  IN /\ pc = "idle"
     /\ Len(reports) < MaxReports /\ Len(reports) + Len(formed) <= MaxReports
     /\ inbox' = b
     /\ clusters' = [i \in DOMAIN formed |-> Evidence(formed[i])]
     /\ pc' = "batch"
     /\ UNCHANGED <<settings, agentVars, diagnosis, reports>>

\* The loop over the clusters.
StartBatch ==
  /\ pc = "batch"
  /\ inbox' = <<>>
  /\ pc' = IF clusters = <<>> THEN "idle" ELSE "similar"
  /\ UNCHANGED <<settings, clusters, agentVars, diagnosis, reports>>

-----------------------------------------------------------------------------
(* Reuse *)

\* At least 70 % of the cluster's containers, a missing one counting as one of
\* them, are in the report.
Similar(d) ==
  LET common == Current.containers \cap d.containers
  IN common # {} /\ 10 * Cardinality(common) >= 7 * Cardinality(Current.containers)

\* Mutant: keeps the description of the root cause and drops the findings.
ReusedBug(d) ==
  [d EXCEPT !.containers = Current.containers \ {NoContainer}, !.findings = FALSE]

\* _reuse_diagnosis: everything is copied but what names the cluster.
Reused(d) == [d EXCEPT !.containers = Current.containers \ {NoContainer}]

\* find_similar_diagnosis: the newest similar one of the last 24 hours, which
\* are the reports after the first `old`.
FindSimilar ==
  /\ pc = "similar"
  /\ \E old \in 0 .. Len(reports) :
       LET similar == {i \in old + 1 .. Len(reports) :
                         settings.reuse /\ Similar(reports[i].diagnosis)}
       IN \/ /\ similar = {}
             /\ pc' = "paths" /\ UNCHANGED diagnosis
          \/ \E i \in similar :
               /\ \A j \in similar : j <= i
               /\ diagnosis' = Reused(reports[i].diagnosis) /\ pc' = "notify"
  /\ UNCHANGED <<settings, inbox, clusters, agentVars, reports>>

-----------------------------------------------------------------------------
(* The investigation *)

\* _recent_failed_plan_paths has read what failed; the registry is reset.
StartInvestigation ==
  /\ pc = "paths"
  /\ pc' = "investigator"
  /\ turn' = 0 /\ supersteps' = 0
  /\ findings' = FALSE /\ tainted' = FALSE
  /\ UNCHANGED <<settings, inbox, clusters, draft, diagnosis, reports>>

\* Mutant: forgets that the messages before the cap were turns as well.
InvestigatorBug ==
  /\ pc = "investigator"
  /\ turn' = turn + 1 /\ supersteps' = supersteps + 1
  /\ IF turn' > MaxIterations + 2 THEN pc' = "planner" ELSE pc' \in {"tools", "planner"}
  /\ UNCHANGED <<settings, inbox, clusters, findings, tainted, draft, diagnosis, reports>>

\* investigator_node and should_continue: beyond the cap the LLM is not asked.
Investigator ==
  /\ pc = "investigator"
  /\ turn' = turn + 1 /\ supersteps' = supersteps + 1
  /\ IF turn' > MaxIterations THEN pc' = "planner" ELSE pc' \in {"tools", "planner"}
  /\ UNCHANGED <<settings, inbox, clusters, findings, tainted, draft, diagnosis, reports>>

\* query_loki and query_prometheus: lines or labels, which are scanned, or a
\* message of the tool itself, which is not.
QueryOutput == {"clean", "injected", "message"}

\* execute_diagnostic_command: a command off the list, with a forbidden pattern
\* or for another host never runs.
Command == [listed : BOOLEAN, forbidden : BOOLEAN, web : BOOLEAN, local : BOOLEAN]

CommandOutput(c) ==
  IF c.listed /\ ~c.forbidden /\ (c.web => c.local) THEN {"clean", "injected", "message"}
  ELSE {"message"}

\* Mutant: guard_tool_output keeps the findings of the last output only.
GuardBug(outputs) ==
  /\ tainted' = (tainted \/ "injected" \in outputs)
  /\ findings' = ("injected" \in outputs)

\* guard_tool_output: a hit is recorded, and the text is passed on all the same.
Guard(outputs) ==
  /\ tainted' = (tainted \/ "injected" \in outputs)
  /\ findings' = (findings \/ "injected" \in outputs)

ToolOutput == QueryOutput \cup UNION {CommandOutput(c) : c \in Command}

\* ToolNode: the calls of one message, in one super-step.
RunTools ==
  /\ pc = "tools"
  /\ \E outputs \in SUBSET ToolOutput \ {{}} : Guard(outputs)
  /\ supersteps' = supersteps + 1
  /\ pc' = "investigator"
  /\ UNCHANGED <<settings, inbox, clusters, turn, draft, diagnosis, reports>>

\* planner_node: the structured answer, or none and a plan without steps.  With
\* this super-step the graph ends, and its state.
Planner ==
  /\ pc = "planner"
  /\ draft' \in Draft \cup {NoSteps}
  /\ turn' = 0 /\ supersteps' = 0
  /\ pc' = "convert"
  /\ UNCHANGED <<settings, inbox, clusters, findings, tainted, diagnosis, reports>>

\* The call of the LLM raises: the safe diagnosis without a plan, and without
\* the findings.
InvestigatorFails ==
  /\ pc = "investigator"
  /\ diagnosis' = Diagnosis(NoPlan, FALSE)
  /\ turn' = 0 /\ supersteps' = 0
  /\ pc' = "notify"
  /\ UNCHANGED <<settings, inbox, clusters, findings, tainted, draft, reports>>

\* Mutant: has the agent try again until something can be converted.
ConvertBug ==
  LET steps == EnsureLabSteps(draft, Current)
  IN /\ pc = "convert"
     /\ IF Convertible(steps, Current)
        THEN /\ diagnosis' = Diagnosis(PlanOf(steps, settings.test, settings.force, findings),
                                       findings)
             /\ pc' = "notify"
        ELSE pc' = "paths" /\ UNCHANGED diagnosis
     /\ draft' = NoSteps
     /\ UNCHANGED <<settings, inbox, clusters, turn, supersteps, findings, tainted, reports>>

\* The rest of analyze_cluster up to the diagnosis, with no await in between.
Convert ==
  LET steps == EnsureLabSteps(draft, Current)
  IN /\ pc = "convert"
     /\ diagnosis' =
          IF Convertible(steps, Current)
          THEN Diagnosis(PlanOf(steps, settings.test, settings.force, findings), findings)
          ELSE Diagnosis(NoPlan, FALSE)
     /\ pc' = "notify"
     /\ draft' = NoSteps
     /\ UNCHANGED <<settings, inbox, clusters, turn, supersteps, findings, tainted, reports>>

-----------------------------------------------------------------------------
(* The end of a cluster *)

\* _run_layer3: people hear of the diagnosis before it is stored.
Notify ==
  /\ pc = "notify"
  /\ pc' = "store"
  /\ UNCHANGED <<settings, inbox, clusters, agentVars, diagnosis, reports>>

\* store_diagnosis: the report, the audit row of the findings and the execution
\* in one transaction.
StoreDiagnosis ==
  /\ pc = "store"
  /\ reports' = Append(reports, [diagnosis |-> diagnosis, queued |-> AutoAllowed(diagnosis.plan),
                                 flagged |-> diagnosis.findings])
  /\ NextCluster
  /\ UNCHANGED <<settings, inbox, agentVars>>

\* The database or a notification raises, and process_anomaly_batch only logs:
\* the cluster is left without a report.
ClusterFails ==
  /\ pc \in {"similar", "paths", "notify", "store"}
  /\ NextCluster
  /\ UNCHANGED <<settings, inbox, agentVars, reports>>

\* The process dies and starts again, perhaps with another environment.
Restart ==
  /\ settings' \in Settings
  /\ pc' = "idle" /\ inbox' = <<>> /\ clusters' = <<>>
  /\ turn' = 0 /\ supersteps' = 0 /\ findings' = FALSE /\ tainted' = FALSE
  /\ draft' = NoSteps
  /\ diagnosis' = NoDiagnosis
  /\ UNCHANGED reports

Work ==
  \/ StartBatch \/ FindSimilar \/ StartInvestigation \/ Investigator \/ RunTools
  \/ Planner \/ Notify \/ StoreDiagnosis

Next ==
  \/ \E b \in Batch : TakeBatch(b)
  \/ Work \/ Convert \/ InvestigatorFails \/ ClusterFails \/ Restart

Spec == Init /\ [][Next]_vars

\* A batch is worked off: every call of the LLM, a tool, a notification or the
\* database has a timeout.  The fairness of Convert is that of its step of pc,
\* which no other action takes.
FairSpec == Spec /\ WF_vars(Work) /\ WF_pc(pc = "convert" /\ pc' = "notify")

-----------------------------------------------------------------------------
Container == {a.container : a \in Anomaly}

Origin == [tainted : BOOLEAN, seen : SUBSET Service, config : BOOLEAN]

FixingPlanType == [steps : Seq(Operation), test : BOOLEAN, auto : BOOLEAN, review : BOOLEAN]

DiagnosisType ==
  [containers : SUBSET Container, plan : FixingPlanType, findings : BOOLEAN, origin : Origin]

TypeOK ==
  /\ settings \in Settings
  /\ pc \in {"idle", "batch", "similar", "paths", "investigator", "tools", "planner",
             "convert", "notify", "store"}
  /\ inbox \in Seq(Anomaly)
  /\ clusters \in Seq([containers : SUBSET Container, seen : SUBSET Service, config : BOOLEAN])
  /\ pc = "idle" => clusters = <<>>
  /\ clusters = <<>> => pc \in {"idle", "batch"}
  /\ turn \in 0 .. MaxIterations + 1 /\ supersteps \in Nat
  /\ findings \in BOOLEAN /\ tainted \in BOOLEAN
  /\ draft \in Draft \cup {NoSteps}
  /\ diagnosis \in DiagnosisType
  /\ reports \in Seq([diagnosis : DiagnosisType, queued : BOOLEAN, flagged : BOOLEAN])

\* The cap of investigator_node ends an investigation before LangGraph does:
\* there is always a super-step left for the planner, so that an LLM that never
\* stops asking for tools still gives a plan.
CapBeforeLimit ==
  /\ supersteps <= RecursionLimit
  /\ pc = "planner" => supersteps < RecursionLimit

\* What an injection-shaped output has touched is never queued without a human,
\* in this diagnosis or in any that is copied from it, in whatever environment.
TaintedNeverAuto ==
  \A i \in DOMAIN reports : reports[i].queued => ~reports[i].diagnosis.origin.tainted

OnlyObserved(d) == Services(d.plan.steps) \subseteq d.origin.seen

NotWhatIsBroken(d) ==
  d.origin.config =>
    \A j \in DOMAIN d.plan.steps : d.plan.steps[j][2] \notin {"start", "restart", "reload"}

\* A stored plan fits the evidence of the investigation it comes from: it only
\* touches services that were observed, and does not restart or reload with the
\* configuration that was seen to be broken, whatever the LLM proposed.
PlanFitsEvidence ==
  \A i \in DOMAIN reports :
    OnlyObserved(reports[i].diagnosis) /\ NotWhatIsBroken(reports[i].diagnosis)

\* A command that differs from the one granted: another user or effect, more time,
\* an environment, or a further argument.
Altered(r) ==
  {[r EXCEPT !.root = ~@], [r EXCEPT !.timeout = @ + 1], [r EXCEPT !.env = TRUE],
   [r EXCEPT !.effect = IF @ = "read" THEN "mutate" ELSE "read"],
   [r EXCEPT !.argv = Append(@, "more")]}

\* Where a command may be started: in the directories of a service and below them,
\* above them, in what may be written only, and on a way that leads up again.
Places ==
  UNION {{Etc(s), Etc(s) \o <<"conf.d">>, Etc(s) \o <<"..", "nginx">>, Snapshots(s)} : s \in Service}
    \cup {Root, <<"etc">>, DevNull}

\* The manifest is exact: no plan is refused because its own manifest misses one
\* of its commands, and the On-Device Agent runs every command of a plan, refuses
\* all others of the catalogue and every altered one, and starts none anywhere but
\* in the root and in the directories of the services that the plan repairs.
ProfileExact ==
  /\ pc = "convert" =>
       LET steps == EnsureLabSteps(draft, Current) IN Known(steps) => Covered(steps)
  /\ pc = "notify" /\ diagnosis.plan # NoPlan =>
       LET steps == diagnosis.plan.steps
           granted == {RunnerFor(o) : o \in ToSet(PlanOps(steps))}
           other == {RunnerFor(o) : o \in Operation} \ granted
           Refused(r) == \A answer \in RunCommand("enforce", ProfileOf(steps), r) :
                           answer.status = "blocked"
       IN /\ \A r \in granted : ~Refused(r)
          /\ \A r \in other \cup UNION {Altered(g) : g \in granted} : Refused(r)
          /\ \A g \in granted, place \in Places :
               Refused([g EXCEPT !.cwd = place]) <=> ~AtHome(place, Services(steps))

\* Two anomalies that are left out as too small a cluster do not belong together:
\* none shares its container or its service with the other within a window.
LoneLeftOut ==
  pc = "batch" =>
    LET small == {i \in DOMAIN Grouped(inbox) : ~LargeEnough(Grouped(inbox)[i])}
    IN \A i, j \in small : i # j =>
         LET a == Grouped(inbox)[i].members[1]
             b == Grouped(inbox)[j].members[1]
         IN a.time - b.time \in -Window .. Window =>
              a.container # b.container /\ a.service # b.service

\* The reports are what Layer 2 promises of them.
Table == INSTANCE DiagnosisTable WITH
  table <- [i \in DOMAIN reports |->
              [plan    |-> reports[i].diagnosis.plan # NoPlan,
               tainted |-> reports[i].diagnosis.origin.tainted,
               queued  |-> reports[i].queued,
               flagged |-> reports[i].flagged]]

TableSpec == Table!Spec

\* Every batch is worked off: neither an LLM that goes on asking for tools nor a
\* plan that cannot be converted keeps the consumer from its next poll.
Concludes == pc # "idle" ~> pc = "idle"
==============================================================================
