# AADS in TLA+

AADS collects the logs of services, detects anomalies, lets an LLM agent write a
repair plan, asks a human for consent where the policy wants it, and runs the
plan on the target node. This directory holds TLA+ modules of the whole way: from
a log line to its analysis, from a batch of anomalies to a stored plan, and from
the plan to a repaired node. They are translated from the source, model-checked
with TLC and, for the properties that matter most, proved with TLAPS.

## 1. Inventory

| part | code | state it keeps | operations | talks to |
| --- | --- | --- | --- | --- |
| Layer 0 collection | `layer0-collector/`, Loki | log streams | ingest, query_range | Layer 1, archiver, Layer 2 tools |
| Layer 0 archiver | `layer0-storage/sync/log_archiver.py` | `last_timestamp`; `raw_logs` | `run_once`: query Loki, insert, move the cursor | Loki, database |
| Layer 1 filter | `layer1-filter/src/` | `last_timestamp`; `anomaly_logs` | `process_batch`: fetch, predict, upsert, move the cursor | Loki, database |
| Layer 1 ingester | `layer1-filter/ingester/main.py` | `anomaly_logs` | `create_anomaly`, batch | database |
| LogBERT stream | `logbert/src/` | log buffer, cursor | add, flush, poll | Loki |
| Layer 2 analyzer | `layer2-analyzer/src/` | `last_processed_id`, findings of an investigation; `diagnosis_reports` | consume, cluster, reuse or investigate, plan, store, auto-queue | database, LLM, Loki, Prometheus |
| Layer 3 Gate | `dashboard/app.py` | `plan_approvals`, `plan_executions`, `idempotency_records` | approve, reject, execute, resume, abort | database |
| Layer 4 Knowledge Agent | `layer4-executor/src/executor.py` | memory of one execution; `execution_steps`, `node_locks`, `execution_escalations` | claim, check, lock, run, verify, roll back, recover, pause, finish | database, On-Device Agent |
| On-Device Agent | `pi-agent/src/` | PolicyCard, the node itself | `run_command` through hooks, facts, health | target services |
| notifications, UI, deployment | `notify.py`, `dashboard/static`, compose files | none that control reads | | |

They share one PostgreSQL database (READ COMMITTED), poll it, and call each
other over HTTP only from the Knowledge Agent to the On-Device Agent. There is
no message queue: a row's status is the message. What is hard is therefore

* **crash and restart** of the Knowledge Agent between any two statements: it
  commits statement by statement and recovers from rows alone;
* **lost answers**: a command that timed out may have run, run later, or not;
* **overlapping requests** in the threads of the dashboard, which read and then
  write without `FOR UPDATE`;
* **expiry**: approvals, idempotency records and node locks run out at any time;
* **edits of the stored plan** between the approval and the run (ADR-006);
* **cursors** of the pollers in Layers 0 to 2, moved before or after the work.

What makes each part correct:

* Knowledge Agent: steps in order over crashes; no blind repetition of what
  cannot be repeated; nothing runs without consent; every execution ends or
  pauses; what ended stays ended; a paused one is visible to a human.
* node lock: at most one command train per node as long as leases run, a train
  that outlasts its lease by no more than the database takes, and no node kept
  for ever by a dead process.
* Gate: one key queues one execution; decisions survive overlapping requests.
* Layer 2: a dedup_key is analysed at most once; a tainted investigation never
  runs by itself, nor does what is copied from it; a plan targets only observed
  services and carries exactly the permissions of its commands; every batch is
  worked off.
* Layer 1 filter: the cursor passes over nothing that it could still read and has
  not stored. (The archiver has a cursor too, and promises nothing of the kind.)
* On-Device Agent: what PolicyCard denies never runs.

`PROJECT.json` lists the hazards at their lines with the properties that cover
them.

## 2. Modules

| module | models | composes |
| --- | --- | --- |
| `NodeMutex` | what the node lock promises: mutual exclusion | |
| `NodeLocks` | `node_locks`, `acquire_lock`, the `finally` block, the sweep, in seconds | implements `NodeMutex` |
| `RepairState` | the tables that Gate and Knowledge Agent share, and the target node | |
| `Gate` | the plan handlers of the dashboard, `store_diagnosis`, expiry, edits | `RepairState` |
| `Executor` | the Knowledge Agent as one process with a program counter | `RepairState` |
| `Repair` | both over one database; the safety and liveness properties | `Gate`, `Executor`, implements `Lifecycle` |
| `Lifecycle` | the abstract life of an execution's status | |
| `AnomalyLogs` | the table `anomaly_logs` with its transactions, and the ingester | |
| `Layer1Filter` | the polling loop of Layer 1, its store, its restart; Loki | `AnomalyLogs` |
| `Detection` | both writers and the Layer 2 consumer | `Layer1Filter` |
| `Selections` | Python's `sorted()` and list comprehensions, by the rank of each position | |
| `Clusters` | the aggregator: a batch becomes clusters | `Selections` |
| `RunnerCatalog` | the catalogue of commands, their probes, the permission manifest and the predicate that checks it | |
| `OnDeviceAgent` | the answer to one command: hooks, PolicyCard, runner | `RunnerCatalog` |
| `FixingPlan` | lab steps, conversion, evidence, policy, the choice of what runs by itself | `OnDeviceAgent`, `Selections` |
| `DiagnosisTable` | what Layer 2 promises of `diagnosis_reports` | |
| `Analysis` | the analyzer as one process, from a batch to stored diagnoses | `Clusters`, `FixingPlan`, implements `DiagnosisTable` |
| `*_proofs` | the theorems | |
| `MC*` | instances for TLC; `MCFindings` and `MCGate` also state what the repository says and the code does not do; `MCLive` and `MCDrains` add a last failure, and with it the fairness and the liveness properties | |

### State

A plan is its id. Its content is a member of `Content`; two contents are equal
exactly when their canonical SHA-256 is, so a hash is the content itself. What
the code derives from the content alone is a set: `AutoAllowed`
(`plan_auto_allowed`), `Malformed` (`validate_plan` fails), `Misplaced`
(`environment_allowed` fails on the node). Steps are `1..NSteps`; `Mutating` and
`Idempotent` are the steps whose runner mutates and whose mode is idempotent.
Executions are numbered in the order of `requested_at`, which is the start of
the transaction that inserts them. `approval` is the latest `plan_approvals` row
(`approval_valid` reads only that one) and `grant` the hash of the latest
approved row (`approval_plan_hash` reads that one even after a rejection).
Approvals, idempotency records and locks carry no time: an action lets them
expire whenever it likes.

The target node is `applied`, the steps of a plan whose change is in place, and
`baseline`, what the snapshot would restore. A step may verify only when it is
in place; the final verification looks at the service and may answer anything.

`granted` and `born` are history variables: what a human ever approved, and how
many executions a live key has queued. No action reads them.

`NodeLocks` counts time as the distance to the deadlines. A process has at most
one train in progress, of the command `cmd` with its timeout and its attempts;
`TTL` is the code's formula (`executor.py:800`). `lease` is history: the seconds
until the lease that the process took ends, whatever has become of its row, and
negative when the train goes on behind it. No action reads it.

In `Detection` a line that has arrived in Loki has a name, a timestamp and a
`Kind`, or `Normal` when no stage fires. A kind is a node, a service and a message;
`Message` says which kinds are the same message of different nodes or services.
Loki counts nanoseconds and the code microseconds: the timestamp of a line
counts in halves of a microsecond, enough to tell the lines that a query from
their own microsecond returns from those whose time was rounded up past them
(`ToMicro`, `ToNano`). A dedup_key has the text of the time in it, hence its
`Zone`: the filter writes times without one, a client of the ingester as it likes.
A row of `anomaly_logs` is its id; it belongs to a writer until that writer's
transaction ends. `excused` and `taken` are history: the anomalies that the code
gives up, each added where it happens (too late, before a restart, LogBERT or the
database failed, another node's line of the same message and microsecond kept in
its place, below the cursor within its microsecond), and how often a key was
handed over.

In `Analysis` an anomaly is its container, its service, its time, and what the
code looks for in its text: the services it mentions (`seen`) and the signature
of a configuration error (`config`). A draft of the LLM is what survives of a
`ClaudeStylePlan`: the (service, operation) pairs of its `node_agent` commands in
Execute steps, and the set `aside` of the pairs that stand anywhere else. A plan
is its steps and its policy (`test`, `auto`, `review`); verifications, final
verification, snapshot, rollback and manifest are functions of the steps
(`PlanOps`, `ProfileOf`). The taint registry is one bit, `findings`; an output of
a tool is clean, injected, or a message of the tool itself, which is not scanned.
`tainted` and the `origin` of a diagnosis are history: what the agent really saw,
and the evidence of the investigation that a diagnosis goes back to through any
number of copies. No action reads them.

A runner is told apart by a shortened argv (equal prefixes stay equal), user,
effect, timeout, working directory and whether it has an environment. A path is the
sequence of its names. The path permissions of the manifest keep their modes: they
decide the working directory (covered with `r`, without `..`) and the one path in
an argv of the catalogue, `/dev/null`. Every command of the catalogue starts in the
root and without an environment; others are what a plan could hold that was
altered after its making.

### Actions

Every statement that the code commits alone is an action of its own, in the
order of the code; what it commits in one transaction is one action, or two when
it reads and later writes without a lock (`ResumeRead`, `ResumeCommit`).
`Executor` is sequential: `ka.pc` names the next statement. The command train
(`run_runner_command`) is shared by snapshot, step, verification, recovery
probe, rollback and final verification, as in the code: `AcquireLock`,
`StartAttempt` (which upserts the step's row, with count 0 for a probe),
`AgentReply` (another attempt or an outcome), `ReleaseLock`.

`Crash` leaves the rows and forgets `ka`; a command on its way may still run
(`InFlight`). `Unwind` is an exception that reaches the loop of `start()` after
the `finally` block deleted the lock. A command whose call is cut off may still
run for a moment on the node; the agent answers one request after the other (it
blocks its event loop in `subprocess.run`), so the next command of the train
waits for it and the model lets it take effect when the call ends.

`DropRequest` loses a request between two statements. `EditPlan` is external:
the change of a stored plan that the hash in the approval is there to notice.

Layer 1 is `Fetch` (the query, the conversion of the timestamps, the stages and
their fusion), one `StoreRow` and `StoreCommit` per anomaly, `MoveCursor`;
its failures are `StoreRowFails` (the exception of a row is swallowed),
`StoreFails` (the pool raises and the cursor stays) and `FilterRestart`. A query
that fails changes nothing. `Upsert` waits while the key belongs to the open
transaction of the other writer; the ids a waiter or a conflict uses up are left
out. `Poll` moves the offset before the callback, and nothing the callback does
comes back, so that it is one step.

Layer 2 is sequential: one batch, one cluster at a time, `pc` names the next
await. `TakeBatch` is the callback of `Detection.Poll` with its rows. `FindSimilar`
reads the newest reports (24 hours are a suffix of any length), a copy is notified
and stored like a fresh diagnosis. An investigation is LangGraph's loop: each node
that runs is a super-step, `Investigator` asks the LLM (or, beyond the cap, does
not), `RunTools` runs the calls of one message, `Planner` ends the graph.
`Convert` is all the code between the plan and the diagnosis, which has no await;
when it raises, the fallback diagnosis without a plan is stored. `StoreDiagnosis`
is one transaction; `Gate.Diagnose` is the same transaction as the Gate sees it,
with the row it queues. `ClusterFails` is any exception outside of the `try` of
`analyze_cluster`. `Restart` may change the environment, as a redeployment does.

Loki and time: there is no clock. A line whose time lies beyond the end of a
query is, for the model, one that arrives later; the start of the very first
window may be any time. `QueryRange` gives the earliest lines of the window, with
any choice among equal times, since streams are merged in no stated order.

### Bounds and abstractions

`MaxExec` bounds the executions ever inserted; `MaxAttempts` is the attempt
limit of an idempotent step (the snapshot has 2, everything else 1, as in the
code); `Client` bounds the requests in progress. In `NodeLocks`, `Slack` bounds
the seconds a train spends in its own statements. The code does not enforce such a
bound and nothing is assumed of it: `Overrun` is what a train of a command may need
beyond its lease, and is positive for the restarts of `postgresql` and `mysql`.

Left out: audit rows, contents of results and of escalations, the escalation
webhook, the optional knowledge base, the row of the snapshot (step 0, which
recovery does not read), and the three names that `kb_done` stands for; in Layer 2
the texts of prompts, summaries and notifications, severities, ids, and the limit
of 50 reports to compare with. The row
`plan_approvals` needs its diagnosis (a foreign key), hence the guard of
`RejectInsert`. `ExpireLock` of `Executor` never takes the row of a running
train: that is what `NodeLocks` establishes while the lease runs, and `Executor` is
one process, which does not sweep in the middle of a train.

## 3. Runs

| run | instance | checks | shows |
| --- | --- | --- | --- |
| `locks` | 2 nodes, 2 processes, a command of 2 attempts of 2 s that fills its lease of 4 s and one of 2 attempts of 1 s whose lease of 3 s is enough, slack 1 s | `TypeOK` `HoldsLease` `StaleRowsFade` `MutexSpec` | while a lease runs no sweep and no takeover takes the node away; a train outlasts its lease by the slack at most; rows of the dead fade; the trains within their lease exclude each other |
| `repair` | 1 plan of 2 mutating steps (the first idempotent, 2 attempts), snapshot and rollback, 1 client, 1 key | `TypeOK` `InOrder` `PausedIsListed` `NoBlindRepeat` `LifecycleSpec` | order, no blind repetition, pauses are listed and the life cycle is kept, over every crash point and every answer |
| `consent` | 1 plan edited among 3 contents | `Consent` | the order "read plan, check approval, check hash" leaves no gap for an edit |
| `gate` | 2 plans, 1 key, 2 overlapping clients, the Knowledge Agent reduced to the moves of `Lifecycle` | `KeyQueuesOnce` | the primary key of `idempotency_records` decides between overlapping requests |
| `live` | 2 plans of 1 step with rollback that run by themselves, no client | `Settles` | once crashes stop, every queued execution ends or pauses |
| `detection` | 2 kinds with one message, which LogBERT may miss, 3 lines at 3 times of Loki in 2 microseconds, keys with a zone or without, batches of 2 and 1, 1 row that does not commit | `TypeOK` `NothingPassedOver` `AnalysedOnce` | the cursor passes over nothing that it could still read, a dedup_key is analysed at most once |
| `drains` | 1 kind, 3 lines that arrive in turn, every row commits, of one microsecond a query returns fewer lines than a batch | `Drains` | once failures stop, all that is ahead of the cursor is stored and all that is stored is handed over |
| `analysis` | batches of up to 3 of 5 rows (2 containers of which one is missing, 3 services) and one that makes 2 clusters, 4 drafts, 3 environments, 2 reports, the cap 10 and the limit 25 of the code | `TypeOK` `CapBeforeLimit` `TaintedNeverAuto` `PlanFitsEvidence` `ProfileExact` `LoneLeftOut` `TableSpec` `Concludes` | the way from a batch to a stored plan keeps its promises against any LLM, any tool output, reuse and restart; the reports implement `DiagnosisTable` |
| `auto_retry` | 1 step | `FailureAwaitsHuman`, violated | a crash before the pause makes recovery retry a failure |
| `silent_death` | 1 step | `NoSilentDeath`, violated | recovery may end a changed target as `failed_retryable` or `blocked` |
| `paused_listed` | 2 clients | `PausedIsListed`, violated | a second resume in flight closes the next escalation |
| `one_record` | 2 clients, 2 keys | `OneRecordPerPlan`, violated | two keys queue one plan twice |

The bounds are small because the hazards are: an interleaving needs one
execution, one other actor and one crash point. Two steps tell "before" from
"after"; one idempotent and one that is not show both branches of the recovery;
two attempts show the first, the last and the crash between them; three lines
are one more than a batch, so that a limit leaves one out; three contents show
an approved, a free and a malformed plan; two executions show the queue behind
one that a crash left. In `analysis` two reports show a diagnosis and a copy of
it; the drafts show a repair of its own, one of a service that was not observed,
one that is not in the catalogue, one that hides the repair in another phase,
and none; the rows show both reasons to share a cluster, a gap longer than the
window, a line without a container and one whose service is not in the
catalogue. In `locks` the long command stands to its lease as the shipped restarts
do (two attempts of 60 s, lease 120 s): without the statements of the database the
train ends with the lease, with them behind it, and the other process may be in
between. In `detection` three times of Loki in two microseconds show a line that its
own microsecond returns, one that was rounded up to it, and one before both.
Deadlock is checked
where something can always happen (records expire, plans can be edited); `live`,
`detection`, `drains` and two violation runs switch it off because there every
execution may be finished, or every line read, and nothing is left to do.

**Fairness.** `FairSpec` of `MCLive` assumes weak fairness of the next step of
the Knowledge Agent (`while True` in `start()`, in a container with
`restart: unless-stopped`) and of the expiry of a lock row (time passes and the
loop sweeps on every turn). Humans are under no fairness; the instance has none.
`FairSpec` of `MCDrains` assumes that both polling loops go on (`while True`,
exceptions are caught and logged) and that the ingester's transaction ends (the
driver's `command_timeout`). Crashes and exceptions may send an execution or a
cursor back, and nothing bounds their number, so both properties ask only for
behaviours in which they end: `calm` becomes TRUE with the last of them. It is a
variable because a crash can look like a step of the work (a restart may put the
cursor where it was), so that a formula over steps could not tell them apart.
`NoBurst` is a guard of `MCDrains`: with a whole batch of lines of one microsecond
the cursor stays where it is, and `Drains` would fail.
`FairSpec` of `Analysis` assumes that the analyzer goes on with a cluster: the
calls of the LLM, the tools (30 s), the webhooks of notifications and the
database have timeouts, and each either returns or raises. It is weak fairness
of the steps that do not fail; a failure moves a cluster on as well. Nothing is
assumed of what the LLM answers: `Concludes` holds because of the cap and of the
fallback. Weak fairness of `Convert` is stated by its step of `pc`, which no
other action takes, because the enabling of the whole action is slow to
evaluate. `FairSpec` of `NodeLocks` adds that time passes (strong fairness of
`Tick`, because time waits for a claimant that has used up its share) and that a
live process goes on.

## 4. Proofs

| theorem | argument |
| --- | --- |
| `NodeLocks_proofs`: `TypeCorrect`, `LeaseHeld`, `Exclusion` | `TypeOK /\ HoldsLease` is inductive, for any catalogue: the time a lease has left and the command's `Overrun` are together never less than what its train may still need, because both shrink by the second and acquisition starts with them equal or better (`LeaseType`, `Budget`). Mutual exclusion of the trains within their lease is the refinement of `NodeMutex` with `holder` computed from the trains: a lease that runs means that the row is still there, and a row that is there lets nobody else in (`HeldIsNotTakeable`). |
| `NodeLocks_proofs`: `FittingCatalogue` | for a catalogue in which every command fits its lease, `Overrun` is 0 and the same invariant gives one train per node without further condition. The shipped one is not of this kind (section 5). |
| `Repair_proofs`: `TypeCorrect` | `TypeOK` alone is not inductive: the step number and the attempt count are used as indices. `TypeInv` adds `MemoryOK`, which says at each `pc` what the memory holds (an execution is claimed, the step is one of the plan's, the attempt is within the job's limit). |
| `Order_proofs`: `StepsInOrder`, `NeverBlind` | `OrderInv` adds that the step the process is at has only verified steps before it and, before a step's first attempt, a row that is absent, failed, or running and repeatable. |
| `Consent_proofs`: `OnlyWithConsent` | `ConsentInv` adds that an execution number belongs to one request until it has a row (`Reserved`), that an approved decision has its content on record (`Granted`), and that at the hash check the plan in hand is free to run or an approval exists (`Checked`). Approvals expire, hashes stay: this is why the check order of the code is right. |
| `Lifecycle_proofs`: `OncePerKey` | the counter of a key is 0 whenever it has no record. |
| `Lifecycle_proofs`: `PausedListed`, `LifeImplemented`, `OneRequestAtATime` | `LifeInv` adds to `PausedIsListed` where the process may be: from the claim to the write that ends or pauses an execution its status is one of `Running`, so that the write is an edge of `Lifecycle` (`AgentLife`); and a resume or an abort that has passed its check is about an execution that is paused (`Waiting`). A second request that overlaps breaks `Waiting`, and with it both properties: the hypothesis `DecisionsApart` excludes just that, two requests in progress about the same execution. It is what a `SELECT ... FOR UPDATE` or a condition in the `UPDATE` of `resume_plan` and `abort_plan` would give, the code has neither, and the run `paused_listed` shows what follows. With one client it holds by itself. |
| `Detection_proofs`: `TypeCorrect` | the buckets of the dedup_key stay within the bound, times on the side of Loki become moments (`Rounding`); only anomalies are ever to be stored. |
| `Detection_proofs`: `NothingLost` | `CursorInv` says what holds in the middle of a batch: an anomaly is settled (stored, or given up), or its group of the fusion is still to be stored (`todo`, `Waiting`), or in the transaction that is about to commit (`Pending`), or no earlier in Loki's time than all that was read (`Behind`). Only the last makes `MoveCursor` safe: with the order in which Loki answers, a line behind the batch is below the new cursor only when it has the cursor's microsecond. |
| `Analysis_proofs`: `CapComesFirst` | `StepsFollowTurns`: in the loop, super-steps are twice the turns, less one before the tools have run; with `LimitAssumption` the planner has one left. |
| `Analysis_proofs`: `TaintReachesAHuman` | `TaintInv`: `findings` holds whenever `tainted` does (the flag of the registry and the truth agree at every step of the investigation); a diagnosis whose origin is tainted has no plan, or its findings and a plan with `review`; and so has every report, so that a copy of one is again such a diagnosis. A restart into another environment changes nothing in it. |
| `Analysis_proofs`: `AnalysisImplementsTable` | a corollary: the row that `StoreDiagnosis` appends is `Sound`, every other step leaves the table as it is. |
| `Analysis_proofs`: `LoneAreApart` | `Formed`, along the batch: a cluster has its first anomaly's container and service, ends no earlier than it and no later than what is still to come, and the first anomalies of two clusters do not belong together. It needs that the batch was sorted (`ByTimeSorts`): an anomaly beyond the window of a cluster's end is then beyond that of its first as well. That grouping is defined for batches of every length is `Placements`. |
| `Analysis_proofs`: `TypeCorrect` | `TypeInv`: a cluster is at hand from the start of a batch to its end, the clusters are a selection of what `Formed` describes, and what can be converted is a list of operations (`KnownSteps`). |
| `Analysis_proofs`: `PlansFitEvidence` | `FitInv`: the diagnosis in hand and every report either has no plan or one whose steps fit its origin, which copies keep. That a conversion starts with such a diagnosis is `NothingStartsBroken` and the check in `Convertible`. |
| `Analysis_proofs`: `ManifestsAreExact` | the same invariant gives the shape of the steps, the theorems on manifests the rest: an altered command has the argv of the granted one, and then its user, effect, time and environment are that one's (`AlteredIsRefused`), or a longer one, which no operation has. A command of the plan that is started elsewhere is refused exactly when that place is neither the root nor in a directory of the services (`PlacesAreExact`). |
| `FixingPlan_proofs`: `EveryServiceIsRepaired`, `NothingStartsBroken` | the steps are those of the draft that are not removed and the repairs that are missing (`LabStepsShape`), which rests on what sorting and filtering return (`Ranks`, `Enumerates`, `FilterSelects`). With a configuration error everything that starts, restarts or reloads an observed service is removed, and the rest of the catalogue does neither. |
| `FixingPlan_proofs`: `ManifestIsExact`, `PlanIsCovered`, `AgentRunsOnlyThePlan` | the argv of the catalogue tell its commands apart and none is a prefix of another (`ArgvTellsApart`), hence the first permission that matches is that of the command itself. What `profile_allows` accepts is stated as an equivalence, for every runner, in any directory: the plan's argv, privilege and effect, no more time, no environment, a start in the root or in a directory of the services (`PlacesAreGranted`). For plans of every length and all services: no plan is refused because of its own manifest, and in enforce mode the On-Device Agent runs no other command of the catalogue and starts none elsewhere. |
| `Detection_proofs`: `OncePerKey` | `OnceInv`: a key has at most one row, over both writers and all transactions, and when it was handed over that row is committed and not beyond the offset; a restart of the consumer only moves the offset forward. |

They hold for every number of plans, steps, clients, keys, attempts and
executions, of lines, kinds, rows and batch sizes, from the named assumptions
`PlanAssumption`, `KeyAssumption`, `TimingAssumption`, `NameAssumption`,
`TableAssumption`, `FilterAssumption`, `ConsumerAssumption`, `WindowAssumption`, `LimitAssumption`, `BatchAssumption`,
`AnomalyAssumption`, `DraftAssumption` and `SettingsAssumption`; `LimitAssumption` is
the relation between the cap of `investigator_node` and LangGraph's limit that the
code never states, and `DraftAssumption` says no more of a draft than that its steps
are a list. Every safety property that a passing run checks is a theorem, two of them
(`PausedIsListed`, `LifecycleSpec`) under the condition that the code does not
establish. Lists are given by positions and ranks (`Selections`) and not by folds or
`SelectSeq`, because the prover has no induction over data: where one is needed, the
proofs argue by the least counterexample (`LeastOf`).

Liveness (`Settles`, `Drains`, `StaleRowsFade`, `Concludes`) is beyond the prover and
only model-checked.

## 5. What the code does not do

The four violation runs are disagreements between the repository's own words and
its code; `PROJECT.json` quotes both sides. Further ones met on the way, not
checked by a run: the approval is checked again at every recovery, not only when
the execution starts (bootstrap.md:199-200); `execution_failed_unknown_state`
(bootstrap.md:212) is never written, the code pauses instead; a rollback undoes
steps that stay on record as verified; `failed_retryable` is called retryable
and nothing retries it; the webhook of Layer 2 "triggers immediate analysis"
(layer2-analyzer/src/main.py:1260) of a payload without the `time` that
clustering reads, so `AnalysedOnce` need not count it; a pause for
`unrecoverable_step_state` leaves the step on record as running (executor.py:632), so
that each resume probes and pauses again; re-reading the newest line
inflates `occurrence_count`; an upsert that finds its row still reports
`INSERT 0 1`, so the store never counts a duplicate (anomaly_store.py:175-178).

**The end of a lease.** The restarts of `postgresql` and `mysql` have a timeout of
60 s (runner_catalog.py:93, 101), two attempts (:167) and therefore a lease of
max(2 * 60, 120) = 120 s (executor.py:800). The second call may be cut off with the
last second of the lease; the row of the step, the audit and the release
(executor.py:419-453) lie behind it, and so does the second call itself when the
first statements took time. From then on another process, such as a container that
was started while its predecessor still runs, may take the node over or sweep its
row, and two trains work on one node, of which docs/AADS-Testing.md:99 says that at
most one does. TLC finds this for `OneTrainPerNode` in the instance of `locks` in 11
steps; the commands of 30 s and less fit their lease, and `FittingCatalogue` shows
that with them alone it cannot happen. With the one process that the compose file
starts there is nobody to take the node over.

**Lines that Layer 1 gives up.** `datetime.fromtimestamp(int(ns) / 1e9)` rounds to the
nearest microsecond (layer1-filter/src/main.py:142) and the cursor goes back through
a float (:115): a line whose time was rounded up is below the cursor made from it. It
was read, but when the limit cuts the batch within that microsecond, its neighbours
are not read any more. `_run_fusion` groups by timestamp, container and message
(:244), and of two nodes or services that write one message in one microsecond one
is stored. `NothingPassedOver` excuses just these.

**Two keys for one anomaly.** `_dedup_key` takes the text of the time as it comes
(anomaly_store.py:207): the filter writes it without a zone, a client of the ingester
usually with one (ingester/main.py:281), so that the anomaly that both report has two
rows and is analysed twice. `AnalysedOnce` is a promise about keys.

**Working directories.** `profile_allows` lets a command of the plan start in any
directory that a path permission covers with `r`, so in `/etc/nginx` or in the
snapshot directory of a service of the plan (policy_card.py:104-111), although the
catalogue starts every command in the root.

In Layer 2: `requires_approval` of a step "triggers HITL gate in Layer 3"
(schemas/action_plan.py:424), but `_to_fixing_plan` makes the policy from the
environment alone, and the risk level it writes is always low (main.py:876-880,
934), so that in a test environment a step that the LLM wants approved runs by
itself. "Final verification, snapshot and rollback must all match the service being
repaired" (main.py:913), but for a plan of several services they match the primary
one only. An operation without an entry in `_VERIFY_PROBE`, such as `nginx.status`
or `postgresql.ensure_snapshot`, is verified by the configuration test of nginx
(runner_catalog.py:187). A plan that cannot be converted takes its findings with
it: the fallback diagnosis has none (main.py:370-373) and nothing tells the human
that the outputs were suspicious. The first prompt holds log templates that no one
scans (main.py:246-250). People are notified of a diagnosis before it is stored
(main.py:391, 396). A copy keeps the environment policy of its original (main.py:529),
also when the environment of today would force an approval, and every copy, of a
fallback too, starts the 24 hours of reuse anew.

## 6. Plan

Done: the pipeline from a stored plan to a repaired node, `Detection`, the analyzer,
the hook pipeline of the On-Device Agent. Left, the most important first:

1. Larger instances of `Repair`: two executions of one plan after the record of the
   first expires; the plan's status against the execution's.
2. `Repair` over the steps of a `FixingPlan`: the runners of `RunnerCatalog` in place
   of `Mutating` and `Idempotent`, and `RunCommand` in place of `Answer`'s denial.
3. Agent tasks: the key space they share with plan executions.

**Not modelled.** The LLM and the models of Layer 1 (their output is any plan, any
kind of a line). The archiver: it loses lines at a restart and at Loki's limit, and
nothing in the repository promises otherwise. The LogBERT stream, which the deployed
compose file does not feed into `anomaly_logs`. `map_reduce` and
`suggestion_generator`, which compute texts; `raw_log_fetcher`, `LLMReasoner` and the
knowledge base, which `analyze_cluster` no longer calls. The root runner and the
wrappers around single commands: `Executor` keeps of them whether a step took effect.
Registration of agents, one upsert; agent tasks, which no process reads. UI,
notifications and deployment: no state that control reads.
