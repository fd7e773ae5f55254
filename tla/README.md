# models-utils: a verification project

`models-utils` is the shared library of an ISP platform: SQLAlchemy models,
Pydantic schemas and the state-machine code that an API (`backend-erp`), an
authentication service (`auth-erp`) and a provisioning worker import. The
library has no process of its own; its operations run inside the transactions
of those programs, concurrently, against one PostgreSQL database.

This directory models the part of the library that carries most of its risk,
the **provisioning run engine**; the **workflow engine** that starts runs,
orders and tasks; the **network graph**, the **session cache** and the **limit
checks and probes** that many requests rely on; and the **migrations, seeds and
models** that everything else stands on. It checks them with TLC and proves the
central invariants of all but the migrations with TLAPS. The rest of the library is
inventoried below, with the reason why it is left out.

## Inventory

| Component | State | Operations | Hard behaviour | What makes it correct |
|---|---|---|---|---|
| Run engine, `utils/provisioning_runs.py` | `provisioning_run` rows: status, phase, plan, outputs, rollback cause; one `provisioning_job` per plan entry | create, advance, enter/finish rollback, finish dry run, repair, revert, retry rollback | late and duplicated advances, a child cancelled while it settles, a lost advance, expiry, office actions on closed runs | one child at a time; the outcome a run announces is true of its devices; a rollback goes against the order of configuration; every run closes |
| Job settlement, `utils/provisioning_jobs.py` | the job row | `finish_job`, `fail_parked` | follow-ons fail alone; a dead executor's step; order of the events | the outcome always commits; the interrupted step is remembered |
| Gates, `utils/provisioning_gates.py` | `playbook.last_dry_run_version` | `gate_failure`, `run_gate_failures` | a playbook edited while it is simulated | only simulated versions run live, system playbooks apart |
| Outbox, `utils/provisioning_events.py` | `provisioning_event` rows | `emit_event` | a run closes several times | the last event tells the outcome |
| Playbook schema, `schemas/playbook.py` | none | `job_steps`, `is_resend_safe`, validation | | a job executes the snapshot |
| Resolution, `utils/provisioning_resolution.py` | reads the path, bindings, credentials | resolve, merge variables | stale resolution | the plan covers the path |
| Network graph, `utils/network_graph.py` and its trigger | `inventory_item.parent_id` | `resolve_path`, `descendants`, `would_create_cycle` | concurrent re-parents and detaches, depth limit | a forest within the plant, and no path is cut short |
| Workflow engine, `utils/workflow_engine.py` | workflows, executions with their step rows, tasks on the event loop of each process | match, execute, seven step handlers, fire created triggers | races for a unique key, deadlocks, a crash with tasks queued, one step of several failing, workflows that trigger themselves | nothing created twice or unaccounted for, the drawn order kept, follow-ons only after the commit, chains end |
| Sessions, `utils/sessions.py`, `dependencies/auth.py` | refresh token families, a cache per process | check, revoke | a cached verdict, revocation before its commit | a revoked session is refused in bounded time |
| Tier limits, `utils/tier_limits.py` | subscription, invoices | `check_tier_limit`, `billing_access` | counting before inserting, float products | limits are overshot by the requests in flight at most, caps are exact |
| Connectivity, `utils/connectivity.py` | system playbooks | get-or-create, enqueue | overlapping first probes, processes of two releases side by side | few duplicates |
| Migrations and seeds, `alembic/` | the catalogue and `alembic_version` | upgrade and downgrade of each revision, seeds | revisions that commit early, crashes, downgrades and upgrades again, seeds at old positions | no statement refused, the version tells the schema, the seeds run |
| Models, `models/` | the mapped tables | | written by hand beside the migrations | the head is what the models say |
| Expressions, templates, rendering | none | pure string processing | | agrees with a reference evaluator |
| Transport, crypto, ACS, e-mail, audit, logging, schemas | little or none | I/O and formatting | | |

The components meet in the database: a producer (an API endpoint, the workflow
engine) calls `create_or_get_run`, which resolves the service's path in the
network graph, checks the gates and queues the first child; the worker claims
children, executes their steps and settles them with `finish_job`, which calls
`advance_run` and writes events; the reaper requeues or fails jobs whose lease
lapsed, expires pauses and calls `repair_stranded_runs`; the office cancels,
reverts and retries. The API drains the events.

## Modules

| Module | Models |
|---|---|
| `RunPlan` | the plan `create_run` snapshots and the steps a plan entry executes |
| `RunRows` | a run's row with its children and events, and what each function of the engine turns it into: functions from rows to rows |
| `ProvisioningRuns` | the tables, every transaction as an action, the worker, its reaper and the endpoints as external actions, and the properties |
| `MCProvisioningRuns` | instances: playbooks, paths and attempts for TLC |
| `RunSaga` | the abstract specification: a run is a saga |
| `RunSagaRefinement` | the refinement mapping from `ProvisioningRuns` to `RunSaga` |
| `RunRowsProofs` | lemmas: each function from rows to rows keeps a row well formed |
| `ProvisioningRunsProofs` | the type invariant, one live child at most, and children along the plan |
| `RunOutcomeProofs` | the theorems about how a run ends: what its outcome, cause, outputs, events and versions promise |
| `RunRollbackProofs` | the theorems about rolling back, reopening and what is on the devices, and the refinement |
| `NetworkGraph` | `parent_id` and `network_attached`, the triggers of revision `ng1_network_graph`, `resolve_path` and `would_create_cycle` |
| `MCNetworkGraph` | plants of six items and one of another company |
| `GraphRace` | attaches, re-parents and detaches whose transactions overlap, for one finding |
| `NetworkGraphProofs` | the plant stays a forest, within its company and attached; paths reach their root and the pre-check agrees with the trigger |
| `SessionCache` | the verdict cache of each process, the check split at its query, the revocation split at its commit |
| `MCSessionCache` | two processes and two families |
| `SessionCacheProofs` | the latency bound of a revocation, and that refusals are true |
| `WorkflowEngine` | engine version 1: triggers, the event loop, an execution in its transaction, the step handlers |
| `MCWorkflowEngine` | three workflows, two processes and a service |
| `WorkflowEngineProofs` | every safety property of the engine, for any processes, workflows and graphs |
| `TenantRequests` | requests that look first and write later: `check_tier_limit` with its callers, and the connectivity probe |
| `MCTenantRequests` | a tenant at its limits and a device to probe |
| `TenantRequestsProofs` | the overshoot, the caps and the probes, for any number of requests |
| `SchemaOps` | the catalogue, the statements a revision is made of, what each needs and does, transactions and autocommit blocks |
| `RevisionsOffice`, `RevisionsBilling`, `RevisionsNetwork`, `RevisionsField`, `RevisionsService` | `upgrade()` and `downgrade()` of every revision, in the order of the chain |
| `ModelTables` | every mapped class: columns, foreign keys, unique keys, named indexes and constraints, enum labels |
| `Seeds` | what `_run_seeds` reads and writes, with its gates on the position |
| `Migrations`, `MCMigrations` | `alembic upgrade` and `downgrade` over the chain, with crashes and retries |

### Reading the state

`runs` is the `provisioning_run` table in creation order; a run's `kids` are
its `provisioning_job` rows in order of position and its `outbox` the
`provisioning_event` rows it caused. Positions count from 1, the code's
`run_position` from 0. A job keeps its status, its step log as a set (a step
may have several entries, which is all `ran_steps` looks at), the journal of
the step in flight (`inflight`), `interrupted_step`, its device lock, its
attempts and what it is parked on. `version`, `lastDry`, `drift` and
`reparents` are the columns of playbooks and services the engine reads or
writes. `applied` is ground truth: which configuration steps are on which
device. No code reads it; the properties compare what the engine announces
with it. `deciding` holds the runs an office action has locked and found
revertible, and has not committed yet; `unseen` remembers the runs that were
opened on such a run's service in the meantime, which no code can know of.

### Reading the actions

An action is one database transaction. Every writer of a run locks its row
first, the worker's writes to a job are fenced by the claim token, and the
follow-ons of `finish_job` have a savepoint each: `SettleJob` lets `advance_run`
and the event fail independently, at the cost of one mishap each.

Two transactions take two steps. `revert_run` and `retry_rollback` lock their own
run, but read the service's other runs without a lock (`_service_refusal`):
`PassRefusal` is the lock and the guard, `RevertRun` and `RetryRollback` are the
rest with the commit. In between anything may happen to the other
runs of the service, a new one included.

A run from before engine v2 (`LegacyRun`) has entries without a phase; such an
entry executes all forward steps in one job, the configuration steps
among them (`Configures`), and `_advance_legacy` closes the run with its child's
status and rolls nothing back. `SystemDevices` carry a playbook with one of the
`SYSTEM_PLAYBOOK_NAMES`, which the dry-run gate lets pass.

The worker, the reaper and the endpoints are in other repositories. Their
actions are what this repository's code assumes of them:

* a job takes its device lock when it is claimed, keeps it while it is parked or
  requeued, and loses it in a terminal transition (`finish_job`, the lock index
  of `provisioning_job`);
* jobs of one service run in the order of their runs;
* a step's name is journalled before anything is sent (`inflight_name`);
* a step that must not be resent is failed with `UNKNOWN_STEP_OUTCOME` when its
  executor died in it, one that may be resent is requeued with the attempt
  logged. `ran_steps` looks at the log and at the interrupted step only, so it
  relies on that log entry; this is an assumption of the model;
* a job is cancelled between two steps, never inside one;
* a guided run waits before every step except a rollback's; a manual step waits
  for a person, who may act before they answer.

A step that is sent may or may not have acted when it fails at stage `command`
and has not when it fails at `connect`. A session probe, a ping, a connection
request and a simulator step change nothing.

**Network graph.** An action is one statement of a writer (the inventory
endpoints, in another repository) that the constraints let through, with its
commit: `NetworkGraph` is about writers that do not overlap. A recursive
CTE is the function from depths to the row found at that depth; `Walks` holds the one such function
there is, so that nothing recurses. `_ancestor_cte` has `MAX_PATH_DEPTH + 1` rows,
the trigger's CTE `MAX_PATH_DEPTH`. `GraphRace` splits a statement from its
commit: under READ COMMITTED a trigger sees what others have committed, and the
locks an update takes (its own row, the key of the parent's) exclude neither an
update nor a detach of the parent.

**Session cache.** `Ask` is `is_session_revoked` up to its query, `Query` the
query, `Store` the rest. Both callers, `get_current_user` and
`require_permission`, are coroutines that do not await in between, so a process
has one check at a time; its query blocks, and meanwhile other processes, and
endpoints in the thread pool of the same process, revoke, commit or roll back. A
check that was answered stays in `check` until the next one, for the
properties to look at. One clock stands for the monotonic clocks of all processes, whose
values are never compared across processes. `revokedAt` is the time of the
commit, the moment from which the promised latency counts.

**Workflow engine.** `loop[p]` holds the tasks of process `p`'s event loop in
the order they were scheduled; `cur[p]` is the execution that process is in.
`execute_workflow` never awaits, so a process has one at a time, but two
processes interleave at every statement. `cur[p].writes` are the rows its
transaction has inserted and not committed. A step under a unique index is two
actions, the handler with its pre-check (`ExecuteStep`) and the flush
(`Insert`), which waits while another open transaction holds the key. A flush
that fails outside a savepoint leaves the session `poisoned`: nothing works
until `rollback()`, which only `_execute_workflow_async` calls (`Discard`);
`create_or_get_run` has a savepoint, so a path step that loses looks again
(`FindWinner`). An execution is named by what caused it (the event, then
workflow and step in turn), so that the properties can follow a chain. `gone`
records executions that left no row, with the reason. `Event` (the caller's
committed update), `Crash`, `Ends` (an order cancelled, a job or run ended),
`DirectRun` (a request that opens the same run) and `DeleteWorkflow` are what
happens around it. Which key a step has, and whether its handler raises or
breaks on its data, are parameters: the handlers' many checks of a tenant's
configuration all end in a `ValueError`, which is `StepFailed`.

**Tenant requests.** A request is its check and, later, its write. The counts
stand for the rows `_count_resource` and `billable_clients` count. The product
of `client_cap` is an integer in units of 10^-7 with an error of one unit, which
is far more than a double has at these sizes; `round` and `ceil` act on it as in the code.
A probe is its lookup and its commit: the flush in between is invisible to
others. `Deploy` restarts one process with the next definition: API and workers are
deployed one by one, so two definitions coexist and each process rewrites the row it finds to its own.

**Migrations.** A revision is the sequence of its statements. A statement is
refused when the catalogue lacks what it names or has what it creates, when a
NOT NULL or a foreign key finds rows that were not filled, or when it uses an
enum label of its own transaction; data is one bit per column, filled or not.
`transaction_per_migration` makes a revision atomic except where an
`autocommit_block` commits what came before it; `CrashInUpgrade` stops there
and the operator upgrades again. `op.execute` with a guard (`IF NOT EXISTS`,
an inspector, `pg_constraint`) is a statement that does nothing when there is
nothing to do. All revisions are in the model and TLC steps through the whole chain:
up from every position, down from every position, and up again.

### What is abstracted

Templates, captures, variables, secrets, labels and failure texts; the device
action log and the connectivity stamp; the kill switch and the device type
opt-out, which only refuse; times (a stranded run may be found fresh or expired,
a pause may expire at any moment). Each device carries one playbook, so that
`definition_for` is keyed by device. A terminal job drops its cursor, attempts
and failure flag, which nothing reads again. `PENDING_INFORM`, the pause of a
TR-069 step, is not an action of its own: to the engine it is one more in-flight
status.

## Runs

| Run | Question |
|---|---|
| `RunsFaults` | is any outcome, event, output or rollback of a run of engine v2 wrong when three things go wrong anywhere, over two devices with two commands each, or over a manual device and one that cannot be undone, with guided and manual pauses that expire, are aborted, confirmed or cancelled; and does the engine implement the abstract saga, with runs from before engine v2 beside it? |
| `RunsService` | can reverting or retrying an older run undo a newer one that its guard could know of, can a version run live that was neither simulated nor exempt, with edits at any moment, can a closed run change, and does the engine implement the abstract saga with several runs? |
| `RunsLive` | does every run close, also when nobody answers a pause? |
| `Graph` | while writers do not overlap: does the trigger's bounded walk keep the plant a forest, does `resolve_path` ever return a cut-off path, and do `would_create_cycle` and the trigger agree although their walks end at different depths? |
| `Sessions` | does `SESSION_CACHE_SECONDS` bound the latency of a revocation, and is anybody refused without one? |
| `Migrations` | is any statement of the chain refused, does the version tell the schema, at which positions do the seeds run, and is the head what the models describe? |
| `Workflow` | can two processes create a row twice, lose track of one, run a step out of order, start a follow-on too early or a workflow twice, or never end a chain? |
| `Requests` | how far can unlocked checks be overshot, are caps exact, and do duplicate system playbooks stay few? |
| `FindCycleRace` | finding: two overlapping re-parents close a loop |
| `FindSeeds` | finding: the seeds "called after every upgrade" raise before `37bcd9539daa` |
| `FindDrift` | finding: a re-parent during an activation is forgotten |
| `FindLostExecution` | finding: losing a race for an order or a job costs the whole execution, not the step |

Some statements of the documentation are narrower in the code, and the
properties say what does hold. `create_or_get_run` says that a retry "always
starts from devices that are untouched or restored"; that is so after a run
that closed as such (`FailedMeansUntouched`, `RolledBackIsRestored`), not after
`ROLLBACK_INCOMPLETE`. `_merge_outputs` speaks of "every terminal child"; the
repair closes an expired run without it, so only a run that succeeded shows all
its outputs (`SuccessShowsItsOutputs`). `sessions.py` calls a revocation
"immediate in the process that revoked"; it clears the cache before its caller
commits, so a check in between may cache the session as live, for
`SESSION_CACHE_SECONDS` as elsewhere (`RevocationBound`). `would_create_cycle` and the trigger bound the depth of the item that
moves, not of the subtree that moves with it, so a path deeper than
`MAX_PATH_DEPTH` can be built although docs/network-models.md speaks of the
"resulting depth"; `resolve_path` refuses it rather than cut it short
(`PathReachesRoot`). `revert_run` promises to refuse unless there is "no in-flight run on the service and no later non-dry
run", and `retry_rollback` that a corrective run "must not be undone by retrying
the old rollback" (provisioning_runs.py:974 and :1000). Both guards read the
other runs without a lock, so a run opened between such a guard and its commit is not
seen and may be undone; `ReopenedOnlyToRollBack` and `LatestSuccessStands` say that
this is the only exception. A run from before engine v2 may close FAILED with its
first devices configured, so `FailedMeansUntouched` and the saga are about runs of
engine v2. The dry-run gate exempts `SYSTEM_PLAYBOOK_NAMES` by name, a tenant's own
playbook of that name included, and so does `LiveVersionsWereSimulated`.
`create_or_get_run` speaks of the winner's run; an execution of a workflow that loses
that race keeps what it did, but its step fails when the winner has already ended
(`LostRunRaceIsHarmless`). An attach under an item and a detach of that item that overlap both pass
their triggers, and the child then hangs from an item outside the plant: `WithinThePlant`, like
`Forest`, is about writers that do not overlap, and fails in `GraphRace`.

`Migrations` names what it excuses. Downgrades that raise on purpose are
refused. The downgrade of `2f76adc5966b` adds a NOT NULL column without a
default and is refused on a table with orders. Seven enum types that `op.create_table` made
implicitly are left by the downgrades of four early revisions, so upgrading those again is
refused. `tier_change_request` has no model any more, two columns of
`inventory_item` are kept on purpose (models/isp.py:1155), and
`ix_device_action_log_company_id` is declared by its model and created by no
revision.

**Bounds.** Two devices give an order to configure and to undo; two
commands per device let a device be half configured and make one of them
idempotent; three mishaps let a failure meet a lost advance and then a failed
rollback. One attempt per step, two in `RunsFaults`, lets a job be retried within its budget of
attempts times steps, and run out of it. Two services in `RunsFaults`, each with its own playbooks, let the four kinds of device be
checked in one run. Three runs per service, dry and live, let one be older than another and a simulation lie between.
`MaxPlan` stops the office from retrying a rollback for ever; it leaves room for
two rounds, and `MaxOutbox` stops retries that have nothing to undo and only announce again. In `RunsService` no playbook
is simulated at the start (`Simulated` is 0) and `MaxVersion` is 2, so that a version must be simulated before it
goes live and can be edited before, during and after that; its second device has a system playbook. `RunsLive` has a
manual step, guided runs and a path that moves to a device whose playbook has nothing to execute. In the graph a depth bound of 3 with six items of one company lets a
subtree of full depth be moved under a path of full depth; the seventh item is
another company's. In `Sessions` a cache of one entry is full at once, and the clock
runs to 3 with a time to live of 2, so that an entry expires and a check begins after the
bound. In `Workflow` two events let two executions of one workflow meet, in either order
of its independent steps; one crash, one direct run, one ended row and one deleted workflow can each
come between any two statements; the self-triggering workflow reaches `MAX_WORKFLOW_DEPTH`, which is the code's own 3.
In `Requests` three requests can overshoot a limit by two; four clients let the billable ones reach
the quote's bound (one plus three) if a check were wrong, and with a ratio of 1.5 give
caps with and without a fraction; two releases let old and new processes meet. `Migrations` has no bound: its state space is the
chain's. In the runs of the engine deadlock is not checked: a system without open runs, at its bounds, stops. The others cannot stop.

**Fairness.** `FairSpec` assumes that for each run, if the worker or the reaper
can continuously do something for it, they eventually do: both poll. No
producer, edit, cancellation, confirmation or office action is fair. Pauses
expire (`scheduled_for`), which is why `FailParked` is among the fair steps.
`WorkflowEngine` states the fairness of an event loop, a process that can take a
step of its own eventually does; that its chains end is checked as the safety property
`ChainsAreBounded` and by the deadlock check, which finds waits that nothing ends.

## Proofs

Liveness (`EveryRunCloses`) and the four invariants of `Migrations` are
model-checked only; every other property of a passing run is also proved, for all
services, devices, playbooks, paths and bounds that
satisfy the named assumptions (the constants have their types; a legacy
run has a non-empty path; step names are not the reserved ones; `StepNamesUnique`,
the names of a definition are unique across its phases, which
`validate_definition` enforces; `PathsAreSimple`, a path has a device once, which is
`PathReachesRoot` of `NetworkGraph`; `LimitAssumption`,
a limit is a natural number or unlimited; `GraphAssumption`, workflows and their steps are
finite sets, steps have known action types and an edge joins two rows of
`workflow_step`, of any workflow):

* `TypeCorrect`: `Spec => []TypeOK`.
* `OneLiveChildHolds`: `Spec => []OneLiveChild`.
* `ChildrenAlongThePlan`: children stand at increasing positions within the plan.
* `FailedMeansUntouchedHolds`, `ForwardNeedsSuccessHolds`, `RolledBackKeepsItsCauseHolds`,
  `LastEventHolds`, `FinishFollowsCloseHolds`, `SuccessShowsItsOutputsHolds`,
  `LiveVersionsHolds` (`RunOutcomeProofs`): the outcome of a run, for any mishaps,
  edits and office actions.
* `RollbackOrderHolds`, `RestoredHolds`, `ReopeningHolds` (`Spec => ReopenedOnlyToRollBack`),
  `LatestSuccessHolds`, and `SagaHolds`: `Spec => ImplementsSaga` (`RunRollbackProofs`): what is on the
  devices, for any mishaps, retries and number of runs.
* `ForestHolds`, `WithinThePlantHolds`, `PathReachesRootHolds`, `PreCheckAgreesHolds`
  (`NetworkGraphProofs`): for all items, companies and depth bounds, and writers that do not overlap.
* `TypeCorrect`, `RevocationBoundHolds`, `RefusalsAreTrue`
  (`SessionCacheProofs`): for all processes, families, times to live, cache sizes
  and bounds on the clock.
* `SeatOvershootHolds`, `QuoteOvershootHolds`, `CapHolds`, `DuplicatesHold`
  (`TenantRequestsProofs`): for any number of requests, tiers, ratios and releases.
* `TypeCorrect`, `IndexesAreKept`, `FollowOnsSeeTheirRow`, `RowsHaveTheirExecution`,
  `GraphIsFollowed`, `ChainsEnd`, `StartedOncePerEvent`, `RunRacesAreHarmless`
  (`WorkflowEngineProofs`): every safety property of the run `Workflow`, for any
  processes, workflows, drawn graphs, events and crashes. The last one has a
  hypothesis: the database rejects no statement of a path step by itself
  (`Breaking` holds no such step).

`OneLiveChild` is not inductive. `advance_run` decides whether a child has a
successor by comparing positions, so the proof needs that positions increase and
stay within the plan (`AlongThePlan`): then a child without a successor is the
last, and queueing another one leaves the old ones terminal. It also needs that a
claimed job's cursor stays in range (`StepInRange`), for the types of the log. The
inductive invariant is

    IInv == TypeOK /\ RowsWellFormed

where every row is in `Run`, has its children along the plan, has one live child at
most and its cursor in range. `RunRowsProofs` shows once per function that it
maps a well-formed row to a well-formed one; an action's proof then
only says which functions it composes.

None of the properties of `RunOutcomeProofs` is inductive: each one speaks of closed runs and
depends on what was true while the run was open. The inductive invariant is

    OInv == IInv /\ RowsLawful /\ Traced /\ StampsEarned /\ PlansSimulated

* A *lawful* row (`Lawful`) says what a run owes its future. Its plan is
  phase-major; a run that planned a rollback has noted its cause; forward children stand
  behind successes; an open run's code is its cause, and its phase that of its last
  child; every child that has a successor has had its outputs merged. With these, each way
  to close a run gives the law of its outcome (`IncompleteLaw`, `RolledBackLaw`, `FailedLaw`,
  `SucceededLaw`, `AnnouncedLaw`). There is one lemma per function of `RunRows`,
  and `AdvanceLawful`, `RepairLawful`, `RevertedLawful` and `RetriedLawful` put them together.
* `Follows` and `Grows` say what a transaction never takes back: children and
  plan entries are appended, never changed, and a step that ran stays in the log.
  `JobStepMoves` gives every action on a job this one shape, so that
  `CarriedOnward` covers them all.
* `Traced`: whatever is on a device was put there by a child whose log admits it (the step
  is logged, or marked as in flight when the executor died). `FailedMeansUntouched`
  is this together with `FailedLaw`, for which a child that may have acted forbids the plain FAILED.
* `StampsEarned` and `PlansSimulated`: a version stamped by a dry run was executed by
  one that succeeded throughout, and stays so since a closed dry run is never reopened;
  `create_run` plans stamped versions only.

`RunRollbackProofs` adds what a run owes the devices. Its invariant is

    RInv == OInv /\ RoundsInv /\ LeftSettled /\ Quiet /\ DecidingInv /\ InTurn /\ Standing

* `RoundsInv`: each live row is in `Rounds`. A device is configured by one entry; a run that
  planned a rollback is at one of its entries; it closes only at the end of its plan and has
  had a child for each rollback entry up to its last; an entry that repeats a device follows one
  that ended without success; a first entry stands against the order of configuration.
  `RollbackAgainstTheOrder` is this, read through the children. The rows are seen
  through one relation, `Turn`: a transaction leaves a row, closes it, queues the next
  entry, or plans a rollback and queues its first entry. There is a lemma per function of
  the engine that it makes a `Turn` (`AdvanceTurn`, `RepairTurn`, `RevertedTurn`,
  `RetriedTurn`), and a lemma that a `Turn` keeps the rounds (`TurnRounds`).
* `LeftSettled`: whatever is on a device, either no rollback covers it, or its run has not turned
  back, or the run remembers the device in `noRollback`, or the device's latest rollback entry
  is `Pending` it: the entry names the step, and its child has passed only steps that
  spare it, or has failed. A job step keeps this since passing a step means that it
  was done or skipped, and a skipped one undoes a step that is not among those that ran;
  planning a rollback keeps it since `Traced` says that the log admits whatever is there.
  When a run closes at the end of its plan, what is pending has failed, and
  `_finish_rollback` sees it (`PendingFailedShows`). This is where step names must be unique: a
  rollback step undoes a configuration step by its name.
* `DecidingInv`: of every other run of the service an office action on `q` knows (`Found`) that it is closed and
  simulated or older than `q`, until that run is opened in the meantime (`unseen`), or is an older one
  reopened by an office action that did not see `q`. The guard makes it true. Afterwards a closed run changes only by an
  office action's commit (`OnlyTheOfficeReopens`: it has no live child, so no job action is enabled on it,
  `advance_run` leaves it alone and the repair skips it), and two office actions that both
  found the service free know of each other: the older one's guard has seen the newer run,
  or the newer is unseen. `ReopeningHolds` is this in the step that commits.
* `Quiet`: a live run older than engine v2 has no rollback in its plan and never says that it was rolled back,
  although its job does act on devices; so it owes nothing to `LeftSettled`.
* `InTurn`: once a live run that is not `unseen` has begun, the runs before it on its service are closed,
  and they stay so because the office refuses to reopen a run that a later live one follows. `Standing` then says
  that what the latest live run, if not `unseen`, logged as done is on the device until it turns back:
  only the rollback of another run of the service could take it away, and none is in flight.

The refinement follows from these. A run's stage is read from its row (`StageOf`): a live run in
flight is undoing exactly when its plan has a rollback entry (`OpenPhase`). A step puts something on a
device only for its own run and only before that run turned back (`ActedForward`), and takes something away
only in a rollback (`ActedTakes`). What a rollback covers never changes, because the entries that are
appended are copies (`UncoveredStays`), so that a run becomes dirty or clean only through the devices;
and a run that is undone is clean by `FailedMeansUntouched` and `RolledBackIsRestored`.
`StepKinds` gives the kinds of step, each of which is one of the saga's actions
(`CreateOpens`, `JobMovesSaga`, `RunMovesSaga`).

The instances of these invariants in the runs `RunsFaults` and `RunsService` were
model-checked before they were proved.

`ForestHolds` needs no induction over the tree. A loop is a non-empty set of
items each of whose parents is in the set. The trigger admits an edge from `i` only if
the walk above the new parent ends in sight without meeting `i`; then the rows
of that walk are closed under `parent_id`, and the part of a new loop on them would
be a loop that was there before. Without the depth check a cut-off walk proves nothing:
that is the mutant of `Forest`. This theorem and `WithinThePlantHolds` are about writers that do not
overlap; `FindCycleRace` shows that they need to be.

`PathReachesRoot` and `PreCheckAgrees` are about what a bounded walk finds and follow
from `WithinThePlant` in each state. That a walk exists to every depth, that two walks from one row agree
and that a walk that has ended goes nowhere are inductions over the depth, made
through the least depth at which the claim fails (`Least`, from the library's `WFMin`).
The pre-check's walk has one row more than the trigger's; where that row is the item, the
trigger has refused for the depth.

`RevocationBound` is not inductive: it says nothing of what is still in a cache
or on its way there. The invariant `InTime` adds that a live entry expires at most
`Ttl` after the commit, and that a check that found the session live began no
later than the commit. Both hold because a check reads the clock before it
queries and counts the entry's life from there.

`SeatOvershootIsBounded` and `QuoteOvershootIsBounded` are not inductive either: a request that has passed its check
will write. `SeatsPromised` and `ServicesPromised` count the rows plus the requests that
passed and have not written, and keep that sum below the limit plus the number of
requests served at a time: a check passes only when the rows alone are below the limit,
and then the other requests are fewer than all. `ProbesPromised` does the same with
the rows of a playbook and the probes that found none.

`WorkflowEngineProofs` has four layers, each needed by the next.

1. *One execution.* `Kahn` says what the loop of `execute_workflow` keeps: an
   in-degree counts the edges whose source has not run, and exactly the steps at
   zero are queued, in hand or done, each once. A self-edge or a cycle is never
   counted down, and an edge from a step of another workflow is never counted, as in the code. `KahnAll`: as many
   rows as steps means that every step ran. The queue's distinctness is what makes it true.
   `Vouched` ties the rows a transaction has written, and the triggers it will
   fire, to its COMPLETED steps.
2. *All transactions.* `IndexesHold` extends `OneLiveRowPerKey` to rows not yet
   committed: such a row conflicts with no committed one and with none of another
   transaction. The pre-check of a handler gives the transaction's own rows, the wait of
   `Insert` the others'.
3. *Names.* `OncePerEvent` needs to know where names come from. No two tasks of a kind on any loop have one
   name (`TasksDistinct`), an execution is pending or used, never both (`NeverTwice`),
   every name goes back to an event that happened or to a row that is there (`Descent`), and a
   trigger that has not fired has started nothing (`FireFirst`). A commit queues
   triggers named after its own rows; no other task can have those names, since a name comes from
   a row and a pending execution has none.
4. *What is committed.* `RowsAreAccountedFor` and `StepsFollowTheGraph` are inductive
   given the first three; `LossesExplained` says why a transaction was lost.

All of these were model-checked on the instance of `Workflow` before they were proved.

`Migrations` has no theorems: it is one concrete chain, all of whose states TLC visits.

## Not modelled

* **Resolution** (`provisioning_resolution.py`) and the **playbook language**
  (expressions, templates, rendering, validation of authored definitions):
  functions of one input without state, whose difficulty is in strings. The run
  model takes a resolved path as a parameter and a refusal as a run that is not opened.
* **The rest of the network graph**: `descendants`, `child_count` and the
  consistency of ports and links (`network_link`, revision `pt1`) with their deferred triggers.
* **`billing_access`**: a case distinction over the oldest unpaid invoice.
* **Workflow engine version 2**: this repository holds its tables, its schemas
  and the insert of an event; the engine is in another repository.
* **Rows written by backfills and seeds**: only that a backfill precedes the
  constraint that needs it, and that the seeds' statements fit the schema.
* **Transport, ACS and NBI clients, e-mail, logging, audit, telemetry, secrets,
  request and response schemas**: I/O, formatting or declarative validation.

## Plan

What the plan held is done. What is left is out of the provers' reach or needs more of
the code modelled first:

1. `EveryRunCloses` is about fairness and `Migrations` about one concrete chain: both stay with TLC.
2. The expression and template language, as operators over small syntax trees against a
   reference evaluator.
