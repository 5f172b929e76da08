# Verification of the PostHog chart's operations

This directory holds TLA+ models of the programs in this repository that change
the state of a running installation, the TLC configurations that check them on
small instances, and theorems about them that TLAPS checks for every instance.
Paths are relative to the repository.

- [The system](#the-system)
- [What is modelled](#what-is-modelled)
- [What the runs show](#what-the-runs-show)
- [Findings](#findings)
- [What is proved](#what-is-proved)
- [What is not modelled](#what-is-not-modelled)
- [Plan](#plan)
- [Working with the modules](#working-with-the-modules)

## The system

The repository packages PostHog as a Helm chart. Most of it is declarative:
templates, values, profiles. What has state and steps is the code that operates
an installation. Its parts, with the state each keeps, what it does, what is
hard about it, and what makes it correct:

| Part | State | Operations | What is hard | Correct when |
|---|---|---|---|---|
| **Staged production runner** `scripts/deploy-hub-production.py` | `state.json` in a private directory (run id, status per stage, Flux owners, backup record); the `posthog-upgrade-lock` ConfigMap; the `posthog-upgrade-runner` pod | `prepare`, `backup`, `infrastructure`, six `logs` phases, `migrate`, `rollout`, `verify`: one process per stage | processes die between any two commands; Flux, the Deployment and Job controllers act meanwhile; another operator may run the script too | one run owns the cluster; stages run once and in order; nothing migrates without a verified backup that misses no write; a failure leaves lock, pod and "started" marker |
| **Legacy logs reconciliation** `scripts/reconcile-clickhouse-logs.py` | a JSON journal in the pod, a copy with the runner; the tables, queues and migration history in ClickHouse | `snapshot`, `reconcile`, `consumers`, `drain`, `verify`, `finalize` | a script that dies inside a loop of RENAMEs, or survives its `kubectl exec`; queues that fill and drain; ClickHouse restarts | the journal tells the truth; no queued block is dropped or delivered early; consumers start only over complete storage |
| **Model moves** `images/posthog/migrate_legacy_model_moves.py` | Django's migration records, the schema | removes squash markers that stand on nothing, runs targeted migrations, leaves the rest to `migrate` | killed and rerun half-way, or between a commit and its record; which migrations exist depends on what earlier targets recorded | reruns converge; records are kept; nothing creates a table that exists |
| **SCIM backfill** `images/posthog/migrations/0058_*.py` | rows of a table | batched back-fill | the application inserts meanwhile; a unique constraint follows | the oldest row of each user gets the config, no other does |
| **Node SQLx migrations** `images/posthog/cyclotron-*`, `templates/hooks/cyclotron-migrate.job.yaml` | a Postgres schema, `_sqlx_migrations` | a Job that creates the database and runs the SQL files in order | `CREATE INDEX CONCURRENTLY` cut short, outliving its client or waiting for a lock; retries | a recorded migration's build is over; what a failure can cost; the Job ends |
| **Secret bootstrap** `scripts/bootstrap-hub-production-secrets.py` and `templates/secrets.yaml` | two Secrets | create what is missing, keep what exists | two reconcilers; a crash between the two Secrets | a generated value is never replaced, both Secrets agree |
| **Drift check** `scripts/check-hub-production.py` | none of its own | reads release, Secrets, resources, values and workloads in turn; merges values, compares rendered and live objects | what it reads changes meanwhile; defaults, nulls and lists; parts that fail or are missing | "aligned" is never said of a cluster that is not; an aligned cluster shows no drift |
| **Web start-up supervisor** `charts/posthog/files/web-startup.sh` | two child processes | start, forward signals, reap | a signal or a death at any moment | no child survives; the exit status is that of the failure |
| **Helm hooks** `templates/hooks` | Jobs | topics, buckets, database checks, migrations | weights, retries, re-installs | order and idempotence |
| **Upstream tracker** `.github/workflows/posthog-tracker*.yaml` | a cursor in a file, issues, a branch | scan, propose, advance | upstream moves during a scan | every commit is looked at |
| **Release pipeline** `.github/workflows`, `scripts/verify-release-*.py` | commits, images, artifacts | build, test, publish | concurrent dispatches | what is published is what was tested |

The parts interact like this. The runner calls the drift check in `prepare`,
the Secret bootstrap in `prepare`, the logs reconciliation inside the pod in
`logs`, creates the hook Jobs of the chart one by one in `migrate` (their
commands are the model moves, the Django, ClickHouse and SQLx migrations), and
hands the release back to Flux in `rollout`. The state file, the lock ConfigMap
and the logs journal are the only memory between two invocations.

## What is modelled

| Module | Models |
|---|---|
| `UpgradeStages` | the stages and `complete()`'s prerequisites |
| `StagedRun` | abstract specification: what the runner promises, without processes or commands |
| `HubDeploy` | the runner: any number of state directories and terminals against one cluster |
| `MCHubDeploy` | its instances |
| `LogsRepair` | the logs reconciliation, and the runner's handling of its journal |
| `MCLogsRepair` | its instances |
| `ClickHouseRollout` | the `infrastructure` stage against the ClickHouse operator |
| `SqlxMigrations` | the cyclotron migration Job against PostgreSQL |
| `SecretBootstrap` | the Secret bootstrap, and the chart's own upgrade of the Secret |
| `ValueTrees` | Helm values and Kubernetes objects as trees |
| `ValueMerge` | the check's `merge` of two of them, and what it does path by path |
| `ValueChanges` | its `changes`, as what it finds equal |
| `DriftCheck` | the drift check, over the cluster whose Secrets `SecretBootstrap` fills |
| `MCDriftCheck` | its instances |
| `ModelMoves` | the model-move command and `manage.py migrate` over a graph of migrations |
| `ScimBackfill` | migration 0058's backfill |
| `MigrateJob` | the migrate Job: `ModelMoves` and `ScimBackfill` composed, killed and started again |
| `MCMigrateJob` | its instances |
| `HubDeployProofs` | ownership, failure and replay; `HubDeploy` implements `StagedRun` |
| `HubRolloutProofs` | what a completed rollout leaves: logs finalized, Flux resumed |
| `HubHoldProofs` | what is held for the Jobs: no application, no Flux, a backup that misses nothing |
| `LogsRepairProofs` | journal, foreign queues and queued blocks of the logs repair |
| `ClickHouseRolloutProofs` | no old binary is given the new configuration; the end of the stage means the target |
| `SqlxProofs` | recorded builds are over; what a death, a restart or a timeout can cost |
| `DriftCheckProofs` | Secrets: no rotation, foreign Secrets, equal twins, completeness; the check: what its exit code proves |
| `MigrateJobProofs` | Django accepts the history, and it fits the tables; which records may go; whom the backfill gives the config |

`PROJECT.json` maps each definition to the lines it stands for.

### HubDeploy

One invocation of the script is a process `p`, which passes the state directory
`DirOf[p]`. `Invoke` reads `state.json` and evaluates the prerequisites; then
the process walks through the steps of its stage. `at[p]` names the next one: a
step is one `kubectl` or `helm` command that changes something, one wait, one
`require()` that looks at the cluster, or one checkpoint. `mem[p]` is the
`state` dictionary the process holds. It goes to `disk[d]` only at the lines
that call `checkpoint()`, so what a stage knows and has not written is lost
when it dies. `Abort` ends a process at any step: a command fails, a wait times
out, someone kills it. Killed inside `private_write` it leaves `state.json`
truncated (`torn`), and no later invocation gets past `json.loads`.

The cluster is `lock`, `pod` (by run id), Flux (`release`, `kust`, `hr`: is
there a HelmRelease, is its Kustomization suspended, is it itself suspended),
`inflight` (a Flux reconciliation under way), the application tier `apps` with
its autoscalers `hpa`, `infra` (old, new binary, target specs), `legacy` (where
the logs tables are), `jobs` (the guarded hook Jobs), `backup`. `backup[d]`
becomes `stale` when an application pod writes after `pg_dumpall`.

What is abstracted:

- The application Deployments are one tier. The script treats them alike, one
  after the other, and each guard asks about all of them.
- Each logs phase is one step with three outcomes (done, died inside, done but
  lost by the runner). `LogsRepair` opens it.
- An invocation that is refused before it writes anything changes nothing and
  is not a step. Refusals after that are (`Refuse`).
- `assert_lock` also compares the namespace's uid; with one cluster the lock
  comparison subsumes it.
- The ClickHouse operator's reconciliation is one step of `HubDeploy` that may
  fail. `ClickHouseRollout` opens it.
- The contents of the backup and the drift check are one step each that may fail
  (see the plan).

Environment: `KustomizationReconciles` undoes the suspension of a HelmRelease
whose Kustomization is not suspended; `FluxStarts` and `FluxApplies` are a
reconciliation under way when Flux is suspended, which goes on. `prepare` does not
wait for it to end (a Helm upgrade may take 45 minutes, hooks included): it waits
for pods to terminate and for its own pod to come up, and `backup` and `migrate` look
at the pods again. The variable `outlived` remembers whether a `prepare` ever completed
with a reconciliation under way. If so, writers may come back after `pg_dumpall` or under
a running Job, and the properties about them (`WritersHeldDuringJobs`, what the backup
covers) say nothing: they are about the runs for which that did not happen.

### LogsRepair

A script process loads the journal once (`mem[p]`), passes the phase's guards
(`Admits`), journals that it entered, works through its loops one object at a
time and journals the end (`Left`). The runner's part is there as well: it
copies its own journal in before the phase (`Invoke`) and the pod's journal out
afterwards, also after a failure (`Exit`). `Disconnect` is a broken `kubectl
exec`: the runner copies what there is and gives up, the script goes on, and the
operator may start the next phase beside it. `Die` can leave the journal
truncated while it is saved.

Tables are sets: the storage tables (`base`), views and Kafka consumers still
in database `default`, the aliases (Distributed tables) with the number of
blocks in each queue and whether they send. `Inventory` is what the script's
`inventory()` reads; changes others make to definitions are the number `drift`.
The canonical DDL in database `posthog` exists not at all, partly or fully.

`foreign` is the set of aliases bound for another database, fixed from the
start. `Interchangeable` permutes tables of one kind and script processes.

Environment: a sending alias delivers once its destination exists;
`RestartClickHouse` resumes all sends, because a stop lives in server memory;
`Enqueue` is a direct writer. Writers keep the operator's `--writers-quiesced`
pledge at least while `finalize` acts. Without the pledge a block that arrives
between `finalize`'s look at the queues and its DROP is lost; the script says
so by demanding the flag. Runner and operator start each phase at most once:
`state.json` refuses the second attempt (this is what `HubDeploy` shows).

### ClickHouseRollout

`infrastructure` changes the ClickHouseInstallation twice: `PatchImage` under the
old configuration, then `ApplyTarget`. Around each change it looks at the
generation and the operator's task id (`Look`, `Before`, `LookAgain`), and then
waits (`SeeTask`, `SeePod`): it reads the installation and the pods one after
the other, so what it saw of the first may be over when it sees the second. A
wait that has seen too little may have outlasted its deadline (`"failed"`).

The operator (`BeginTask` to `EndTask`) and the kubelet are external, modelled
by what `wait_clickhouse` relies on: a task reconciles the spec of the moment it
began, is "InProgress" until pod and spec agree and the pod is ready, and
mounts a new configuration before it replaces the pod, which is the danger the
stage is written against. The operator may reconcile again a spec that did not
change. `Init` is what `prepare`'s own wait leaves: a completed reconciliation,
a pod that may have become unready since, and the spec of any earlier upgrade.

### SqlxMigrations

One Job, its pods one after the other, one database session each. `Plan` is the
list of migration files; a migration is the index it builds or drops
concurrently, or a transaction with its effect on an index, its record
in `_sqlx_migrations` and the `lock_timeout` it sets. What is external is
PostgreSQL and sqlx: `SET` outlives its transaction and ends with the session,
`SET LOCAL` does not; a concurrent build or drop that is cut short leaves an
`INVALID` index of that name; a statement whose client died goes on
(`orphan`) and later statements on the table queue behind it, so nothing is
assumed of sqlx's advisory lock. An orphaned build and the retry that waits for
it can deadlock, since a build's last phase waits for the snapshots taken before
and the waiting statement holds one: `Deadlock` cancels the build, whose index
stays `INVALID`, or the retry, after which the build can only end. `busy` tells a Helm upgrade, beside whose hook
the application runs and holds locks, from a guarded Job of the runner, which
has stopped it. The pods a Job starts are `backoffLimit` + 1; the hook sets 5,
the runner 0.

### SecretBootstrap

An invocation `r` reads the Secret with the ClickHouse password
(`ReadClickHouse`), the main Secret (`ReadMain`) and `posthog-pg-app`
(`ReadPg`), refuses what it must not touch, creates the first
(`CreateClickHouse`) and completes the second (`WriteMain`): with `kubectl
create` when it read none, otherwise with a JSON patch that tests the
`resourceVersion` it read and replaces all of `data`. Between any two of these
others may act: a second invocation, CNPG (`CnpgCreates`), a Helm upgrade that
looked the Secret up before (`HelmRenders`, `HelmApplies`,
`templates/secrets.yaml`), another manager (`AnotherManagerAdopts`). `Stop` is a
plan-only call, an API error or a kill.

A value is a number that stands for a credential; everything an invocation
draws or finds in its environment is the invocation's serial number. Random
generation, encodings and URL formats are left out; which key follows from which
is not: `Twin` are the pairs of keys that hold one storage credential, `Derived`
follow from CNPG's Secret, `Fixed` is a constant. Among the external parts are the API
server (create refuses what exists, the patch's test), and Helm's three-way apply.

The chart treats three kinds of keys differently. A generated key it looks up and draws
when it is missing. The storage keys come from the Secret itself, since the profile's
HelmRelease hands them on (`valuesFrom`). `database-url`, `postgresql-password` and
`redis-url`, and every generated key that the values set, it takes from the values
whatever the Secret holds (`FromValues`): what the values give may or may not be what is
there (`given`). `NoRotation` therefore lets a Helm upgrade change those keys, and any key
when the Secret has changed since the upgrade looked it up; nothing else may change a
credential. The runbook keeps the HelmRelease suspended while the Secret is filled; Helm
itself compares nothing.

### DriftCheck

The check goes from `ReadRelease` to `Exit` in the order of the script, one
action per part of the cluster it reads, and keeps in `read` what later parts
use again. It runs live or from a snapshot directory (`offline`), of which any
part may be missing (`withheld`). `drift` and `incomplete` are the two lists;
`code` is the exit status, with 3 for none yet. `Error` is an exception.
Meanwhile the release, its resource and its workload are edited, the release
is reconciled, and the Secrets are bootstrapped; `calm` says that nothing changed
since the check began.

Values are trees of leaves, lists and dictionaries (`ValueTrees`). `Merge` and
`Agree` are `merge` and `changes`, recursive functions over the trees they are
given: `Dicts`, the dictionaries merged, and `Compared`, the trees compared, both
with what is in them; `Depth` decreases from a tree to what is in it. The sets say
only where the functions are defined and may be as large and as deep as one likes;
`MCDriftCheck` collects those of its instance. `MergeOverlays` is about paths and not
about the recursion: `Along` is what a tree has along a path. `Normal` is `runtime_spec`; `Coalesced`, `Template`,
`Served` and `Restarted` are what Helm, the API server and `kubectl rollout
restart` make of them (external). One custom resource and one workload stand for
all. Left out: resource quantities, `target_scalar`, ConfigMaps and untargeted
entries of `valuesFrom`, post-renderers, credentials inlined in templates and the
chart's version. Two details of the script appear as they are: a null at
the top of `spec.values` is dropped by the first merge, so the check lets the
chart's default stand where Helm removes it (no such value is in the profile);
and a resource that a snapshot lacks counts as drift, not only as incomplete.

### ModelMoves, ScimBackfill and MigrateJob

`MigrateJob` runs the container of `migrate.job.yaml`. `at` is its progress:
`"prepare"` looks for squash markers that stand on nothing and removes them one
by one (`RemoveMarker`), `"move"` walks through `MODEL_MOVES` (`SkipMove`,
`RefuseMove`, `PlanMove`), `"moving"` executes the plan of one target, `"migrate"`
and `"migrating"` are `manage.py migrate`, `"rest"` the later databases. `Kill`
ends it at any step, rolling back the open transaction; `Start` begins again from
the first command, until the `limit` of the Job found: several starts for the hook
(`backoffLimit: 5`, beside the application), one for the Job that the runner makes of
it (`backoffLimit: 0`, `restartPolicy: Never`, `deploy-hub-production.py:460-461`), whose
failed stage is not attempted again.

Django's loader and executor are external and modelled as the command uses
them: a squash counts as applied when all it replaces is (`Counts`); a squash
stays in the graph, and its originals go, unless they are partly applied
(`RegularGraph`), and the command's own loader removes the moves' squashes
(`LegacyGraph`); dependencies on what is not in the graph are redirected;
`Ancestry`, what a plan brings with its target, is the least set that is closed
under dependencies; `Consistent` is `check_consistent_history`, `Conflicting`
is `detect_conflicts` (two migrations of one app that none of its own follows), and
`Backward` the refusal of a plan whose target is applied.

Each migration is a transaction (`Execute`); `Fits` is the database refusing to create
what exists or change what does not. Whether its record is part of that transaction
depends on the migration. Without deferred statements it is. One that creates tables or
columns with indexes or foreign keys (`Late`) defers them to the end of the transaction,
and Django then inserts the rows afterwards, for a squash one for each of its originals
(`RecordRow`): between the commit and the last row it is in `made`, and in `doing` while
its executor lives. A kill in between leaves tables without a record or a squash recorded
in part, which the next attempt takes for what the rows say. Such a state is `Torn`; nothing in
the command looks for it. In the instance TLC shows where it leads: on a fresh database, after a kill between
the commit of posthog's squash and its rows every later attempt fails, since the
tables exist; and after a kill among the rows of `cohorts`' squash the database is taken for a legacy one,
whose originals are then executed over the squash's tables, which the database may or
may not refuse (`ExecuteFails`). `HistoryFitsTables` and `JobCompletes` therefore except `Torn`;
`HistoryConsistent`, `RecordsKept` and `OldestClaims` do not. No text of the
repository claims that the Job survives such a kill, so it is a hazard and no finding.

The backfill is one transaction that reads what is committed at each of its
statements: `BeginBackfill` computes the rows to leave alone once, `ClaimBatch`
takes the pending row with the least key, `Commit` makes the updates visible.
`Provision` is the application (of before the move, so it sets no config)
inserting beside it.

`JobCompletes` assumes that nobody provisions meanwhile: the runner has stopped the
application, the hook has not. With it running, a row inserted between the look for
duplicates and the last batch is claimed although an older one of its user has the config: the backfill
commits, and 0060, which adds the unique constraint, is then refused by every
attempt. `OldestClaims` therefore speaks of the rows that were looked at.

## What the runs show

| Run | Instance | States | Shows |
|---|---|---|---|
| `hub_single` | one run; all stages in any order; both modes; release live or absent; 3 Jobs; 12 invocations; 2 failures | 987 469 | unless a reconciliation outlived `prepare`, backup covers Jobs and target specs and writers are held; Flux resumed, logs move finalized, stages attempted once; `StagedRun` implemented |
| `hub_two_runs` | two runs compete; main stages; 12 invocations; 2 failures; fair | 326 626 | only the holder of the lock acts; a failure leaves lock and pod; undisturbed, some run is verified in the end |
| `hub_suspend_race`, `hub_replay` | as small as the case allows | | violations, see [Findings](#findings) |
| `logs_repair` | two processes, the runner may lose them; phases in any order; a death; a restart or a schema change; direct writers | 1 298 893 | what the journal says is true of the tables, no block lost, queues held until migrated |
| `logs_live` | one process, phases in any order, an alias possibly bound elsewhere; fair, no deaths | 42 197 | in the documented order the repair is finalized; a foreign queue is never touched |
| `logs_outlive` | two processes, the runner may lose them | | violation, see [Findings](#findings) |
| `rollout_stage` | 2 pod failures, 3 reconciliations nobody asked for, any wait may time out; fair | 4 495 | new configuration only on the new binary; the end of the stage means the target; it ends |
| `sqlx_job` | all 15 migrations, 4 pods, 2 pod deaths, 2 server restarts, application running or stopped; fair | 90 201 | recorded builds are over, a failure costs at most two attempts and indexes, the Job ends |
| `sqlx_timeout` | 2 pods, a running application | | violation, see [Findings](#findings) |
| `drift_check` | 2 invocations of bootstrap, 2 starts, 1 step of Helm or another manager; one check, live or from a snapshot, 2 edits | 603 092 | no invocation rotates anything, a foreign Secret is kept, twins agree, "ready" means complete; "aligned" is not said of a cluster that is not (of live values without a null at the top), an aligned cluster shows no drift, the two scripts agree; `merge` of defaults and values against a definition by paths |
| `migrate_job` | 2 moves, 3 squashes, fresh and legacy histories; up to 3 rows; a hook with 3 starts, the application provisioning or not, or the runner's Job with one; 2 kills; fair | 150 337 | history stays consistent, records are kept, the oldest row gets the config; unless a pod dies between a commit and its record, history and tables fit and, with nobody provisioning, the Job completes |

### Bounds

- **12 invocations** let one run make every one of its twelve stages, or two
  runs make all six main stages. A stage is attempted once, so more invocations
  add nothing for one run.
- **2 failures** allow a failed stage and a failure of what the operator does
  next, or a failed Job and a dead runner.
- **3 Jobs** (2 with two runs), the second of which is `migrate_clickhouse`:
  a Job before, between and after.
- **2 base tables, 2 aliases, 1 view, 1 Kafka table**: a loop interrupted in
  the middle. Tables of one kind are treated alike, so the instances
  are symmetric in them. `logs_live`, which checks liveness and
  lets aliases differ, uses no symmetry.
- **Queues of at most one block**: the guards tell empty from nonempty only.
- **One death, and one restart or schema change**: after any of them the journal
  stops most phases, and a second adds only repetitions.
- **4 pods, 2 deaths, 2 restarts** (`sqlx_job`): a retry that is itself cut
  short, and one that fails for good when a lock timeout is added; the hook's
  six pods add repetitions of the same retry.
- **2 invocations of bootstrap, 1 upset** (`drift_check`): each step of one
  between any two of the other, and of Helm or another manager between any two of
  one. One generated key, one pair of twins, one derived key and the constant are one of
  each kind, and the theorems hold for any number. Two edits are one before the check,
  which is what it may find, and one during it, which it may miss. The instance
  does not mix a cluster whose Secrets are being filled with one whose release
  varies (`MCNext`), nor let Helm or another manager begin beside a check after an
  invocation did, nor continue changing a cluster after a change beside the check,
  since all properties but `Complete` ask for `calm`.
- **7 value trees** (`drift_check`): an override of a leaf, in a dictionary, of a
  list by a shorter and by a different one, with null, with the default itself;
  trees are two levels deep, where `merge` has recursed once.
- **2 of the moves' apps** (`migrate_job`), one depending on the other, each with
  its squash and that of `posthog`: enough for every case of the command (on
  record, to be planned, fresh, partial) at a first and a second target.
  `posthog.1340` stands for all of posthog's migrations up to the cutoff.
- **2 kills and 3 starts** (`migrate_job`): a kill during the recovery from one;
  the hook's higher backoff limit adds repetitions. The runner's Job has its one start.
- **Up to 3 rows** (`migrate_job`; 1 or 2 with the hook): a duplicate, its elder and one without a
  config, in any order of keys and dates; `OldestIsClaimed` is proved for any
  number.
- **3 unasked reconciliations** (`rollout_stage`): one during each wait and one
  between a look and a change. `BinaryFirst` is proved without the bound.

`QueuesHeldUntilMigrated` speaks of behaviours without ClickHouse restarts. A
restart resumes the sends. This is not a finding: no text claims otherwise, and
a delivery then goes through the moved storage. `StageMeansTarget` speaks of
behaviours in which the operator reconciles only changed specs: the stage takes
any task id other than the old one for the new task's, so a reconciliation of
the unchanged spec that begins between the look and the change passes for it.
`FailuresCostTwo` says what failures of the Job cost, not that they are harmless:
a pod's death alone, like a restart, can leave an invalid index that
`IF NOT EXISTS` accepts, as the recovery note of migration 20260716000001 says of
its own index.

### Deadlock

All configurations say `CHECK_DEADLOCK FALSE`. These systems really stop:
when a run is verified, when budgets of invocations are spent, when a failed
stage leaves nothing an operator may invoke, when the infrastructure stage is
over, when the Job is, when a check has ended. That they do not stop too early is
what `SomeRunVerified`, `RepairCompletes`, `StageEnds`, `JobEnds` and
`JobCompletes` say.

### Fairness

`HubDeploy!FairSpec`: a running process takes its next step (it is a sequential
program on a live machine); the operators keep invoking stages that are
admitted, which is what an upgrade consists of; pods that were told to
terminate do, Jobs that run complete. No fairness is assumed of Flux, the
application's writes or failures; `SomeRunVerified` is about the behaviours that
are `Undisturbed`, in which no command fails, no reconciliation outlives its
suspension, and the mode the operator chooses fits what is installed.

`LogsRepair!FairSpec`: the script process takes its next step, `migrate` runs
when admitted, and the operator starts each phase when it is due in the order
`charts/posthog/README.md` gives. `RepairCompletes` is about the behaviours
that keep to that order.

`ClickHouseRollout!FairSpec`: the runner goes on polling, though nothing makes
it time out; operator and kubelet do their work. `SqlxMigrations!FairSpec`: an
open transaction ends; a statement that waits again and again for a lock gets it
in the end (strong fairness), because PostgreSQL queues lock requests. Deaths,
restarts, timeouts and new transactions are never owed. `MigrateJob!FairSpec`: the
container goes on and Kubernetes starts it again while the Job has starts left
(`WF(Work)`); kills and inserts are never owed.

## Findings

Each is a run that is expected to end in a counterexample.

1. **`hub_suspend_race`** (`PrepareSuspendsFlux`). `prepare` suspends the
   Kustomization and the HelmRelease (`deploy-hub-production.py:249-251`) and
   takes the lock afterwards (`:258`). If another run holds the lock at the
   time of the suspension, rolls out, is verified and deletes the lock in
   between, its rollout resumes Flux, and the second run goes on with Flux
   running. `charts/posthog/README.md:134` says that `prepare` suspends Flux
   and locks the namespace.
2. **`hub_replay`** (`LockedStageOnce`). Two invocations on one state directory
   read `state.json` before either writes its "started" marker, and the lock
   carries the run id they share. Both execute the stage.
   `charts/posthog/README.md:211` says that any attempted stage refuses replay.
   This is why the proofs assume one state directory per operator.
3. **`logs_outlive`** (`CheckpointsOutlive`). The runner copies its own older
   journal over the one of a script that outlived its `kubectl exec`. The
   checkpoint in between is in neither place, although
   `deploy-hub-production.py:430` says checkpoints must outlive the pod. The
   runs also show what saves the day: what either copy says is still true of the tables
   (`JournalTruthful`: a copy may be behind, never ahead), the next phase is refused by the
   tables it finds, and no block is lost (`NoQueuedBlockLost`).
4. **`sqlx_timeout`** (`PersonIndexRecreated`). Migration 20260519000001 says `SET
   lock_timeout = '5s'` (`:9`), not `SET LOCAL` as 20260813000001 does. The
   setting stays in the session in which sqlx runs the next migration, the
   concurrent rebuild of the `person_id` index. An application transaction that
   stays open for more than five seconds cancels it; the Job's retry finds the
   INVALID index, skips and records the migration. The comment at `:7-8` says that
   the index is recreated in the next migration.

Met while modelling, without a run of their own: a rollout that fails in one of
its last waits, like every failure of `verify`, leaves Flux running, where
`charts/posthog/README.md:212` says that failure leaves Flux suspended
(`RolloutResumesFlux` has the other side); the SCIM backfill beside a running
application, a migrate pod that dies between a commit and its record, the stale Helm upgrade and the dropped null, all described with their
modules above; and a Helm upgrade under the production profile, resumed by `rollout`,
which writes `database-url` and `postgresql-password` from the chart's values over what
bootstrap derived or found, where `charts/posthog/README.md:88-90` says that old database
credentials are preserved.

## What is proved

TLAPS checks the theorems of the eight proof modules to the last leaf, for any
number of directories, terminals, Jobs, invocations, failures, tables, aliases,
scripts, pods, deaths, keys, value trees, edits, rows and graphs of Django migrations. (The fifteen
sqlx migrations are not a parameter: they are the code.) The constants are
constrained by named assumptions only, which TLC evaluates on every run. Of the
environment nothing is assumed but what the table says and the modules describe: in
`LogsRepair`, that `migrate` follows the runner's order and that direct writers keep
the `--writers-quiesced` pledge.

| Theorem | States |
|---|---|
| *HubDeploy* | |
| `Typing` | `Spec => []TypeOK` |
| `Ownership` | `OwnDirs => (Spec => []OneRunActs)` |
| `FailureIsHeld` | `OwnDirs => (Spec => []FailureKeepsLockAndPod)` |
| `NoReplay` | `OwnDirs => (Spec => []AttemptedOnce)` |
| `Refinement` | `OwnDirs => (Spec => ImplementsStagedRun)` |
| `LogsStayFinalized` | `OwnDirs => (Spec => []RolloutAfterLogsFinalized)` |
| `FluxResumed` | `OwnDirs => (Spec => []RolloutResumesFlux)` |
| `WritersHeld` | `OwnDirs => (Spec /\ []OneAtATime => []WritersHeldDuringJobs)` |
| `MigrationIsCovered` | `OwnDirs => (Spec /\ []OneAtATime => BackupCoversMigration)` |
| `TargetsAreCovered` | `OwnDirs => (Spec /\ []OneAtATime => BackupCoversTargets)` |
| *LogsRepair* | |
| `Typing` | `Spec => []TypeOK` |
| `JournalIsTrue` | `Spec => []JournalTruthful` |
| `ForeignAreKept` | `Spec => []ForeignQueuesKept` |
| `NoBlockLost` | `Spec => NoQueuedBlockLost` |
| `QueuesHeld` | `Spec => QueuesHeldUntilMigrated` |
| `RepairIsNotWedged` | `Spec /\ []Undisturbed => []Unwedged`, if not `Writers` |
| *ClickHouseRollout* | |
| `Typing` | `Spec => []TypeOK` |
| `BinaryFirst` | `Spec => NewConfigOnNewBinary` |
| `StageIsTarget` | `Spec => []StageMeansTarget` |
| *SqlxMigrations* | |
| `Typing` | `Spec => []TypeOK` |
| `RecordedIsOver` | `Spec => []RecordedBuildsEnded` |
| `PriceOfFailure` | `Spec => []FailuresCostTwo` |
| *SecretBootstrap* | |
| `NeverRotated` | `BootSpec => NoRotation` |
| `ForeignKept` | `BootSpec => ForeignSecretKept` |
| `TwinsAlwaysAgree` | `BootSpec => []TwinsAgree` |
| `ReadyIsComplete` | `BootSpec => []ReadyMeansComplete` |
| *DriftCheck* | |
| `DriftTypes` | `Spec => []TypeOK` |
| `ValuesOverlaid` | `Spec => []MergeOverlays` |
| `CleanIsAligned` | `Spec => []CleanMeansAligned` |
| `AlignedPasses` | `Spec => []AlignedShowsNoDrift` |
| `ReadyPasses` | `Spec => []BootstrapSatisfiesCheck` |
| *MigrateJob* | |
| `Typing` | `Spec => []TypeOK` |
| `HistoryIsConsistent` | `Spec => []HistoryConsistent` |
| `HistoryAndTables` | `Spec => []HistoryFitsTables` |
| `RecordsAreKept` | `Spec => RecordsKept` |
| `OldestIsClaimed` | `Spec => []OldestClaims` |
| `OnlyDeathsFailTheJob` | `Spec /\ Untroubled => [](at = "failed" => limit <= kills \/ Torn)` |
| `CompletedMeansRecorded` | `Spec => [](at \in {"rest", "done"} => rec = Node)` |

### The runner

`OwnDirs` says that two terminals do not share a state directory.
`hub_replay` shows that `NoReplay` fails without it.

`TypeOK` is nearly inductive. What it lacks is that only logs stages reach the
step that runs the logs script (`ScriptStage`), without which the journal could
leave its phases.

The theorems after `Typing` up to `NoReplay` share the invariant `Inv`. None of them is inductive
alone, because the lock is compared once and trusted for the rest of the stage.
`Inv` says why that is enough:

- `MemoryOf`: what a running process holds in memory is what its state file
  says, up to the one update `Bootstrap` makes before its checkpoint; its stage
  is "started" on file from `Begin` on and was `Ready` before it.
- `Owns`: from the step after its lock check a process's run id is in the lock.
  It is kept because only `verify` deletes the lock, and nobody else's `verify`
  can be running: that process would hold the lock as well, and run ids are
  unique (`UniqueIds`, from `runs` growing and `FileOK`). A process of the same
  run is excluded by `OwnDirs`.
- `FileOK` and `FailureKeepsLockAndPod` carry this across the time in which no
  process of the run exists.
- `StageOfStep` ties steps to stages.

`Inv` was first checked by TLC on the two `hub` instances. The proof that it is
inductive has a lemma per group of actions, and `OthersKept` once for all says
that a process does not notice what another one does to its own files.

`LogsStayFinalized` and `FluxResumed` strengthen it to `RolloutInv`. Every stage that
could undo a completed rollout has to be shown impossible, each for a reason of
its own:

- The stages on record are refused by the state file. A logs stage that is *not* on
  record is not refused there; it is because a logs stage needs the application
  held, and `RunOK` says that the application of a run that has rolled out runs for
  as long as the lock is its own. After `verify` the lock check refuses.
- `journal[d] \in Moved => legacy = "moved"`: once the tables have moved, no phase
  moves them back.
- `SuspensionOK` speaks of a run that is the only one to have prepared (`Sole`). What
  `prepare` suspended is then suspended by this run, the owner's suspension is in the
  record before `prepare` completes, and the process that resumes has read the
  record (`ResumeOK`), whichever process that is.

`WritersHeld`, `MigrationIsCovered` and `TargetsAreCovered` are about what is held
*before* the rollout, and hold under one more hypothesis. `OneAtATime` says that
operators begin a run only when the runs before it are verified. It is not
decoration: without it TLC finds each of the three violated on the instance of
`hub_two_runs`, by the race of [finding 1](#findings). The second run was prepared
while the first one still held the lock, and the rollout of the first one resumes
Flux behind its back. The hypothesis is about when operators start a run: it leaves
open which stages they ask for, in which order, how often, and what fails.

The invariant is `HoldInv`: `RolloutInv`, `RunHeld` for each run and `ProcHeld` for
each process. `RunHeld` reads the record as promises about the cluster: a run that
is prepared and not yet rolled out has Flux held, one whose backup is complete
has besides no writer and a backup that misses nothing, one whose infrastructure is
complete has the targets (as long as the lock is its own), one that has not begun
to migrate has no Job. `ProcHeld` says how far a process has come in making its
stage's promise true, step by step (`Suspending`, `Saving`, `Building`,
`Migrating`), and that it knows the mode and the backup on file (`Loaded`). Flux
needs both objects resumed to start a reconciliation, and the application needs Flux or a
rollout to write, so nothing of the environment breaks a promise. A Job that runs
says that the run's `migrate` is on record; with that come a complete backup,
complete infrastructure and no rollout. `HeldFrame` is `OthersKept` for this
invariant. TLC checked `HoldInv` on the instance of `hub_single`, and on two runs
under `OneAtATime`.

`Refinement` uses `Inv` to map each step: a checkpoint of `Begin` is an
`Attempt`, `TakeLock` an `Acquire`, `RecordJobs` a `Provision` or a stutter,
`DeleteLock` a `Release`, `Finish` a `Complete`, everything else a stutter.

### The logs repair

The theorems share one invariant. The order of the phases is a number, `Rank`,
and `furthest` is the last phase any script has journalled. The runner starts a
phase once (`Distinct`) and no copy of the journal, in a process, on the pod or
on the runner's disk, is ahead of `furthest` (`Journalled`). A process past its check
therefore read exactly `furthest`, and what it read is its command's turn
(`InTurn`). Two processes cannot both be in their turn (`OneActs`), although the
model lets as many run as the runner loses: this is why restoring an older
journal is harmless. What one phase after the other makes true is `Done` of
the process that is at it and `Recorded` of the phases that are over.
`JournalIsTrue` reads off `Recorded`. `NoBlockLost` needs that only `finalize` retires
an alias, past a check that found every queue empty, and that nobody fills one
until it is over; `QueuesHeld`, that all sends are stopped when the first table
moves (unless the server restarts), and that the phases that start or flush one
come after `migrate`.

`RepairIsNotWedged` is the safety half of `RepairCompletes`: in the documented
order, with direct writers quiesced, no script lost, every queue bound for
the moved storage and nobody else at the schema, no `require()` of the script ever
fails and no DDL finds its object gone, and there is a script at work, a phase or the
migration that is due, or the end. ClickHouse may restart and queues be delivered in
between. Its invariant `Smooth` adds to `Inv` what lets each check
through: one process has the journal that there is (`Orderly`), the inventories
that are compared were not touched since they were recorded and drained queues stayed
empty (`Unchanged`), and what a loop has still to do is there to be done
(`Remaining`). No step of a script can be refused there (`SmoothRefusesNothing`);
that each is taken is fairness, and stays with TLC.

### ClickHouse

`BinaryFirst` needs no assumption on the constants. Its invariant says that a new image
spreads from the spec to the task to the pod and never back (`ImageSpreads`),
and that wherever a configuration has still to be loaded the pod has the
new image already (`ConfigWaits`), which the runner has seen before it goes on
to the target. The task id plays no part: for this property a wait that ends
too early is harmless as long as the pod is looked at.

For `StageIsTarget` it does play a part. `Settled` is an operator that is at the current spec
and says "Completed"; while the runner waits, `Awaited` says that either nothing had to
change and the operator is settled, or a task id was read before the change and an
operator with *another* task id is at the current spec. So a status left over from
the task before does not count. A reconciliation nobody asked for has a new
task id and the old spec; the property excludes it itself, since nothing in the
code does (`rereads = 0`).

### The sqlx Job

What is recorded is an initial segment of the plan (`Segment`), so at any
time one migration is in its turn: the first not recorded. The session works on
that one, and so does the statement that outlived a client (`OrphanInv`). Nothing but these two
leaves an index half built or half dropped (`Unfinished`), and `sqlx` does not record a
migration whose statement waits, so what is recorded is over (`BuildsEnded`).
Retries skip what exists, which is how an *invalid* index may get on record
([finding 4](#findings)): `RecordedIsOver` says "over", not "valid". How many
can be invalid, and how many attempts be lost, is `PriceOfFailure`. Its invariant
`PriceInv` adds to what is lost what is still owed: the death of a pod within a
build costs an attempt at once and, while the orphan can still deadlock, owes one
thing more, which the deadlock spends on the retry or on the index. A restart or a
timeout spends both of its two at most. That a plan has a first
migration not recorded uses the well-foundedness of the naturals; all else about the
plan is read off its fifteen entries.

### The Secrets

The four theorems about `SecretBootstrap` share one invariant and
`KeysAssumption` (twins are symmetric, storage keys are neither generated nor
derived or constant). What makes the scripts safe is that the invocation's copy is either
out of date, and then its patch is refused, or exact: `Known` says that a copy whose
`resourceVersion` is still current has the Secret's owner and data, `HelmKnown` the
same of the keys Helm does not take from its values. With it, a patch that applies completes what is
there (`NeverRotated`), belongs to a Secret that was not foreign (`ForeignKept`),
and takes a missing twin from the one that exists (`TwinsAlwaysAgree`, with `HelmTwins`
for the twins an upgrade carries along).
`ReadyIsComplete` adds that nothing is ever taken out of a Secret again.

### The drift check

The theorems hold for `Spec`, which has all that `MCNext` leaves out: Secrets,
release, resource and workload change side by side, in any state, during the check
and after it. `CheckInv` says what the check has established so far. As long as
nothing changed (`calm`) and nothing is reported, each part of the cluster it has
been through is as the profile asks (`Established`), and what it holds in `read` is
what is there (`Reading`). Of the Secrets something is left even when others
interfere: what was read stays there (`StillThere`, from `ReadyIsComplete`'s
argument), so a live check past the Secrets knows them to be complete (`Filled`).
`CleanIsAligned` is these two at the end. `AlignedPasses` is the converse, kept
step by step: an aligned cluster that nobody touches has no part that differs.
What takes work is the data. The two sides are merged with different
credentials, which `Plain` and `Template` leave out (`CredentialApart`); the installed
values are a release of *some* values (`Deployed`), and those that `changes` finds
equal are the profile's (`ValuesCompared`, `SameValues`); and the workload is the
template of the installed values after any sequence of restarts and edits, which are
never more than four objects (`VariantsClosed`). `runtime_spec` makes the restarted
one equal to the untouched one, and an edited field is seen
(`WorkloadCompared`). `ReadyPasses` needs that bootstrap refuses a Secret with a
redaction marker and that nobody makes a marker of a value afterwards (`Unmarked`).

`merge` and `changes` are proved about as they are, for trees of any depth
(`ValuesOverlaid` is the result about `merge`). Three steps are needed each time.
A recursive definition in TLA+ is a choice of some function that satisfies its
equation, so one has to be shown to exist: `MergeExists` and `AgreeExists` put
together the partial functions on sets of trees that have in them what is in their
trees, of which any two agree where both are defined (`MergesAgree`,
`AgreesUnique`). Induction goes over sets, since the library's induction theorems take
operators: among the trees of which something is false there is one with none of
them in it (`InnermostDict`, `InnermostTree`), because of their depths one is the
least (`LeastNumber`). What the functions do then follows: `MergeIsOverlay`, by
induction along a path on which two dictionaries are merged up to where the override
decides; `AgreeEqual`, that `changes` yields nothing exactly for equal trees unless
asked for a subset; `AgreeFields`, that a subset is compared field by field. `IsDict` of
what is compared has to be shown, and that it is not empty, since `changes` treats an
empty object as one that asks for everything.

The assumptions are on the trees alone: `DictsAssumption` and `ComparedAssumption`
(a tree is a function, what is in it is in the set and less deep, and no dictionary
uses the two keys by which leaves and lists are told), and `TreesAssumption`: what a
release's values are made into is among the trees compared, an override has no null
at its top (nothing rules that out for the live release, and with one the check is wrong,
see [DriftCheck](#driftcheck): `CleanIsAligned` is about the others), the chart has
the credential and the profile's workload has fields. TLC evaluates them on the
instance, and checked `CheckInv`'s parts on all states of the run.

### The migrate Job

`RecordsAreKept` needs `MarkersDerived`: the row of a squash is on record only
when all it replaces is, in the histories found (`JobAssumption`) and ever
after, because markers are derived from the originals and those are never
removed. What the command removes, `Premature`, is then such a row with an unmet
dependency, and no step but `RemoveMarker` removes anything. Nothing is assumed of
the graph but what a squash is.

`HistoryIsConsistent` is about a graph that changes with every row written, since a
squash is in it or its originals are, depending on what is recorded. So the
invariant does not speak of the graph: `InOrder` says that every recorded migration that is not
a squash was recorded after what it depends on, where a squash counts when
all it replaces is recorded. When the squashes' own rows are in order as well
(`MarkersInOrder`, true from the end of `"prepare"` on), the history is
consistent in the graph Django builds from it, whichever that is. The step that
needs most is `Execute`: the dependency of a migration on a squash may have been
redirected to the last of its originals, and that these are recorded must mean that
all are (`LastMeansAll`). `PlanInOrder` says that a plan made in one graph can be
carried out although rows change the graph meanwhile. Rows that follow their commit
one by one are each in order too (`RowInOrder`): what else the squash replaces comes
before by the order of its list, all else because the squash has run (`Recording`). So
the theorem needs no exception for a death among them. The assumptions are
`GraphAssumption` (dependencies are migrations, squashes replace disjoint sets, whose
members depend on each other in some order and not on their squash), `MovesAssumption` (the move targets are not
squashes), `JobAssumption` (a squash on record has its originals on record) and
`HistoriesAssumption` (a history found was itself written in order, and has no squash's row without the first migration). All are facts
about the `posthog` migrations or about Django, and TLC evaluates them on the
instance. TLC checked the invariant on the run's states.

`HistoryAndTables` says that no migration is run against tables it cannot create or
change, until a process dies between a commit and its record. The invariant `FitInv`
has three parts, and says nothing when `Torn`, which then stays so (`StaysTorn`). The parts speak
of what is recorded or due to be (`Due`) and of what is to run after that (`Left`): a
commit changes both at once, the rows that follow it change neither. `Matching` relates records and
tables: they are those of one installation, found so (`TablesMatch` in
`HistoriesAssumption`) and kept so. A fresh installation has no tables before
posthog's migrations, one from before the cutoff has all of them; later a move on
record has its tables, an app without tables has nothing of its squash on record,
and of two open moves one cannot lack its tables while the other has them whole. That last condition
is why a plan for one move cannot meet another that has no tables. `MovesPassed` says that
before the regular migrate every move is on record or has no tables at all.
`PlanFits` then places what matters in the plan: while a move is prepared, no squash
of a move is in the graph, and every open move has some of its tables; in the regular
migrate the squash of each open move is in the graph, because nothing of it is on
record. The step that needs most is again `Execute`: `BeforeRunnable` shows that
whichever graph the plan was made in, all that the files state before a migration is
on record when it runs, so that what `Needs` says of the files holds of the record.

`TablesAssumption` is what this takes of the migrations: each move has an app and a
squash of its own; that squash alone creates the app's tables, after posthog's first
migration; what changes those tables depends on the move, or precedes it in its own
app and runs for no earlier move (`Precedes`: a legacy `experiments.0001`, say), or is one of
posthog's own migrations up to the cutoff; and `MODEL_MOVES` lists no move before one it
depends on. `LateAssumption` adds that a move, being state only, defers no statements. The migrations come with the pinned image and are not in the repository:
the assumption is what the command itself counts on, and TLC evaluates it on the
instance. An installation with a part of an app's tables never
gets to the regular migrate: the command refuses it first (`RefuseMove`). TLC checked
`FitInv` on the run's states.

`OldestIsClaimed` rests on `RowsAssumption` (rows found are numbered as they were
inserted, have no config yet, and the backfill is not itself a squash). Rows are
inserted with a later date than all others, so what was looked at is never made a
duplicate by what came after; `Backfilling` says which of the rows looked at have
been claimed or skipped when the batches have got as far as key `last`; and
`NotYet` that until the backfill is on record, however often it was rolled back,
no row has a config.

`OnlyDeathsFailTheJob` is the safety half of `JobCompletes`, without its fairness:
if nobody provisions and no app's tables are partly there, the Job's starts, one or
many, are used up by deaths alone, unless one of these was between a commit and the last of its
rows. So no pod may end itself, which is what every
guard of the two commands could make it do. `WorkGoesOn` goes through
them: the history is consistent in either graph (`MovesAreConsistent`,
`OrderIsConsistent`), no plan is backward because its target is not on record and is
no squash, a plan's next migration can be applied (`BeforeRunnable` and `PlanFits` again),
no plan holds one that Django refuses, a move's tables are whole, and the backfill finds
no duplicate that it has not looked at, because nobody inserts (`Looking`). The last
needs that the constraint's migration comes after the backfill
(`Needs(Constraint, Backfill)` in `JobAssumption`). That no graph has conflicts is
assumed of the migrations themselves (`LeavesAssumption`: each app's end in one,
whichever squashes stand for their originals); TLC evaluates it on the instance.
`Attempts` counts. That the Job then also
ends is liveness and stays with TLC. `CompletedMeansRecorded` says what it ends with:
a plan for all is empty only when every node is on record, and none is taken off
after the markers of `"prepare"`.

### Only model-checked

- Liveness (`SomeRunVerified`, `RepairCompletes`, `StageEnds`, `JobEnds`, `JobCompletes`):
  out of the prover's reach. Of `RepairCompletes` and `JobCompletes` the safety
  halves are proved (`RepairIsNotWedged`; `OnlyDeathsFailTheJob`,
  `CompletedMeansRecorded`).
- What the runs refute, of course: `PrepareSuspendsFlux`, `LockedStageOnce`,
  `CheckpointsOutlive`, `PersonIndexRecreated`.

## What is not modelled

- Rendering: templates, values, profiles and manifests. They have no steps.
- `kind-bootstrap.sh`: a straight-line script for a test environment.
- Topic and user-script synchronisation: regenerates files in one go.
- Vendored binaries and XML.
- Of Django: migrations that are not atomic, and its refusals of a graph with cycles or
  with dependencies that do not exist, which depend on the image alone.
- The parts of the plan below that have no module yet. Their hazards are in
  `PROJECT.json` with a note.

## Plan

Order: what can damage data first, then what can wedge an operation, then the
rest. Done: `HubDeploy` with `StagedRun`, `LogsRepair`, `ClickHouseRollout`,
`SqlxMigrations`, `SecretBootstrap`, `DriftCheck`, `ModelMoves`, `ScimBackfill`,
`MigrateJob`. Next:

1. `BackupTransfer`: `backup`'s chunks, sizes and digests, FREEZE and UNFREEZE
   per table. Property: a backup recorded as verified restores every byte that
   was frozen. Theorem candidate.
2. `WebStartup`, `HelmHooks`: supervision, weights and back-off. Liveness: the
   supervisor ends when a child does.
3. `TrackerCursor`, `ReleasePipeline`: what is looked at, what is published.
4. Composition: `HubDeploy` with the phases of `LogsRepair` in place of its one
   step per phase, and with `DriftCheck` in place of the check in `prepare` and
   `verify`.

Every safety property that a run checks is proved. The next theorems are those of the
modules above.

## Working with the modules

    tlc -workers 2 -config HubSingle.cfg MCHubDeploy
    tlapm HubDeployProofs.tla

Operators whose comment starts with "Mutant" are deliberately wrong variants of
the definition that follows them. They are not used by the specification.
Replacing that definition by one of them makes the property named in
`PROJECT.json` fail, which shows that the property can fail.
