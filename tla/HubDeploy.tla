------------------------------ MODULE HubDeploy ------------------------------
(***************************************************************************)
(* The staged, forward-only upgrade runner scripts/deploy-hub-production.py *)
(* against one cluster.  Each invocation is a process that loads the run's  *)
(* state file, checks its prerequisites, records the stage as "started",    *)
(* acts on the cluster and records it as "complete".  Any command may fail  *)
(* and the process may be killed between any two steps (Abort).  The        *)
(* cluster side (Flux, pods, Jobs) runs concurrently.                       *)
(*                                                                          *)
(* One "step" is one kubectl/helm command or one checkpoint of the runner.  *)
(* The application Deployments are abstracted to one tier (apps): the       *)
(* runner treats them alike, one after the other.                           *)
(***************************************************************************)
EXTENDS Naturals, UpgradeStages

CONSTANTS
    Dir,             \* state directories (--state-dir); each holds one run
    Proc,            \* operators' terminals: each runs one invocation at a time
    DirOf,           \* the --state-dir each of them passes
    Stages,          \* stages the operators invoke
    Modes,           \* --mode values the operators pass
    Releases,        \* whether a HelmRelease is live when it all begins
    Legacy,          \* where the legacy logs tables are when it all begins
    HasOwner,        \* the HelmRelease carries Flux Kustomization labels
    FluxBusy,        \* a Flux reconciliation may outlive its suspension
    NJobs,           \* rendered hook Jobs, numbered in hook-weight order
    MigrateJob,      \* the one that runs migrate_clickhouse
    MaxInvocations,  \* bound: admitted invocations
    MaxAborts        \* bound: failed commands and killed processes

ASSUME BoundsAssumption ==
    /\ NJobs \in Nat /\ MigrateJob \in 1..NJobs
    /\ MaxInvocations \in Nat /\ MaxAborts \in Nat

ASSUME DomainAssumption ==
    /\ Stages \subseteq Stage
    /\ Modes \subseteq {"fresh", "upgrade"}
    /\ Releases \subseteq {"absent", "live"}
    /\ Legacy \subseteq {"none", "default"}
    /\ HasOwner \in BOOLEAN /\ FluxBusy \in BOOLEAN
    /\ DirOf \in [Proc -> Dir]

NoRun   == 0                     \* run ids are 1, 2, ...

Phases == {"none", "snapshotted", "reconciling", "structural_complete",
           "starting_consumers", "consumers_complete", "draining", "drained",
           "verified", "finalizing", "finalized"}

\* The contents of state.json (and of the dictionary a process holds).
RunState == [id : Nat, mode : {"fresh", "upgrade"}, steps : [Stage -> Status],
             owners : BOOLEAN, verified : BOOLEAN]

NewState(m) == [id |-> NoRun, mode |-> m, steps |-> [s \in Stage |-> "none"],
                owners |-> FALSE, verified |-> FALSE]

VARIABLES
    at, stage, mem, cursor,          \* runner processes
    disk, torn, journal,             \* state directories
    lock, pod,                       \* posthog-upgrade-lock, posthog-upgrade-runner
    release, kust, hr, inflight,     \* Flux: release live? owner/release suspended?
    outlived,                        \* history: a reconciliation outlived a prepare
    apps, hpa,                       \* application tier, autoscalers
    infra, legacy, jobs, backup,     \* what the stages change and save
    begun, runs, spent, aborts       \* history and budgets

procVars  == <<at, stage, mem, cursor>>
diskVars  == <<disk, torn>>
lockVars  == <<lock, pod>>
fluxVars  == <<release, kust, hr, inflight, outlived>>
appVars   == <<apps, hpa>>
dataVars  == <<infra, legacy, jobs, backup, journal>>
countVars == <<begun, runs, spent, aborts>>
vars == <<procVars, diskVars, lockVars, fluxVars, appVars, dataVars, countVars>>

(***************************************************************************)
(* Guards.                                                                  *)
(***************************************************************************)
\* assert_held(): no replicas requested, none left, no autoscaler.
Held == apps = "stopped" /\ ~hpa

FirstStep(s) ==
    CASE s = "prepare"        -> "suspendOwner"
      [] s = "backup"         -> "backupHeld"
      [] s = "infrastructure" -> "binary"
      [] s = "migrate"        -> "legacyCheck"
      [] s = "rollout"        -> "install"
      [] s = "verify"         -> "capture"
      [] s \in LogStage       -> "script"

\* Steps at which the process is about to rewrite state.json.
CheckpointStep == {"begin", "recordNamespace", "recordJobs", "freeze",
                   "verifyBackup", "finish"}

Steps == {"idle", "preflight", "lockcheck", "heldcheck", "begin",
          "suspendOwner", "suspendRelease", "recordNamespace", "takeLock",
          "deleteHpa", "scale", "drain", "bootstrap", "recordJobs",
          "holdInstall", "createPod", "backupHeld", "dump", "freeze",
          "verifyBackup", "unfreeze", "binary", "targets", "script",
          "legacyCheck", "heldAgain", "createJob", "waitJob", "migrateCheck",
          "install", "resumeRelease", "resumeOwners", "rolloutStatus",
          "capture", "align", "deletePod", "deleteLock", "finish"}

Goto(p, l) ==
    at' = [at EXCEPT ![p] = l] /\ UNCHANGED <<stage, cursor>>

\* The process ends; its memory is gone.
Exit(p) ==
    /\ at'     = [at EXCEPT ![p] = "idle"]
    /\ stage'  = [stage EXCEPT ![p] = "prepare"]
    /\ cursor' = [cursor EXCEPT ![p] = 1]

Forget(p) == mem' = [mem EXCEPT ![p] = NewState("upgrade")]

\* private_write(state.json): the whole dictionary of the process replaces the file.
Write(p, st) ==
    /\ disk' = [disk EXCEPT ![DirOf[p]] = st]
    /\ torn' = [torn EXCEPT ![DirOf[p]] = FALSE]

Checkpoint(p, st) == Write(p, st) /\ mem' = [mem EXCEPT ![p] = st]

-----------------------------------------------------------------------------
Init ==
    /\ at     = [p \in Proc |-> "idle"]
    /\ stage  = [p \in Proc |-> "prepare"]
    /\ mem    = [p \in Proc |-> NewState("upgrade")]
    /\ cursor = [p \in Proc |-> 1]
    /\ disk   = [d \in Dir |-> NewState("upgrade")]
    /\ torn   = [d \in Dir |-> FALSE]
    /\ journal = [d \in Dir |-> "none"]
    /\ lock = NoRun /\ pod = NoRun
    /\ release \in Releases
    /\ kust = FALSE /\ hr = FALSE /\ inflight = FALSE /\ outlived = FALSE
    /\ apps = IF release = "live" THEN "running" ELSE "stopped"
    /\ hpa  = (release = "live")
    /\ infra = "old"
    /\ legacy \in Legacy
    /\ jobs   = [d \in Dir |-> [i \in 1..NJobs |-> "absent"]]
    /\ backup = [d \in Dir |-> "none"]
    /\ begun  = [d \in Dir |-> [s \in Stage |-> 0]]
    /\ runs = 0 /\ spent = 0 /\ aborts = 0

(***************************************************************************)
(* Starting an invocation.  A refused invocation changes nothing, so only   *)
(* the admitted ones are steps.                                             *)
(***************************************************************************)
Invoke(p, s, m) ==
    /\ at[p] = "idle" /\ spent < MaxInvocations
    /\ ~torn[DirOf[p]]                         \* json.loads would raise
    /\ LET d  == DirOf[p]
           st == IF disk[d].id = NoRun THEN NewState(m) ELSE disk[d]
       IN /\ st.mode = m
          /\ Ready(st.steps, s)
          /\ mem' = [mem EXCEPT ![p] = st]
    /\ stage'  = [stage EXCEPT ![p] = s]
    /\ UNCHANGED cursor
    /\ at' = [at EXCEPT ![p] = IF s = "prepare" THEN "preflight" ELSE "lockcheck"]
    /\ spent' = spent + 1
    /\ UNCHANGED <<diskVars, lockVars, fluxVars, appVars, dataVars, begun, runs, aborts>>

Preflight(p) ==
    /\ at[p] = "preflight" /\ Goto(p, "begin")
    /\ UNCHANGED <<mem, diskVars, lockVars, fluxVars, appVars, dataVars, countVars>>

CheckLock(p) ==
    /\ at[p] = "lockcheck" /\ lock = mem[p].id
    /\ Goto(p, IF stage[p] \in HeldStage THEN "heldcheck" ELSE "begin")
    /\ UNCHANGED <<mem, diskVars, lockVars, fluxVars, appVars, dataVars, countVars>>

CheckHeld(p) ==
    /\ at[p] = "heldcheck" /\ Held /\ Goto(p, "begin")
    /\ UNCHANGED <<mem, diskVars, lockVars, fluxVars, appVars, dataVars, countVars>>

\* Mutant: "started" is kept in memory until the stage's next checkpoint.
BeginUnrecorded(p) ==
    LET id == IF stage[p] = "prepare" THEN runs + 1 ELSE mem[p].id
    IN /\ at[p] = "begin" /\ Goto(p, FirstStep(stage[p]))
       /\ mem' = [mem EXCEPT ![p].id = id, ![p].steps[stage[p]] = "started"]
       /\ runs'  = IF stage[p] = "prepare" THEN runs + 1 ELSE runs
       /\ begun' = [begun EXCEPT ![DirOf[p]][stage[p]] = @ + 1]
       /\ UNCHANGED <<diskVars, lockVars, fluxVars, appVars, dataVars, spent, aborts>>

\* The stage is recorded as started before anything is touched.  A new run
\* draws its id when its dictionary is created; it first shows here.
Begin(p) ==
    LET s  == stage[p]
        id == IF s = "prepare" THEN runs + 1 ELSE mem[p].id
    IN /\ at[p] = "begin" /\ Goto(p, FirstStep(s))
       /\ Checkpoint(p, [mem[p] EXCEPT !.id = id, !.steps[s] = "started"])
       /\ runs'  = IF s = "prepare" THEN runs + 1 ELSE runs
       /\ begun' = [begun EXCEPT ![DirOf[p]][s] = @ + 1]
       /\ UNCHANGED <<lockVars, fluxVars, appVars, dataVars, spent, aborts>>

(***************************************************************************)
(* prepare                                                                  *)
(***************************************************************************)
Live(p) == mem[p].mode = "upgrade"

\* Mutant: only the HelmRelease is suspended, not the Kustomization that owns it.
SuspendOwnerSkipped(p) ==
    /\ at[p] = "suspendOwner" /\ Live(p) = (release = "live")
    /\ Goto(p, "suspendRelease")
    /\ UNCHANGED <<mem, diskVars, lockVars, fluxVars, appVars, dataVars, countVars>>

\* Mutant: the suspended owner is not recorded for the rollout.
SuspendOwnerUnrecorded(p) ==
    /\ at[p] = "suspendOwner" /\ Live(p) = (release = "live")
    /\ kust' = (kust \/ (Live(p) /\ HasOwner))
    /\ Goto(p, "suspendRelease")
    /\ UNCHANGED <<mem, diskVars, lockVars, release, hr, inflight, outlived, appVars, dataVars, countVars>>

SuspendOwner(p) ==
    /\ at[p] = "suspendOwner" /\ Live(p) = (release = "live")
    /\ kust' = (kust \/ (Live(p) /\ HasOwner))
    /\ mem'  = [mem EXCEPT ![p].owners = Live(p) /\ HasOwner]
    /\ Goto(p, "suspendRelease")
    /\ UNCHANGED <<diskVars, lockVars, release, hr, inflight, outlived, appVars, dataVars, countVars>>

SuspendRelease(p) ==
    /\ at[p] = "suspendRelease"
    /\ hr' = (hr \/ Live(p))
    /\ Goto(p, "recordNamespace")
    /\ UNCHANGED <<mem, diskVars, lockVars, release, kust, inflight, outlived, appVars, dataVars, countVars>>

RecordNamespace(p) ==
    /\ at[p] = "recordNamespace" /\ Goto(p, "takeLock")
    /\ Checkpoint(p, mem[p])
    /\ UNCHANGED <<lockVars, fluxVars, appVars, dataVars, countVars>>

\* Mutant: kubectl apply instead of create.
TakeLockByApply(p) ==
    /\ at[p] = "takeLock"
    /\ lock' = mem[p].id
    /\ Goto(p, IF Live(p) THEN "deleteHpa" ELSE "bootstrap")
    /\ UNCHANGED <<mem, diskVars, pod, fluxVars, appVars, dataVars, countVars>>

\* kubectl create: fails when the ConfigMap exists, whoever made it.
TakeLock(p) ==
    /\ at[p] = "takeLock" /\ lock = NoRun
    /\ lock' = mem[p].id
    /\ Goto(p, IF Live(p) THEN "deleteHpa" ELSE "bootstrap")
    /\ UNCHANGED <<mem, diskVars, pod, fluxVars, appVars, dataVars, countVars>>

DeleteHpa(p) ==
    /\ at[p] = "deleteHpa" /\ hpa' = FALSE /\ Goto(p, "scale")
    /\ UNCHANGED <<mem, diskVars, lockVars, fluxVars, apps, dataVars, countVars>>

\* Requesting zero replicas: pods that run start to terminate.
ScaledDown == IF apps = "running" THEN "draining" ELSE apps

Scale(p) ==
    /\ at[p] = "scale" /\ apps' = ScaledDown /\ Goto(p, "drain")
    /\ UNCHANGED <<mem, diskVars, lockVars, fluxVars, hpa, dataVars, countVars>>

WaitDrained(p) ==
    /\ at[p] = "drain" /\ apps = "stopped" /\ Goto(p, "bootstrap")
    /\ UNCHANGED <<mem, diskVars, lockVars, fluxVars, appVars, dataVars, countVars>>

\* Mutant: the target specs are applied whatever the mode.
BootstrapAlways(p) ==
    /\ at[p] = "bootstrap" /\ Goto(p, "recordJobs")
    /\ infra' = "new"
    /\ mem' = [mem EXCEPT ![p].steps["infrastructure"] = "complete"]
    /\ UNCHANGED <<diskVars, lockVars, fluxVars, appVars, legacy, jobs, backup, journal, countVars>>

\* Secrets; on a fresh target also every dependency, which completes that stage
\* in memory until the next checkpoint.
Bootstrap(p) ==
    /\ at[p] = "bootstrap" /\ Goto(p, "recordJobs")
    /\ IF Live(p)
       THEN UNCHANGED <<infra, mem>>
       ELSE /\ infra' = "new"
            /\ mem' = [mem EXCEPT ![p].steps["infrastructure"] = "complete"]
    /\ UNCHANGED <<diskVars, lockVars, fluxVars, appVars, legacy, jobs, backup, journal, countVars>>

RecordJobs(p) ==
    /\ at[p] = "recordJobs" /\ Checkpoint(p, mem[p])
    /\ Goto(p, IF Live(p) THEN "createPod" ELSE "holdInstall")
    /\ UNCHANGED <<lockVars, fluxVars, appVars, dataVars, countVars>>

\* install(True): Helm upgrade whose post-renderer zeroes every application
\* Deployment and drops the autoscalers.  Used by prepare and by migrate.
HoldInstall(p) ==
    /\ at[p] = "holdInstall"
    /\ apps' = ScaledDown /\ hpa' = FALSE
    /\ Goto(p, IF stage[p] = "prepare" THEN "createPod" ELSE "heldAgain")
    /\ UNCHANGED <<mem, diskVars, lockVars, fluxVars, dataVars, countVars>>

CreatePod(p) ==
    /\ at[p] = "createPod" /\ pod' = mem[p].id /\ Goto(p, "finish")
    /\ UNCHANGED <<mem, diskVars, lock, fluxVars, appVars, dataVars, countVars>>

(***************************************************************************)
(* backup                                                                   *)
(***************************************************************************)
BackupHeld(p) ==
    /\ at[p] = "backupHeld" /\ Held /\ Goto(p, "dump")
    /\ UNCHANGED <<mem, diskVars, lockVars, fluxVars, appVars, dataVars, countVars>>

\* pg_dumpall: from here on an application write is missing from the backup.
Dump(p) ==
    /\ at[p] = "dump" /\ backup' = [backup EXCEPT ![DirOf[p]] = "taken"]
    /\ Goto(p, "freeze")
    /\ UNCHANGED <<mem, diskVars, lockVars, fluxVars, appVars, infra, legacy, jobs, journal, countVars>>

FreezeTables(p) ==
    /\ at[p] = "freeze" /\ Checkpoint(p, mem[p]) /\ Goto(p, "verifyBackup")
    /\ UNCHANGED <<lockVars, fluxVars, appVars, dataVars, countVars>>

VerifyBackup(p) ==
    /\ at[p] = "verifyBackup"
    /\ Checkpoint(p, [mem[p] EXCEPT !.verified = TRUE])
    /\ Goto(p, "unfreeze")
    /\ UNCHANGED <<lockVars, fluxVars, appVars, dataVars, countVars>>

Unfreeze(p) ==
    /\ at[p] = "unfreeze" /\ Goto(p, "finish")
    /\ UNCHANGED <<mem, diskVars, lockVars, fluxVars, appVars, dataVars, countVars>>

(***************************************************************************)
(* infrastructure                                                           *)
(***************************************************************************)
PatchBinary(p) ==
    /\ at[p] = "binary" /\ infra' = "binary" /\ Goto(p, "targets")
    /\ UNCHANGED <<mem, diskVars, lockVars, fluxVars, appVars, legacy, jobs, backup, journal, countVars>>

ApplyTargets(p) ==
    /\ at[p] = "targets" /\ infra' = "new" /\ Goto(p, "finish")
    /\ UNCHANGED <<mem, diskVars, lockVars, fluxVars, appVars, legacy, jobs, backup, journal, countVars>>

(***************************************************************************)
(* logs: the phases of scripts/reconcile-clickhouse-logs.py, one step each, *)
(* by the journal phase they demand, enter and leave behind.  The local     *)
(* journal is copied back even when the script fails.                       *)
(***************************************************************************)
\* finish() wants the thirteen logs modules in the migration history: surely
\* there once the migrate Job is complete, perhaps as soon as it runs.
LateLogs == {"logs:drain", "logs:verify", "logs:finalize"}
ModulesApplied(results) == \E d \in Dir : jobs[d][MigrateJob] \in results

Demands(s) ==
    CASE s = "logs:snapshot"  -> {"none"}
      [] s = "logs:reconcile" -> {"snapshotted"}
      [] s = "logs:consumers" -> {"structural_complete"}
      [] s = "logs:drain"     -> {"consumers_complete"}
      [] s = "logs:verify"    -> {"drained", "verified", "finalized"}
      [] s = "logs:finalize"  -> {"verified"}

Enters(s, j) ==
    CASE s \in {"logs:snapshot", "logs:verify"} -> j
      [] s = "logs:reconcile" -> "reconciling"
      [] s = "logs:consumers" -> "starting_consumers"
      [] s = "logs:drain"     -> "draining"
      [] s = "logs:finalize"  -> "finalizing"

Leaves(s, j) ==
    CASE s = "logs:snapshot"  -> "snapshotted"
      [] s = "logs:reconcile" -> "structural_complete"
      [] s = "logs:consumers" -> "consumers_complete"
      [] s = "logs:drain"     -> "drained"
      [] s = "logs:verify"    -> IF j = "finalized" THEN "finalized" ELSE "verified"
      [] s = "logs:finalize"  -> "finalized"

ScriptAdmits(d, s) ==
    /\ journal[d] \in Demands(s)
    /\ s \in {"logs:snapshot", "logs:reconcile"} => legacy = "default"
    /\ s \in LateLogs => ModulesApplied({"running", "failed", "complete"})

RunScript(p) ==
    LET d == DirOf[p]
        s == stage[p]
    IN /\ at[p] = "script" /\ ScriptAdmits(d, s)
       /\ journal' = [journal EXCEPT ![d] = Leaves(s, @)]
       /\ legacy' = IF s = "logs:reconcile" THEN "moved" ELSE legacy
       /\ Goto(p, "finish")
       /\ UNCHANGED <<mem, diskVars, lockVars, fluxVars, appVars, infra, jobs, backup, countVars>>

\* The script dies after it journalled the phase it entered, or the runner
\* loses it after it journalled the phase it left.
ScriptFails(p) ==
    LET d == DirOf[p]
        s == stage[p]
    IN /\ at[p] = "script" /\ ScriptAdmits(d, s) /\ aborts < MaxAborts
       /\ \/ /\ journal' = [journal EXCEPT ![d] = Enters(s, @)]
             /\ legacy' \in IF s = "logs:reconcile" THEN {"default", "mixed", "moved"}
                                                    ELSE {legacy}
          \/ /\ journal' = [journal EXCEPT ![d] = Leaves(s, @)]
             /\ legacy' = IF s = "logs:reconcile" THEN "moved" ELSE legacy
       /\ aborts' = aborts + 1
       /\ Exit(p) /\ Forget(p)
       /\ UNCHANGED <<diskVars, lockVars, fluxVars, appVars, infra, jobs, backup, begun, runs, spent>>

(***************************************************************************)
(* migrate                                                                  *)
(***************************************************************************)
ConsumersDone(p) ==
    mem[p].steps["logs:reconcile"] # "none"
        => mem[p].steps["logs:consumers"] = "complete"

\* Three table names are counted, so a half-moved set may pass for moved.
LegacyCheck(p) ==
    /\ at[p] = "legacyCheck" /\ legacy # "default" /\ ConsumersDone(p)
    /\ Goto(p, "holdInstall")
    /\ UNCHANGED <<mem, diskVars, lockVars, fluxVars, appVars, dataVars, countVars>>

HeldAgain(p) ==
    /\ at[p] = "heldAgain" /\ Held /\ Goto(p, "createJob")
    /\ UNCHANGED <<mem, diskVars, lockVars, fluxVars, appVars, dataVars, countVars>>

\* kubectl create of NAME-guarded-RUNID: fails when that Job exists.
CreateJob(p) ==
    /\ at[p] = "createJob" /\ jobs[DirOf[p]][cursor[p]] = "absent"
    /\ jobs' = [jobs EXCEPT ![DirOf[p]][cursor[p]] = "running"]
    /\ Goto(p, "waitJob")
    /\ UNCHANGED <<mem, diskVars, lockVars, fluxVars, appVars, infra, legacy, backup, journal, countVars>>

\* Mutant: the index moves past the last Job.
WaitJobPastEnd(p) ==
    /\ at[p] = "waitJob" /\ jobs[DirOf[p]][cursor[p]] = "complete"
    /\ cursor' = [cursor EXCEPT ![p] = @ + 1]
    /\ at' = [at EXCEPT ![p] = IF cursor[p] = NJobs THEN "migrateCheck" ELSE "createJob"]
    /\ UNCHANGED stage
    /\ UNCHANGED <<mem, diskVars, lockVars, fluxVars, appVars, dataVars, countVars>>

WaitJob(p) ==
    /\ at[p] = "waitJob" /\ jobs[DirOf[p]][cursor[p]] = "complete"
    /\ IF cursor[p] = NJobs
       THEN Goto(p, "migrateCheck")
       ELSE /\ at' = [at EXCEPT ![p] = "createJob"]
            /\ cursor' = [cursor EXCEPT ![p] = @ + 1]
            /\ UNCHANGED stage
    /\ UNCHANGED <<mem, diskVars, lockVars, fluxVars, appVars, dataVars, countVars>>

MigrateCheck(p) ==
    /\ at[p] = "migrateCheck" /\ Goto(p, "finish")
    /\ UNCHANGED <<mem, diskVars, lockVars, fluxVars, appVars, dataVars, countVars>>

(***************************************************************************)
(* rollout                                                                  *)
(***************************************************************************)
Install(p) ==
    /\ at[p] = "install" /\ apps' = "running" /\ hpa' = TRUE
    /\ Goto(p, "resumeRelease")
    /\ UNCHANGED <<mem, diskVars, lockVars, fluxVars, dataVars, countVars>>

ResumeRelease(p) ==
    /\ at[p] = "resumeRelease" /\ hr' = FALSE /\ release' = "live"
    /\ Goto(p, "resumeOwners")
    /\ UNCHANGED <<mem, diskVars, lockVars, kust, inflight, outlived, appVars, dataVars, countVars>>

ResumeOwners(p) ==
    /\ at[p] = "resumeOwners"
    /\ kust' = (kust /\ ~mem[p].owners)
    /\ Goto(p, "rolloutStatus")
    /\ UNCHANGED <<mem, diskVars, lockVars, release, hr, inflight, outlived, appVars, dataVars, countVars>>

RolloutStatus(p) ==
    /\ at[p] = "rolloutStatus" /\ apps = "running" /\ Goto(p, "finish")
    /\ UNCHANGED <<mem, diskVars, lockVars, fluxVars, appVars, dataVars, countVars>>

(***************************************************************************)
(* verify                                                                   *)
(***************************************************************************)
Capture(p) ==
    /\ at[p] = "capture" /\ apps = "running" /\ Goto(p, "align")
    /\ UNCHANGED <<mem, diskVars, lockVars, fluxVars, appVars, dataVars, countVars>>

Align(p) ==
    /\ at[p] = "align" /\ Goto(p, "deletePod")
    /\ UNCHANGED <<mem, diskVars, lockVars, fluxVars, appVars, dataVars, countVars>>

DeletePod(p) ==
    /\ at[p] = "deletePod" /\ pod' = NoRun /\ Goto(p, "deleteLock")
    /\ UNCHANGED <<mem, diskVars, lock, fluxVars, appVars, dataVars, countVars>>

DeleteLock(p) ==
    /\ at[p] = "deleteLock" /\ lock' = NoRun /\ Goto(p, "finish")
    /\ UNCHANGED <<mem, diskVars, pod, fluxVars, appVars, dataVars, countVars>>

(***************************************************************************)
(* Leaving: the stage is complete, a check fails, or anything fails.        *)
(***************************************************************************)
\* prepare waits for no reconciliation that was under way when it suspended Flux.
Finish(p) ==
    /\ at[p] = "finish"
    /\ Write(p, [mem[p] EXCEPT !.steps[stage[p]] = "complete"])
    /\ outlived' = (outlived \/ (stage[p] = "prepare" /\ inflight))
    /\ Exit(p) /\ Forget(p)
    /\ UNCHANGED <<lockVars, release, kust, hr, inflight, appVars, dataVars, countVars>>

\* A require() that does not hold, or a wait that can only time out.
Refused(p) ==
    \/ at[p] = "lockcheck" /\ lock # mem[p].id
    \/ at[p] \in {"heldcheck", "backupHeld", "heldAgain"} /\ ~Held
    \/ at[p] = "suspendOwner" /\ Live(p) # (release = "live")
    \/ at[p] = "takeLock" /\ lock # NoRun
    \/ at[p] = "drain" /\ apps = "running"
    \/ at[p] = "script" /\ ~ScriptAdmits(DirOf[p], stage[p])
    \/ at[p] = "script" /\ stage[p] \in LateLogs /\ ~ModulesApplied({"complete"})
    \/ at[p] = "legacyCheck" /\ (legacy \in {"default", "mixed"} \/ ~ConsumersDone(p))
    \/ at[p] = "createJob" /\ jobs[DirOf[p]][cursor[p]] # "absent"
    \/ at[p] = "waitJob" /\ jobs[DirOf[p]][cursor[p]] = "failed"
    \/ at[p] \in {"rolloutStatus", "capture"} /\ apps # "running"

Refuse(p) ==
    /\ Refused(p) /\ Exit(p) /\ Forget(p)
    /\ UNCHANGED <<diskVars, lockVars, fluxVars, appVars, dataVars, countVars>>

\* Mutant: a failing invocation releases the lock on its way out.
AbortUnlocks(p) ==
    /\ at[p] # "idle" /\ aborts < MaxAborts
    /\ aborts' = aborts + 1 /\ lock' = NoRun
    /\ Exit(p) /\ Forget(p)
    /\ UNCHANGED <<disk, torn, pod, fluxVars, appVars, dataVars, begun, runs, spent>>

\* Mutant: a failing invocation takes its "started" marker back.
AbortReverts(p) ==
    /\ at[p] # "idle" /\ aborts < MaxAborts
    /\ aborts' = aborts + 1
    /\ disk' = [disk EXCEPT ![DirOf[p]].steps[stage[p]] = "none"]
    /\ Exit(p) /\ Forget(p)
    /\ UNCHANGED <<torn, lockVars, fluxVars, appVars, dataVars, begun, runs, spent>>

\* A command fails, a wait times out or the process is killed.  Killed inside
\* private_write it leaves a truncated state.json.
Abort(p) ==
    /\ at[p] # "idle" /\ aborts < MaxAborts
    /\ aborts' = aborts + 1
    /\ Exit(p) /\ Forget(p)
    /\ \/ UNCHANGED torn
       \/ at[p] \in CheckpointStep /\ torn' = [torn EXCEPT ![DirOf[p]] = TRUE]
    /\ UNCHANGED <<disk, lockVars, fluxVars, appVars, dataVars, begun, runs, spent>>

(***************************************************************************)
(* The cluster.                                                             *)
(***************************************************************************)
\* The owning Kustomization re-applies the committed, unsuspended HelmRelease.
KustomizationReconciles ==
    /\ HasOwner /\ ~kust /\ release = "live" /\ hr
    /\ hr' = FALSE
    /\ UNCHANGED <<procVars, diskVars, lockVars, release, kust, inflight, outlived, appVars, dataVars, countVars>>

\* Suspending a HelmRelease stops new reconciliations, not the current one.
FluxStarts ==
    /\ FluxBusy /\ release = "live" /\ ~hr /\ ~inflight
    /\ inflight' = TRUE
    /\ UNCHANGED <<procVars, diskVars, lockVars, release, kust, hr, outlived, appVars, dataVars, countVars>>

FluxApplies ==
    /\ inflight /\ inflight' = FALSE
    /\ apps' = "running" /\ hpa' = TRUE
    /\ UNCHANGED <<procVars, diskVars, lockVars, release, kust, hr, outlived, dataVars, countVars>>

PodsTerminate ==
    /\ apps = "draining" /\ apps' = "stopped"
    /\ UNCHANGED <<procVars, diskVars, lockVars, fluxVars, hpa, dataVars, countVars>>

\* A running application changes data that a backup taken earlier lacks.
AppWrites ==
    /\ apps # "stopped"
    /\ \E d \in Dir : backup[d] = "taken"
    /\ backup' = [d \in Dir |-> IF backup[d] = "taken" THEN "stale" ELSE backup[d]]
    /\ UNCHANGED <<procVars, diskVars, lockVars, fluxVars, appVars, infra, legacy, jobs, journal, countVars>>

JobEnds(d, i, result) ==
    /\ jobs[d][i] = "running"
    /\ result = "failed" => aborts < MaxAborts
    /\ aborts' = IF result = "failed" THEN aborts + 1 ELSE aborts
    /\ jobs' = [jobs EXCEPT ![d][i] = result]
    /\ UNCHANGED <<procVars, diskVars, lockVars, fluxVars, appVars, infra, legacy, backup, journal, begun, runs, spent>>

-----------------------------------------------------------------------------
PrepareStep(p) ==
    \/ SuspendOwner(p) \/ SuspendRelease(p) \/ RecordNamespace(p) \/ TakeLock(p)
    \/ DeleteHpa(p) \/ Scale(p) \/ WaitDrained(p) \/ Bootstrap(p)
    \/ RecordJobs(p) \/ HoldInstall(p) \/ CreatePod(p)

ProtectStep(p) ==
    \/ BackupHeld(p) \/ Dump(p) \/ FreezeTables(p) \/ VerifyBackup(p) \/ Unfreeze(p)
    \/ PatchBinary(p) \/ ApplyTargets(p) \/ RunScript(p)

MigrateStep(p) ==
    LegacyCheck(p) \/ HeldAgain(p) \/ CreateJob(p) \/ WaitJob(p) \/ MigrateCheck(p)

ReleaseStep(p) ==
    \/ Install(p) \/ ResumeRelease(p) \/ ResumeOwners(p) \/ RolloutStatus(p)
    \/ Capture(p) \/ Align(p) \/ DeletePod(p) \/ DeleteLock(p)

\* What an invocation does when nothing fails it from outside.
Advance(p) ==
    \/ Preflight(p) \/ CheckLock(p) \/ CheckHeld(p) \/ Begin(p)
    \/ PrepareStep(p) \/ ProtectStep(p) \/ MigrateStep(p) \/ ReleaseStep(p)
    \/ Finish(p)

ClusterStep ==
    \/ KustomizationReconciles \/ FluxStarts \/ FluxApplies \/ PodsTerminate
    \/ AppWrites
    \/ \E d \in Dir, i \in 1..NJobs, r \in {"complete", "failed"} : JobEnds(d, i, r)

Next ==
    \/ \E p \in Proc :
          \/ \E s \in Stages, m \in Modes : Invoke(p, s, m)
          \/ Advance(p) \/ ScriptFails(p) \/ Refuse(p) \/ Abort(p)
    \/ ClusterStep

Spec == Init /\ [][Next]_vars

FairSpec ==
    /\ Spec
    /\ \A p \in Proc :
          /\ WF_vars(Advance(p)) /\ WF_vars(Refuse(p))
          /\ \A s \in Stages : WF_vars(\E m \in Modes : Invoke(p, s, m))
    /\ WF_vars(PodsTerminate)
    /\ \A d \in Dir, i \in 1..NJobs : WF_vars(JobEnds(d, i, "complete"))

(***************************************************************************)
(* Properties.                                                              *)
(***************************************************************************)
TypeOK ==
    /\ at \in [Proc -> Steps] /\ stage \in [Proc -> Stage]
    /\ mem \in [Proc -> RunState] /\ cursor \in [Proc -> 1..NJobs]
    /\ disk \in [Dir -> RunState] /\ torn \in [Dir -> BOOLEAN]
    /\ journal \in [Dir -> Phases]
    /\ lock \in Nat /\ pod \in Nat
    /\ release \in {"absent", "live"}
    /\ kust \in BOOLEAN /\ hr \in BOOLEAN /\ inflight \in BOOLEAN /\ outlived \in BOOLEAN
    /\ apps \in {"running", "draining", "stopped"} /\ hpa \in BOOLEAN
    /\ infra \in {"old", "binary", "new"}
    /\ legacy \in {"none", "default", "mixed", "moved"}
    /\ jobs \in [Dir -> [1..NJobs -> {"absent", "running", "complete", "failed"}]]
    /\ backup \in [Dir -> {"none", "taken", "stale"}]
    /\ begun \in [Dir -> [Stage -> Nat]]
    /\ runs \in Nat /\ spent \in 0..MaxInvocations /\ aborts \in 0..MaxAborts

\* The steps of process p lie between its proof of ownership and its release
\* of the lock.
Acting(p) ==
    /\ at[p] \notin {"idle", "preflight", "lockcheck", "suspendOwner",
                    "suspendRelease", "recordNamespace", "takeLock"}
    /\ stage[p] = "prepare" => at[p] # "begin"
    /\ stage[p] = "verify"  => at[p] # "finish"

\* posthog-upgrade-lock is checked once, when an invocation starts.  Still the
\* run that acts is the run that holds it at every later step, and no two
\* processes ever act at once ("Atomic create is the cross-process lock").
OneRunActs ==
    \A p \in Proc : Acting(p) =>
        /\ lock = mem[p].id
        /\ \A q \in Proc \ {p} : ~Acting(q)

\* A guarded hook Job is created only by a run with a verified backup, on the
\* target infrastructure.  That the backup misses no application write holds on a
\* condition the runner does not see to: no reconciliation under way when prepare
\* suspended Flux has outlived prepare.
BackupCoversMigration ==
    [][\A d \in Dir, i \in 1..NJobs :
          jobs[d][i] = "absent" /\ jobs'[d][i] # "absent" =>
              /\ disk[d].verified /\ infra = "new"
              /\ ~outlived => backup[d] = "taken"]_vars

\* Stateful specs change only by the run that holds the lock and, where they
\* existed before, only once its backup is verified; on the same condition
\* everything they store is in it.
BackupCoversTargets ==
    [][infra' # infra =>
          \E d \in Dir :
              /\ disk[d].id = lock
              /\ \/ disk[d].mode = "fresh"
                 \/ disk[d].verified /\ (~outlived => backup[d] = "taken")]_vars

\* No application pod runs, or could be brought back by Flux or an autoscaler,
\* while a migration Job runs, even when the runner that created it is gone;
\* again unless a reconciliation outlived prepare, which the runner's looks at
\* the replicas before backup and before the Jobs catch only if it came sooner.
WritersHeldDuringJobs ==
    ~outlived /\ (\E d \in Dir, i \in 1..NJobs : jobs[d][i] = "running") =>
        /\ Held /\ ~inflight
        /\ release = "live" => hr /\ (HasOwner => kust)

\* A failed run keeps the lock and the migration pod: from the end of prepare
\* until its verification begins they are the run's own.
FailureKeepsLockAndPod ==
    \A d \in Dir :
        /\ disk[d].steps["prepare"] = "complete"
        /\ disk[d].steps["verify"] = "none"
        => lock = disk[d].id /\ pod = disk[d].id

\* A completed rollout leaves nothing suspended that the run suspended, unless
\* another run has begun to prepare.
RolloutResumesFlux ==
    \A d \in Dir :
        /\ disk[d].steps["rollout"] = "complete"
        /\ \A e \in Dir \ {d} : begun[e]["prepare"] = 0
        => ~hr /\ ~kust

\* A run that began to move the legacy logs rolls out only with the move
\* finalized, and no later invocation reopens it.
RolloutAfterLogsFinalized ==
    \A d \in Dir :
        /\ disk[d].steps["rollout"] = "complete"
        /\ disk[d].steps["logs:reconcile"] # "none"
        => journal[d] = "finalized" /\ legacy = "moved"

\* No stage of a run is begun twice ("Any attempted stage refuses blind replay").
AttemptedOnce == \A d \in Dir, s \in Stage : begun[d][s] <= 1

\* The same of the stages the lock protects, for operators who share a state
\* directory: the lock is compared by run id, which both of them carry.
LockedStageOnce ==
    \A d \in Dir, s \in Stage \ {"prepare"} : begun[d][s] <= 1

\* "It suspends Flux, locks the namespace": from a completed upgrade prepare to
\* the rollout both the HelmRelease and its owner stay suspended.
PrepareSuspendsFlux ==
    \A d \in Dir :
        /\ disk[d].mode = "upgrade" /\ disk[d].steps["prepare"] = "complete"
        /\ disk[d].steps["rollout"] = "none"
        => hr /\ (HasOwner => kust)

\* The recorded steps and the lock of the runs, as the abstract run sees them.
Promise == INSTANCE StagedRun WITH
    Run    <- Dir,
    status <- [d \in Dir |-> disk[d].steps],
    holder <- { d \in Dir : lock # NoRun /\ disk[d].id = lock }

ImplementsStagedRun == Promise!ASpec

\* When no command fails, no reconciliation outlives its suspension and the
\* operators keep invoking the next stage, in the mode that fits what is installed,
\* neither the runner's guards nor a race for the lock wedge every run.
Undisturbed ==
    /\ aborts = 0 /\ ~inflight
    /\ \A p \in Proc : at[p] = "preflight" => (mem[p].mode = "upgrade") = (release = "live")

SomeRunVerified == []Undisturbed => <>(\E d \in Dir : disk[d].steps["verify"] = "complete")
=============================================================================
