---------------------------- MODULE HubHoldProofs ----------------------------
(***************************************************************************)
(* What the runner holds still between a prepared run and its rollout, when *)
(* no second run is begun before the first one is over: the migration Jobs  *)
(* run over a verified backup and on the target infrastructure; and, unless *)
(* a Flux reconciliation outlived prepare, which the runner does not wait   *)
(* for, Flux is suspended, no application pod writes and the backup misses  *)
(* nothing.                                                                 *)
(***************************************************************************)
EXTENDS HubRolloutProofs

\* A run that has begun and is not over.
Open(d) == disk[d].steps["prepare"] # "none" /\ disk[d].steps["verify"] # "complete"

\* Operators begin a run only when the runs before it are verified.
OneAtATime == \A d, e \in Dir : Open(d) /\ Open(e) => d = e

\* Flux can bring nothing back.
FluxHeld ==
    /\ ~inflight
    /\ release = "live" => hr /\ (HasOwner => kust)

AllJobs(d, result) == \A i \in 1..NJobs : jobs[d][i] = result

\* What is recorded of a run, and what it means for the cluster.
RunHeld(d) ==
    LET s == disk[d].steps
    IN /\ s["backup"] # "none" => s["prepare"] = "complete"
       /\ s["infrastructure"] # "none" => disk[d].mode = "fresh" \/ s["backup"] = "complete"
       /\ s["migrate"] # "none" => s["backup"] = "complete" /\ s["infrastructure"] = "complete"
       /\ s["verify"] # "none" => s["rollout"] = "complete"
       /\ s["backup"] = "complete" => disk[d].verified
       /\ ~outlived /\ s["prepare"] = "complete" /\ s["rollout"] = "none" => FluxHeld
       /\ ~outlived /\ s["backup"] = "complete" /\ s["rollout"] = "none" => Held /\ backup[d] = "taken"
       /\ s["infrastructure"] = "complete" /\ lock = disk[d].id => infra = "new"
       /\ s["migrate"] = "none" => AllJobs(d, "absent")
       /\ s["migrate"] = "complete" => AllJobs(d, "complete")

\* A process knows the mode and the backup of its run.
Loaded(p) ==
    at[p] # "idle" /\ (stage[p] # "prepare" \/ at[p] \notin BeforeBegin) =>
        /\ mem[p].mode = disk[DirOf[p]].mode
        /\ mem[p].verified = disk[DirOf[p]].verified

\* What prepare has suspended so far; a fresh target has no release to suspend.
Suspending(p) ==
    LET past == at[p] \in (PrepareOnly \ {"suspendOwner"}) \cup {"holdInstall", "finish"}
    IN past /\ stage[p] = "prepare" =>
          /\ mem[p].mode = "fresh" => release = "absent"
          /\ mem[p].mode = "upgrade" /\ HasOwner => kust
          /\ mem[p].mode = "upgrade" /\ at[p] # "suspendRelease" => hr

\* The backup is taken of a cluster that is held.
Saving(p) ==
    at[p] \in {"dump", "freeze", "verifyBackup", "unfreeze"} \/ (at[p] = "finish" /\ stage[p] = "backup") =>
        /\ ~outlived => Held
        /\ ~outlived /\ at[p] # "dump" => backup[DirOf[p]] = "taken"
        /\ at[p] \in {"unfreeze", "finish"} => disk[DirOf[p]].verified

\* The targets are new once they are on record or about to be.
Building(p) ==
    /\ at[p] = "recordJobs" /\ mem[p].steps # disk[DirOf[p]].steps => infra = "new" /\ mem[p].mode = "fresh"
    /\ at[p] = "finish" /\ stage[p] = "infrastructure" => infra = "new"

\* The Jobs are created one after the other, each when those before it are complete.
Migrating(p) ==
    LET job == jobs[DirOf[p]]
    IN /\ at[p] \notin {"createJob", "waitJob", "migrateCheck", "finish"} => cursor[p] = 1
       /\ at[p] \in {"legacyCheck", "heldAgain"} \/ (at[p] = "holdInstall" /\ stage[p] = "migrate")
             => AllJobs(DirOf[p], "absent")
       /\ at[p] = "createJob" =>
             \A i \in 1..NJobs : job[i] = IF i < cursor[p] THEN "complete" ELSE "absent"
       /\ at[p] = "waitJob" =>
             \A i \in 1..NJobs \ {cursor[p]} : job[i] = IF i < cursor[p] THEN "complete" ELSE "absent"
       /\ at[p] = "migrateCheck" \/ (at[p] = "finish" /\ stage[p] = "migrate")
             => AllJobs(DirOf[p], "complete")

ProcHeld(p) == Loaded(p) /\ Suspending(p) /\ Saving(p) /\ Building(p) /\ Migrating(p)

HoldInv ==
    /\ RolloutInv
    /\ \A d \in Dir : RunHeld(d)
    /\ \A p \in Proc : ProcHeld(p)

-----------------------------------------------------------------------------
\* What holds of process p.
LEMMA HeldHere ==
    ASSUME HoldInv, NEW p \in Proc
    PROVE  /\ DirOf[p] \in Dir /\ StageOfStep(p) /\ MemoryOf(p) /\ StepOf(p)
           /\ RunOK(DirOf[p]) /\ RunHeld(DirOf[p]) /\ ProcHeld(p)
           /\ stage[p] \in Stage /\ mem[p] \in RunState /\ disk[DirOf[p]] \in RunState
           /\ at \in [Proc -> Steps] /\ mem \in [Proc -> RunState] /\ disk \in [Dir -> RunState]
           /\ stage \in [Proc -> Stage] /\ cursor \in [Proc -> 1..NJobs]
           /\ jobs \in [Dir -> [1..NJobs -> {"absent", "running", "complete", "failed"}]]
           /\ backup \in [Dir -> {"none", "taken", "stale"}]
           /\ (at[p] = "script" => stage[p] \in LogStage)
           /\ Inv /\ RolloutInv
<1>1. RolloutInv /\ Inv /\ TypeOK
  BY DEF HoldInv, RolloutInv, Inv, Typed
<1>2. DirOf[p] \in Dir
  BY DirTyped
<1>3. /\ stage[p] \in Stage /\ mem[p] \in RunState /\ disk[DirOf[p]] \in RunState
      /\ at \in [Proc -> Steps] /\ mem \in [Proc -> RunState] /\ disk \in [Dir -> RunState]
      /\ stage \in [Proc -> Stage] /\ cursor \in [Proc -> 1..NJobs]
      /\ jobs \in [Dir -> [1..NJobs -> {"absent", "running", "complete", "failed"}]]
      /\ backup \in [Dir -> {"none", "taken", "stale"}]
  BY <1>1, <1>2 DEF TypeOK
<1>4. /\ StageOfStep(p) /\ MemoryOf(p) /\ StepOf(p) /\ RunOK(DirOf[p])
      /\ (at[p] = "script" => stage[p] \in LogStage)
  BY <1>1, Here DEF StageOK
<1>5. RunHeld(DirOf[p]) /\ ProcHeld(p)
  BY <1>2 DEF HoldInv
<1>6. QED
  BY <1>1, <1>2, <1>3, <1>4, <1>5

\* Between its prepare and its rollout, and during both, the run of a process is
\* open.
LEMMA StartedIsOpen ==
    ASSUME HoldInv, NEW p \in Proc, at[p] # "idle", at[p] \notin BeforeBegin,
           stage[p] \in {"prepare", "backup", "rollout"}
    PROVE  Open(DirOf[p])
<1> DEFINE s == disk[DirOf[p]].steps
<1>1. s[stage[p]] = "started" /\ stage[p] \in Stage /\ DirOf[p] \in Dir
  BY HeldHere DEF MemoryOf
<1>2. s["prepare"] # "none"
  BY <1>1, HeldHere DEF Inv, FileOK
<1>3. s["verify"] # "none" =>
         s["rollout"] = "complete" /\ s["migrate"] = "complete" /\ s["prepare"] = "complete"
         /\ s["backup"] = "complete"
  BY HeldHere DEF RunHeld, RunOK
<1>4. s["verify"] = "none"
  BY <1>1, <1>3
<1>5. QED
  BY <1>2, <1>4 DEF Open

\* A step that brings nothing back.
Gentle ==
    /\ hr => hr'
    /\ kust => kust'
    /\ release' = release
    /\ Held => Held'

\* Of what the runner changes in the cluster, another run notices nothing: one
\* that relies on it is open, and one that resumes Flux or installs is too.
LEMMA HeldFrame ==
    ASSUME OwnDirs, HoldInv, OneAtATime, RolloutInv', NEW p \in Proc, Local(p),
           \A q \in Proc \ {p} : cursor'[q] = cursor[q],
           \A d \in Dir \ {DirOf[p]} :
               disk'[d] = disk[d] /\ jobs'[d] = jobs[d] /\ backup'[d] = backup[d],
           inflight' = inflight, outlived => outlived',
           at[p] \in RolloutOnly \/ Gentle,
           infra' = infra \/ Acting(p),
           lock' = lock \/ lock' = NoRun \/ lock' = disk'[DirOf[p]].id,
           RunHeld(DirOf[p])', ProcHeld(p)'
    PROVE  HoldInv'
<1> DEFINE dp == DirOf[p]
<1>1. dp \in Dir /\ UniqueIds /\ UniqueIds' /\ \A d \in Dir : FileOK(d)
  BY HeldHere DEF Inv, RolloutInv
<1>2. ASSUME NEW d \in Dir, d # dp, Open(d) PROVE Gentle
  <2>1. CASE at[p] \in RolloutOnly
    <3>1. stage[p] = "rollout" /\ at[p] # "idle" /\ at[p] \notin BeforeBegin
      BY <2>1, HeldHere DEF StepOf, RolloutOnly, BeforeBegin
    <3>2. Open(dp)
      BY <3>1, StartedIsOpen
    <3>3. QED
      BY <1>1, <1>2, <3>2 DEF OneAtATime
  <2>2. QED
    BY <2>1
<1>3. ASSUME NEW d \in Dir, d # dp PROVE RunHeld(d)'
  <2> DEFINE s == disk[d].steps
  <2>1. /\ disk'[d] = disk[d] /\ jobs'[d] = jobs[d] /\ backup'[d] = backup[d]
        /\ RunHeld(d) /\ RunOK(d) /\ FileOK(d)
    BY <1>1, <1>3 DEF HoldInv, RolloutInv
  <2>2. s["prepare"] = "complete" /\ s["rollout"] = "none" => Gentle
    <3>1. s["prepare"] = "complete" /\ s["rollout"] = "none" => Open(d)
      BY <2>1 DEF RunHeld, Open
    <3>2. QED
      BY <1>2, <1>3, <3>1
  <2>3. ~outlived' /\ s["prepare"] = "complete" /\ s["rollout"] = "none" => FluxHeld'
    BY <2>1, <2>2 DEF RunHeld, Gentle, FluxHeld
  <2>4. s["backup"] = "complete" => s["prepare"] = "complete"
    BY <2>1 DEF RunHeld
  <2>5. ~outlived' /\ s["backup"] = "complete" /\ s["rollout"] = "none" => Held' /\ backup'[d] = "taken"
    BY <2>1, <2>2, <2>4 DEF RunHeld, Gentle
  <2>6. ASSUME s["infrastructure"] = "complete", lock' = disk[d].id PROVE infra' = "new"
    <3>1. disk[d].id # NoRun
      <4>1. "infrastructure" \in Stage
        BY DEF Stage
      <4>2. QED
        BY <2>1, <2>6, <4>1 DEF FileOK
    <3>2. lock' = lock
      BY <1>1, <1>3, <2>1, <2>6, <3>1 DEF UniqueIds
    <3>3. ~Acting(p)
      <4> SUFFICES ASSUME Acting(p) PROVE FALSE
        OBVIOUS
      <4>1. lock = disk[dp].id
        BY ActingHolds DEF HoldInv, RolloutInv
      <4>2. disk[d].id = disk[dp].id
        BY <2>6, <3>2, <4>1
      <4>3. QED
        BY <1>1, <1>3, <3>1, <4>2 DEF UniqueIds
    <3>4. QED
      BY <2>1, <2>6, <3>2, <3>3 DEF RunHeld
  <2>7. QED
    BY <2>1, <2>3, <2>5, <2>6 DEF RunHeld, AllJobs
<1>4. ASSUME NEW q \in Proc, q # p PROVE ProcHeld(q)'
  <2> DEFINE dq == DirOf[q]
  <2>1. dq \in Dir /\ dq # dp
    BY <1>4, DirTyped DEF OwnDirs
  <2>2. /\ at'[q] = at[q] /\ stage'[q] = stage[q] /\ mem'[q] = mem[q] /\ cursor'[q] = cursor[q]
        /\ disk'[dq] = disk[dq] /\ jobs'[dq] = jobs[dq] /\ backup'[dq] = backup[dq]
        /\ ProcHeld(q)
    BY <1>4, <2>1 DEF Local, HoldInv
  <2>3. ASSUME stage[q] \in {"prepare", "backup"}, at[q] # "idle", at[q] \notin BeforeBegin
        PROVE  Gentle
    BY <1>2, <2>1, <2>3, StartedIsOpen
  <2>4. Suspending(q)'
    BY <2>2, <2>3 DEF ProcHeld, Suspending, Gentle, PrepareOnly, BeforeBegin
  <2>5. Saving(q)'
    <3>1. at[q] \in BackupOnly => stage[q] = "backup"
      BY HeldHere DEF StepOf
    <3>2. QED
      BY <2>2, <2>3, <3>1 DEF ProcHeld, Saving, Gentle, BackupOnly, BeforeBegin
  <2>6. Building(q)'
    <3>1. ASSUME at[q] = "recordJobs" \/ (at[q] = "finish" /\ stage[q] = "infrastructure")
          PROVE  infra' = infra
      <4>1. Acting(q)
        BY <3>1 DEF Acting
      <4>2. ~Acting(p)
        BY <1>4, <4>1, OneActor, HeldHere
      <4>3. QED
        BY <4>2
    <3>2. QED
      BY <2>2, <3>1 DEF ProcHeld, Building
  <2>7. Loaded(q)' /\ Migrating(q)'
    BY <2>2 DEF ProcHeld, Loaded, Migrating, AllJobs
  <2>8. QED
    BY <2>4, <2>5, <2>6, <2>7 DEF ProcHeld
<1>5. QED
  BY <1>3, <1>4 DEF HoldInv

\* When only p moves on, the runs are as they were.
HeldStill ==
    UNCHANGED <<disk, jobs, backup, infra, lock, release, kust, hr, inflight, outlived, apps, hpa>>

LEMMA HeldQuiet ==
    ASSUME OwnDirs, HoldInv, OneAtATime, RolloutInv', NEW p \in Proc, Local(p),
           \A q \in Proc \ {p} : cursor'[q] = cursor[q], HeldStill, ProcHeld(p)'
    PROVE  HoldInv'
<1>1. RunHeld(DirOf[p])'
  BY HeldHere DEF HeldStill, RunHeld, FluxHeld, Held, AllJobs
<1>2. Gentle
  BY DEF HeldStill, Gentle, Held
<1>3. QED
  BY <1>1, <1>2, HeldFrame DEF HeldStill

-----------------------------------------------------------------------------
\* Process p goes to l and nothing else that matters here changes.
HeldGoto(p, l) ==
    /\ at'[p] = l /\ stage'[p] = stage[p] /\ mem'[p] = mem[p] /\ cursor' = cursor
    /\ Local(p) /\ HeldStill

\* Steps that only check, wait or touch what the runs do not rely on here.
HeldQuietStep(p) ==
    \/ Preflight(p) \/ CheckLock(p) \/ CheckHeld(p) \/ WaitDrained(p) \/ CreatePod(p)
    \/ BackupHeld(p) \/ Unfreeze(p) \/ RunScript(p) \/ LegacyCheck(p) \/ HeldAgain(p)
    \/ MigrateCheck(p) \/ RolloutStatus(p) \/ Capture(p) \/ Align(p) \/ DeletePod(p)

LEMMA QuietHeld ==
    ASSUME OwnDirs, HoldInv, OneAtATime, RolloutInv', NEW p \in Proc, HeldQuietStep(p)
    PROVE  HoldInv'
<1> USE DEF procVars, diskVars, lockVars, fluxVars, appVars, dataVars, countVars
<1>1. ASSUME NEW l, HeldGoto(p, l), ProcHeld(p)' PROVE HoldInv'
  BY <1>1, HeldQuiet DEF HeldGoto
<1>2. CASE Preflight(p)
  <2>1. at[p] = "preflight" /\ HeldGoto(p, "begin")
    BY <1>2, HeldHere DEF Preflight, Goto, HeldGoto, Local, HeldStill
  <2>2. stage[p] = "prepare"
    BY <2>1, HeldHere DEF StageOfStep, StepOf, PrepareOnly, BackupOnly, MigrateOnly, RolloutOnly
  <2>3. ProcHeld(p)'
    <3>1. Loaded(p) /\ Suspending(p) /\ Saving(p) /\ Building(p) /\ Migrating(p)
      BY HeldHere DEF ProcHeld
    <3>2. Loaded(p)'
      BY <2>1, <2>2, <3>1 DEF Loaded, BeforeBegin, HeldGoto, HeldStill
    <3>3. Suspending(p)'
      BY <2>1, <2>2, <3>1 DEF Suspending, PrepareOnly, HeldGoto, HeldStill
    <3>4. Saving(p)' /\ Building(p)'
      BY <2>1, <2>2, <3>1 DEF Saving, Building, Held, HeldGoto, HeldStill
    <3>5. Migrating(p)'
      BY <2>1, <2>2, <3>1 DEF Migrating, AllJobs, HeldGoto, HeldStill
    <3>6. QED
      BY <3>2, <3>3, <3>4, <3>5 DEF ProcHeld
  <2>4. QED
    BY <1>1, <2>1, <2>3
<1>3. CASE CheckLock(p)
  <2>1. at[p] = "lockcheck" /\ HeldGoto(p, IF stage[p] \in HeldStage THEN "heldcheck" ELSE "begin")
    BY <1>3, HeldHere DEF CheckLock, Goto, HeldGoto, Local, HeldStill
  <2>2. ProcHeld(p)'
    <3>1. Loaded(p) /\ Suspending(p) /\ Saving(p) /\ Building(p) /\ Migrating(p)
      BY HeldHere DEF ProcHeld
    <3>2. Loaded(p)'
      BY <2>1, <3>1 DEF Loaded, BeforeBegin, HeldGoto, HeldStill
    <3>3. Suspending(p)'
      BY <2>1, <3>1 DEF Suspending, PrepareOnly, HeldGoto, HeldStill
    <3>4. Saving(p)' /\ Building(p)'
      BY <2>1, <3>1 DEF Saving, Building, Held, HeldGoto, HeldStill
    <3>5. Migrating(p)'
      BY <2>1, <3>1 DEF Migrating, AllJobs, HeldGoto, HeldStill
    <3>6. QED
      BY <3>2, <3>3, <3>4, <3>5 DEF ProcHeld
  <2>3. QED
    BY <1>1, <2>1, <2>2
<1>4. CASE CheckHeld(p)
  <2>1. at[p] = "heldcheck" /\ HeldGoto(p, "begin")
    BY <1>4, HeldHere DEF CheckHeld, Goto, HeldGoto, Local, HeldStill
  <2>2. ProcHeld(p)'
    <3>1. Loaded(p) /\ Suspending(p) /\ Saving(p) /\ Building(p) /\ Migrating(p)
      BY HeldHere DEF ProcHeld
    <3>2. Loaded(p)'
      BY <2>1, <3>1 DEF Loaded, BeforeBegin, HeldGoto, HeldStill
    <3>3. Suspending(p)'
      BY <2>1, <3>1 DEF Suspending, PrepareOnly, HeldGoto, HeldStill
    <3>4. Saving(p)' /\ Building(p)'
      BY <2>1, <3>1 DEF Saving, Building, Held, HeldGoto, HeldStill
    <3>5. Migrating(p)'
      BY <2>1, <3>1 DEF Migrating, AllJobs, HeldGoto, HeldStill
    <3>6. QED
      BY <3>2, <3>3, <3>4, <3>5 DEF ProcHeld
  <2>3. QED
    BY <1>1, <2>1, <2>2
<1>5. CASE WaitDrained(p)
  <2>1. at[p] = "drain" /\ HeldGoto(p, "bootstrap")
    BY <1>5, HeldHere DEF WaitDrained, Goto, HeldGoto, Local, HeldStill
  <2>2. stage[p] = "prepare"
    BY <2>1, HeldHere DEF StageOfStep, StepOf, PrepareOnly, BackupOnly, MigrateOnly, RolloutOnly
  <2>3. ProcHeld(p)'
    <3>1. Loaded(p) /\ Suspending(p) /\ Saving(p) /\ Building(p) /\ Migrating(p)
      BY HeldHere DEF ProcHeld
    <3>2. Loaded(p)'
      BY <2>1, <2>2, <3>1 DEF Loaded, BeforeBegin, HeldGoto, HeldStill
    <3>3. Suspending(p)'
      BY <2>1, <2>2, <3>1 DEF Suspending, PrepareOnly, HeldGoto, HeldStill
    <3>4. Saving(p)' /\ Building(p)'
      BY <2>1, <2>2, <3>1 DEF Saving, Building, Held, HeldGoto, HeldStill
    <3>5. Migrating(p)'
      BY <2>1, <2>2, <3>1 DEF Migrating, AllJobs, HeldGoto, HeldStill
    <3>6. QED
      BY <3>2, <3>3, <3>4, <3>5 DEF ProcHeld
  <2>4. QED
    BY <1>1, <2>1, <2>3
<1>6. CASE CreatePod(p)
  <2>1. at[p] = "createPod" /\ HeldGoto(p, "finish")
    BY <1>6, HeldHere DEF CreatePod, Goto, HeldGoto, Local, HeldStill
  <2>2. stage[p] = "prepare"
    BY <2>1, HeldHere DEF StageOfStep, StepOf, PrepareOnly, BackupOnly, MigrateOnly, RolloutOnly
  <2>3. ProcHeld(p)'
    <3>1. Loaded(p) /\ Suspending(p) /\ Saving(p) /\ Building(p) /\ Migrating(p)
      BY HeldHere DEF ProcHeld
    <3>2. Loaded(p)'
      BY <2>1, <2>2, <3>1 DEF Loaded, BeforeBegin, HeldGoto, HeldStill
    <3>3. Suspending(p)'
      BY <2>1, <2>2, <3>1 DEF Suspending, PrepareOnly, HeldGoto, HeldStill
    <3>4. Saving(p)' /\ Building(p)'
      BY <2>1, <2>2, <3>1 DEF Saving, Building, Held, HeldGoto, HeldStill
    <3>5. Migrating(p)'
      BY <2>1, <2>2, <3>1 DEF Migrating, AllJobs, HeldGoto, HeldStill
    <3>6. QED
      BY <3>2, <3>3, <3>4, <3>5 DEF ProcHeld
  <2>4. QED
    BY <1>1, <2>1, <2>3
<1>7. CASE BackupHeld(p)
  <2>1. at[p] = "backupHeld" /\ HeldGoto(p, "dump") /\ Held
    BY <1>7, HeldHere DEF BackupHeld, Goto, HeldGoto, Local, HeldStill
  <2>2. ProcHeld(p)'
    <3>1. Loaded(p) /\ Suspending(p) /\ Saving(p) /\ Building(p) /\ Migrating(p)
      BY HeldHere DEF ProcHeld
    <3>2. Loaded(p)'
      BY <2>1, <3>1 DEF Loaded, BeforeBegin, HeldGoto, HeldStill
    <3>3. Suspending(p)'
      BY <2>1, <3>1 DEF Suspending, PrepareOnly, HeldGoto, HeldStill
    <3>4. Saving(p)' /\ Building(p)'
      BY <2>1, <3>1 DEF Saving, Building, Held, HeldGoto, HeldStill
    <3>5. Migrating(p)'
      BY <2>1, <3>1 DEF Migrating, AllJobs, HeldGoto, HeldStill
    <3>6. QED
      BY <3>2, <3>3, <3>4, <3>5 DEF ProcHeld
  <2>3. QED
    BY <1>1, <2>1, <2>2
<1>8. CASE Unfreeze(p)
  <2>1. at[p] = "unfreeze" /\ HeldGoto(p, "finish")
    BY <1>8, HeldHere DEF Unfreeze, Goto, HeldGoto, Local, HeldStill
  <2>2. stage[p] = "backup"
    BY <2>1, HeldHere DEF StageOfStep, StepOf, PrepareOnly, BackupOnly, MigrateOnly, RolloutOnly
  <2>3. ProcHeld(p)'
    <3>1. Loaded(p) /\ Suspending(p) /\ Saving(p) /\ Building(p) /\ Migrating(p)
      BY HeldHere DEF ProcHeld
    <3>2. Loaded(p)'
      BY <2>1, <2>2, <3>1 DEF Loaded, BeforeBegin, HeldGoto, HeldStill
    <3>3. Suspending(p)'
      BY <2>1, <2>2, <3>1 DEF Suspending, PrepareOnly, HeldGoto, HeldStill
    <3>4. Saving(p)' /\ Building(p)'
      BY <2>1, <2>2, <3>1 DEF Saving, Building, Held, HeldGoto, HeldStill
    <3>5. Migrating(p)'
      BY <2>1, <2>2, <3>1 DEF Migrating, AllJobs, HeldGoto, HeldStill
    <3>6. QED
      BY <3>2, <3>3, <3>4, <3>5 DEF ProcHeld
  <2>4. QED
    BY <1>1, <2>1, <2>3
<1>9. CASE RunScript(p)
  <2>1. at[p] = "script" /\ HeldGoto(p, "finish")
    BY <1>9, HeldHere DEF RunScript, Goto, HeldGoto, Local, HeldStill
  <2>2. stage[p] \notin {"prepare", "backup", "infrastructure", "migrate"}
    <3>1. stage[p] \in LogStage
      BY <2>1, HeldHere
    <3>2. QED
      BY <3>1 DEF LogStage
  <2>3. ProcHeld(p)'
    <3>1. Loaded(p) /\ Suspending(p) /\ Saving(p) /\ Building(p) /\ Migrating(p)
      BY HeldHere DEF ProcHeld
    <3>2. Loaded(p)'
      BY <2>1, <2>2, <3>1 DEF Loaded, BeforeBegin, HeldGoto, HeldStill
    <3>3. Suspending(p)'
      BY <2>1, <2>2, <3>1 DEF Suspending, PrepareOnly, HeldGoto, HeldStill
    <3>4. Saving(p)' /\ Building(p)'
      BY <2>1, <2>2, <3>1 DEF Saving, Building, Held, HeldGoto, HeldStill
    <3>5. Migrating(p)'
      BY <2>1, <2>2, <3>1 DEF Migrating, AllJobs, HeldGoto, HeldStill
    <3>6. QED
      BY <3>2, <3>3, <3>4, <3>5 DEF ProcHeld
  <2>4. QED
    BY <1>1, <2>1, <2>3
<1>10. CASE LegacyCheck(p)
  <2>1. at[p] = "legacyCheck" /\ HeldGoto(p, "holdInstall")
    BY <1>10, HeldHere DEF LegacyCheck, Goto, HeldGoto, Local, HeldStill
  <2>2. stage[p] = "migrate"
    BY <2>1, HeldHere DEF StageOfStep, StepOf, PrepareOnly, BackupOnly, MigrateOnly, RolloutOnly
  <2>3. ProcHeld(p)'
    <3>1. Loaded(p) /\ Suspending(p) /\ Saving(p) /\ Building(p) /\ Migrating(p)
      BY HeldHere DEF ProcHeld
    <3>2. Loaded(p)'
      BY <2>1, <2>2, <3>1 DEF Loaded, BeforeBegin, HeldGoto, HeldStill
    <3>3. Suspending(p)'
      BY <2>1, <2>2, <3>1 DEF Suspending, PrepareOnly, HeldGoto, HeldStill
    <3>4. Saving(p)' /\ Building(p)'
      BY <2>1, <2>2, <3>1 DEF Saving, Building, Held, HeldGoto, HeldStill
    <3>5. Migrating(p)'
      BY <2>1, <2>2, <3>1 DEF Migrating, AllJobs, HeldGoto, HeldStill
    <3>6. QED
      BY <3>2, <3>3, <3>4, <3>5 DEF ProcHeld
  <2>4. QED
    BY <1>1, <2>1, <2>3
<1>11. CASE HeldAgain(p)
  <2>1. at[p] = "heldAgain" /\ HeldGoto(p, "createJob")
    BY <1>11, HeldHere DEF HeldAgain, Goto, HeldGoto, Local, HeldStill
  <2>2. stage[p] = "migrate"
    BY <2>1, HeldHere DEF StageOfStep, StepOf, PrepareOnly, BackupOnly, MigrateOnly, RolloutOnly
  <2>3. ProcHeld(p)'
    <3>1. Loaded(p) /\ Suspending(p) /\ Saving(p) /\ Building(p) /\ Migrating(p)
      BY HeldHere DEF ProcHeld
    <3>2. Loaded(p)'
      BY <2>1, <2>2, <3>1 DEF Loaded, BeforeBegin, HeldGoto, HeldStill
    <3>3. Suspending(p)'
      BY <2>1, <2>2, <3>1 DEF Suspending, PrepareOnly, HeldGoto, HeldStill
    <3>4. Saving(p)' /\ Building(p)'
      BY <2>1, <2>2, <3>1 DEF Saving, Building, Held, HeldGoto, HeldStill
    <3>5. Migrating(p)'
      BY <2>1, <2>2, <3>1 DEF Migrating, AllJobs, HeldGoto, HeldStill
    <3>6. QED
      BY <3>2, <3>3, <3>4, <3>5 DEF ProcHeld
  <2>4. QED
    BY <1>1, <2>1, <2>3
<1>12. CASE MigrateCheck(p)
  <2>1. at[p] = "migrateCheck" /\ HeldGoto(p, "finish")
    BY <1>12, HeldHere DEF MigrateCheck, Goto, HeldGoto, Local, HeldStill
  <2>2. stage[p] = "migrate"
    BY <2>1, HeldHere DEF StageOfStep, StepOf, PrepareOnly, BackupOnly, MigrateOnly, RolloutOnly
  <2>3. ProcHeld(p)'
    <3>1. Loaded(p) /\ Suspending(p) /\ Saving(p) /\ Building(p) /\ Migrating(p)
      BY HeldHere DEF ProcHeld
    <3>2. Loaded(p)'
      BY <2>1, <2>2, <3>1 DEF Loaded, BeforeBegin, HeldGoto, HeldStill
    <3>3. Suspending(p)'
      BY <2>1, <2>2, <3>1 DEF Suspending, PrepareOnly, HeldGoto, HeldStill
    <3>4. Saving(p)' /\ Building(p)'
      BY <2>1, <2>2, <3>1 DEF Saving, Building, Held, HeldGoto, HeldStill
    <3>5. Migrating(p)'
      BY <2>1, <2>2, <3>1 DEF Migrating, AllJobs, HeldGoto, HeldStill
    <3>6. QED
      BY <3>2, <3>3, <3>4, <3>5 DEF ProcHeld
  <2>4. QED
    BY <1>1, <2>1, <2>3
<1>13. CASE RolloutStatus(p)
  <2>1. at[p] = "rolloutStatus" /\ HeldGoto(p, "finish")
    BY <1>13, HeldHere DEF RolloutStatus, Goto, HeldGoto, Local, HeldStill
  <2>2. stage[p] = "rollout"
    BY <2>1, HeldHere DEF StageOfStep, StepOf, PrepareOnly, BackupOnly, MigrateOnly, RolloutOnly
  <2>3. ProcHeld(p)'
    <3>1. Loaded(p) /\ Suspending(p) /\ Saving(p) /\ Building(p) /\ Migrating(p)
      BY HeldHere DEF ProcHeld
    <3>2. Loaded(p)'
      BY <2>1, <2>2, <3>1 DEF Loaded, BeforeBegin, HeldGoto, HeldStill
    <3>3. Suspending(p)'
      BY <2>1, <2>2, <3>1 DEF Suspending, PrepareOnly, HeldGoto, HeldStill
    <3>4. Saving(p)' /\ Building(p)'
      BY <2>1, <2>2, <3>1 DEF Saving, Building, Held, HeldGoto, HeldStill
    <3>5. Migrating(p)'
      BY <2>1, <2>2, <3>1 DEF Migrating, AllJobs, HeldGoto, HeldStill
    <3>6. QED
      BY <3>2, <3>3, <3>4, <3>5 DEF ProcHeld
  <2>4. QED
    BY <1>1, <2>1, <2>3
<1>14. CASE Capture(p)
  <2>1. at[p] = "capture" /\ HeldGoto(p, "align")
    BY <1>14, HeldHere DEF Capture, Goto, HeldGoto, Local, HeldStill
  <2>2. ProcHeld(p)'
    <3>1. Loaded(p) /\ Suspending(p) /\ Saving(p) /\ Building(p) /\ Migrating(p)
      BY HeldHere DEF ProcHeld
    <3>2. Loaded(p)'
      BY <2>1, <3>1 DEF Loaded, BeforeBegin, HeldGoto, HeldStill
    <3>3. Suspending(p)'
      BY <2>1, <3>1 DEF Suspending, PrepareOnly, HeldGoto, HeldStill
    <3>4. Saving(p)' /\ Building(p)'
      BY <2>1, <3>1 DEF Saving, Building, Held, HeldGoto, HeldStill
    <3>5. Migrating(p)'
      BY <2>1, <3>1 DEF Migrating, AllJobs, HeldGoto, HeldStill
    <3>6. QED
      BY <3>2, <3>3, <3>4, <3>5 DEF ProcHeld
  <2>3. QED
    BY <1>1, <2>1, <2>2
<1>15. CASE Align(p)
  <2>1. at[p] = "align" /\ HeldGoto(p, "deletePod")
    BY <1>15, HeldHere DEF Align, Goto, HeldGoto, Local, HeldStill
  <2>2. ProcHeld(p)'
    <3>1. Loaded(p) /\ Suspending(p) /\ Saving(p) /\ Building(p) /\ Migrating(p)
      BY HeldHere DEF ProcHeld
    <3>2. Loaded(p)'
      BY <2>1, <3>1 DEF Loaded, BeforeBegin, HeldGoto, HeldStill
    <3>3. Suspending(p)'
      BY <2>1, <3>1 DEF Suspending, PrepareOnly, HeldGoto, HeldStill
    <3>4. Saving(p)' /\ Building(p)'
      BY <2>1, <3>1 DEF Saving, Building, Held, HeldGoto, HeldStill
    <3>5. Migrating(p)'
      BY <2>1, <3>1 DEF Migrating, AllJobs, HeldGoto, HeldStill
    <3>6. QED
      BY <3>2, <3>3, <3>4, <3>5 DEF ProcHeld
  <2>3. QED
    BY <1>1, <2>1, <2>2
<1>16. CASE DeletePod(p)
  <2>1. at[p] = "deletePod" /\ HeldGoto(p, "deleteLock")
    BY <1>16, HeldHere DEF DeletePod, Goto, HeldGoto, Local, HeldStill
  <2>2. ProcHeld(p)'
    <3>1. Loaded(p) /\ Suspending(p) /\ Saving(p) /\ Building(p) /\ Migrating(p)
      BY HeldHere DEF ProcHeld
    <3>2. Loaded(p)'
      BY <2>1, <3>1 DEF Loaded, BeforeBegin, HeldGoto, HeldStill
    <3>3. Suspending(p)'
      BY <2>1, <3>1 DEF Suspending, PrepareOnly, HeldGoto, HeldStill
    <3>4. Saving(p)' /\ Building(p)'
      BY <2>1, <3>1 DEF Saving, Building, Held, HeldGoto, HeldStill
    <3>5. Migrating(p)'
      BY <2>1, <3>1 DEF Migrating, AllJobs, HeldGoto, HeldStill
    <3>6. QED
      BY <3>2, <3>3, <3>4, <3>5 DEF ProcHeld
  <2>3. QED
    BY <1>1, <2>1, <2>2
<1>17. QED
  BY <1>2, <1>3, <1>4, <1>5, <1>6, <1>7, <1>8, <1>9, <1>10, <1>11, <1>12, <1>13, <1>14, <1>15, <1>16 DEF HeldQuietStep

\* While a run prepares, nothing after prepare is on record of it, except that a
\* fresh target's dependencies are.
LEMMA PreparingHeld ==
    ASSUME HoldInv, NEW p \in Proc, at[p] \in PrepareOnly
    PROVE  /\ stage[p] = "prepare" /\ disk[DirOf[p]].steps["prepare"] = "started"
           /\ \A s \in {"backup", "migrate", "rollout", "verify"} : disk[DirOf[p]].steps[s] = "none"
           /\ at[p] # "createPod" => disk[DirOf[p]].steps["infrastructure"] = "none"
           /\ mem[p].mode = disk[DirOf[p]].mode /\ mem[p].verified = disk[DirOf[p]].verified
           /\ mem[p].id = disk[DirOf[p]].id
           /\ at[p] # "recordJobs" => mem[p].steps = disk[DirOf[p]].steps
<1>1. /\ stage[p] = "prepare" /\ disk[DirOf[p]].steps["prepare"] = "started"
      /\ disk[DirOf[p]].steps["rollout"] = "none"
  BY Preparing DEF HoldInv
<1>2. /\ at[p] # "createPod" => disk[DirOf[p]].steps["infrastructure"] = "none"
      /\ mem[p].id = disk[DirOf[p]].id
      /\ at[p] # "recordJobs" => mem[p].steps = disk[DirOf[p]].steps
  BY HeldHere DEF MemoryOf, PrepareOnly
<1>3. mem[p].mode = disk[DirOf[p]].mode /\ mem[p].verified = disk[DirOf[p]].verified
  BY HeldHere DEF ProcHeld, Loaded, PrepareOnly, BeforeBegin
<1>4. \A s \in {"backup", "migrate", "verify"} : disk[DirOf[p]].steps[s] = "none"
  BY <1>1, HeldHere DEF RunHeld
<1>5. QED
  BY <1>1, <1>2, <1>3, <1>4

PrepareHolds(p) ==
    \/ SuspendOwner(p) \/ SuspendRelease(p) \/ RecordNamespace(p) \/ TakeLock(p)
    \/ DeleteHpa(p) \/ Scale(p) \/ Bootstrap(p) \/ RecordJobs(p)

LEMMA PrepareHeld ==
    ASSUME OwnDirs, HoldInv, OneAtATime, RolloutInv', NEW p \in Proc, PrepareHolds(p)
    PROVE  HoldInv'
<1> USE DEF procVars, diskVars, lockVars, fluxVars, appVars, dataVars, countVars
<1> DEFINE d == DirOf[p]
<1>1. CASE SuspendOwner(p)
  <2>1. /\ at[p] = "suspendOwner" /\ at'[p] = "suspendRelease" /\ stage'[p] = stage[p] /\ Local(p)
        /\ kust' = (kust \/ (mem[p].mode = "upgrade" /\ HasOwner))
        /\ mem[p].mode # "upgrade" => release = "absent"
        /\ mem'[p].mode = mem[p].mode /\ mem'[p].verified = mem[p].verified /\ mem'[p].steps = mem[p].steps
        /\ UNCHANGED <<hr, release, inflight, outlived, apps, hpa, infra, lock, disk, jobs, backup, cursor>>
    <3>1. mem[p] \in RunState /\ release \in {"absent", "live"}
      BY HeldHere DEF Inv, Typed, TypeOK
    <3>2. QED
      BY <1>1, <3>1, HeldHere DEF SuspendOwner, Goto, Local, Live, RunState
  <2>2. /\ stage[p] = "prepare" /\ disk[d].steps["prepare"] = "started" /\ d \in Dir
        /\ \A s \in {"backup", "migrate", "rollout", "verify", "infrastructure"} : disk[d].steps[s] = "none"
        /\ mem[p].mode = disk[d].mode /\ mem[p].verified = disk[d].verified /\ mem[p].id = disk[d].id
        /\ mem[p].steps = disk[d].steps
    BY <2>1, PreparingHeld, HeldHere DEF PrepareOnly
  <2>4. RunHeld(d)'
    <3>1. RunHeld(d)
      BY HeldHere
    <3>2. QED
      BY <2>1, <2>2, <3>1 DEF RunHeld, FluxHeld, Held, AllJobs
  <2>5. ProcHeld(p)'
    <3>1. Loaded(p) /\ Suspending(p) /\ Saving(p) /\ Building(p) /\ Migrating(p)
      BY HeldHere DEF ProcHeld
    <3>2. Loaded(p)'
      BY <2>1, <2>2, <3>1 DEF Loaded, BeforeBegin
    <3>3. Suspending(p)'
      BY <2>1, <2>2, DomainAssumption, <3>1 DEF Suspending, PrepareOnly
    <3>4. Saving(p)' /\ Building(p)'
      BY <2>1, <2>2, <3>1 DEF Saving, Building, Held
    <3>5. Migrating(p)'
      BY <2>1, <2>2, <3>1 DEF Migrating, AllJobs
    <3>6. QED
      BY <3>2, <3>3, <3>4, <3>5 DEF ProcHeld
  <2>6. Gentle
    BY <2>1 DEF Gentle, Held, ScaledDown
  <2>7. QED
    BY <2>1, <2>2, <2>4, <2>5, <2>6, HeldFrame
<1>2. CASE SuspendRelease(p)
  <2>1. /\ at[p] = "suspendRelease" /\ at'[p] = "recordNamespace" /\ stage'[p] = stage[p] /\ Local(p)
        /\ hr' = (hr \/ mem[p].mode = "upgrade")
        /\ mem'[p] = mem[p]
        /\ UNCHANGED <<kust, release, inflight, outlived, apps, hpa, infra, lock, disk, jobs, backup, cursor>>
    BY <1>2, HeldHere DEF SuspendRelease, Goto, Local, Live
  <2>2. /\ stage[p] = "prepare" /\ disk[d].steps["prepare"] = "started" /\ d \in Dir
        /\ \A s \in {"backup", "migrate", "rollout", "verify", "infrastructure"} : disk[d].steps[s] = "none"
        /\ mem[p].mode = disk[d].mode /\ mem[p].verified = disk[d].verified /\ mem[p].id = disk[d].id
        /\ mem[p].steps = disk[d].steps
    BY <2>1, PreparingHeld, HeldHere DEF PrepareOnly
  <2>4. RunHeld(d)'
    <3>1. RunHeld(d)
      BY HeldHere
    <3>2. QED
      BY <2>1, <2>2, <3>1 DEF RunHeld, FluxHeld, Held, AllJobs
  <2>5. ProcHeld(p)'
    <3>1. Loaded(p) /\ Suspending(p) /\ Saving(p) /\ Building(p) /\ Migrating(p)
      BY HeldHere DEF ProcHeld
    <3>2. Loaded(p)'
      BY <2>1, <2>2, <3>1 DEF Loaded, BeforeBegin
    <3>3. Suspending(p)'
      BY <2>1, <2>2, DomainAssumption, <3>1 DEF Suspending, PrepareOnly
    <3>4. Saving(p)' /\ Building(p)'
      BY <2>1, <2>2, <3>1 DEF Saving, Building, Held
    <3>5. Migrating(p)'
      BY <2>1, <2>2, <3>1 DEF Migrating, AllJobs
    <3>6. QED
      BY <3>2, <3>3, <3>4, <3>5 DEF ProcHeld
  <2>6. Gentle
    BY <2>1 DEF Gentle, Held, ScaledDown
  <2>7. QED
    BY <2>1, <2>2, <2>4, <2>5, <2>6, HeldFrame
<1>3. CASE RecordNamespace(p)
  <2>1. /\ at[p] = "recordNamespace" /\ at'[p] = "takeLock" /\ stage'[p] = stage[p] /\ Local(p)
        /\ disk'[d] = mem[p]
        /\ \A e \in Dir \ {d} : disk'[e] = disk[e]
        /\ mem'[p] = mem[p]
        /\ UNCHANGED <<kust, hr, release, inflight, outlived, apps, hpa, infra, lock, jobs, backup, cursor>>
    BY <1>3, HeldHere DEF RecordNamespace, Goto, Local, Checkpoint, Write
  <2>2. /\ stage[p] = "prepare" /\ disk[d].steps["prepare"] = "started" /\ d \in Dir
        /\ \A s \in {"backup", "migrate", "rollout", "verify", "infrastructure"} : disk[d].steps[s] = "none"
        /\ mem[p].mode = disk[d].mode /\ mem[p].verified = disk[d].verified /\ mem[p].id = disk[d].id
        /\ mem[p].steps = disk[d].steps
    BY <2>1, PreparingHeld, HeldHere DEF PrepareOnly
  <2>3. /\ disk'[d].mode = disk[d].mode /\ disk'[d].verified = disk[d].verified /\ disk'[d].id = disk[d].id
        /\ \A s \in {"prepare", "backup", "migrate", "rollout", "verify"} : disk'[d].steps[s] = disk[d].steps[s]
        /\ disk'[d].steps["infrastructure"] # "none" => infra = "new" /\ disk[d].mode = "fresh"
    <3>1. mem[p].steps = disk[d].steps \/ mem[p].steps = [disk[d].steps EXCEPT !["infrastructure"] = "complete"]
      BY <2>1, HeldHere DEF MemoryOf
    <3>2. mem[p].steps # disk[d].steps => infra = "new" /\ mem[p].mode = "fresh"
      BY <2>1, HeldHere DEF MemoryOf, ProcHeld, Building
    <3>3. disk[d].steps \in [Stage -> Status] /\ {"prepare", "backup", "migrate", "rollout", "verify", "infrastructure"} \subseteq Stage
      BY HeldHere DEF RunState, Stage
    <3>4. \A s \in Stage \ {"infrastructure"} : mem[p].steps[s] = disk[d].steps[s]
      BY <3>1, <3>3
    <3>5. mem[p].steps["infrastructure"] # "none" => mem[p].steps # disk[d].steps
      BY <2>2
    <3>6. mem[p].steps["infrastructure"] # "none" => infra = "new" /\ disk[d].mode = "fresh"
      BY <2>2, <3>2, <3>5
    <3>7. \A s \in {"prepare", "backup", "migrate", "rollout", "verify"} : disk'[d].steps[s] = disk[d].steps[s]
      BY <2>1, <3>3, <3>4
    <3>8. QED
      BY <2>1, <2>2, <3>3, <3>6, <3>7
  <2>4. RunHeld(d)'
    <3>1. RunHeld(d)
      BY HeldHere
    <3>2. QED
      BY <2>1, <2>2, <2>3, <3>1 DEF RunHeld, FluxHeld, Held, AllJobs
  <2>5. ProcHeld(p)'
    <3>1. Loaded(p) /\ Suspending(p) /\ Saving(p) /\ Building(p) /\ Migrating(p)
      BY HeldHere DEF ProcHeld
    <3>2. Loaded(p)'
      BY <2>1, <2>2, <2>3, <3>1 DEF Loaded, BeforeBegin
    <3>3. Suspending(p)'
      BY <2>1, <2>2, <2>3, <3>1 DEF Suspending, PrepareOnly
    <3>4. Saving(p)' /\ Building(p)'
      BY <2>1, <2>2, <2>3, <3>1 DEF Saving, Building, Held
    <3>5. Migrating(p)'
      BY <2>1, <2>2, <2>3, <3>1 DEF Migrating, AllJobs
    <3>6. QED
      BY <3>2, <3>3, <3>4, <3>5 DEF ProcHeld
  <2>6. Gentle
    BY <2>1 DEF Gentle, Held, ScaledDown
  <2>7. QED
    BY <2>1, <2>2, <2>3, <2>4, <2>5, <2>6, HeldFrame
<1>4. CASE TakeLock(p)
  <2>1. /\ at[p] = "takeLock" /\ at'[p] = (IF Live(p) THEN "deleteHpa" ELSE "bootstrap") /\ stage'[p] = stage[p] /\ Local(p)
        /\ lock' = mem[p].id
        /\ mem'[p] = mem[p]
        /\ UNCHANGED <<kust, hr, release, inflight, outlived, apps, hpa, infra, disk, jobs, backup, cursor>>
    BY <1>4, HeldHere DEF TakeLock, Goto, Local
  <2>2. /\ stage[p] = "prepare" /\ disk[d].steps["prepare"] = "started" /\ d \in Dir
        /\ \A s \in {"backup", "migrate", "rollout", "verify", "infrastructure"} : disk[d].steps[s] = "none"
        /\ mem[p].mode = disk[d].mode /\ mem[p].verified = disk[d].verified /\ mem[p].id = disk[d].id
        /\ mem[p].steps = disk[d].steps
    BY <2>1, PreparingHeld, HeldHere DEF PrepareOnly
  <2>4. RunHeld(d)'
    <3>1. RunHeld(d)
      BY HeldHere
    <3>2. QED
      BY <2>1, <2>2, <3>1 DEF RunHeld, FluxHeld, Held, AllJobs
  <2>5. ProcHeld(p)'
    <3>1. Loaded(p) /\ Suspending(p) /\ Saving(p) /\ Building(p) /\ Migrating(p)
      BY HeldHere DEF ProcHeld
    <3>2. Loaded(p)'
      BY <2>1, <2>2, <3>1 DEF Loaded, BeforeBegin
    <3>3. Suspending(p)'
      BY <2>1, <2>2, <3>1 DEF Suspending, PrepareOnly
    <3>4. Saving(p)' /\ Building(p)'
      BY <2>1, <2>2, <3>1 DEF Saving, Building, Held
    <3>5. Migrating(p)'
      BY <2>1, <2>2, <3>1 DEF Migrating, AllJobs
    <3>6. QED
      BY <3>2, <3>3, <3>4, <3>5 DEF ProcHeld
  <2>6. Gentle
    BY <2>1 DEF Gentle, Held, ScaledDown
  <2>7. QED
    BY <2>1, <2>2, <2>4, <2>5, <2>6, HeldFrame
<1>5. CASE DeleteHpa(p)
  <2>1. /\ at[p] = "deleteHpa" /\ at'[p] = "scale" /\ stage'[p] = stage[p] /\ Local(p)
        /\ hpa' = FALSE
        /\ mem'[p] = mem[p]
        /\ UNCHANGED <<kust, hr, release, inflight, outlived, apps, infra, lock, disk, jobs, backup, cursor>>
    BY <1>5, HeldHere DEF DeleteHpa, Goto, Local
  <2>2. /\ stage[p] = "prepare" /\ disk[d].steps["prepare"] = "started" /\ d \in Dir
        /\ \A s \in {"backup", "migrate", "rollout", "verify", "infrastructure"} : disk[d].steps[s] = "none"
        /\ mem[p].mode = disk[d].mode /\ mem[p].verified = disk[d].verified /\ mem[p].id = disk[d].id
        /\ mem[p].steps = disk[d].steps
    BY <2>1, PreparingHeld, HeldHere DEF PrepareOnly
  <2>4. RunHeld(d)'
    <3>1. RunHeld(d)
      BY HeldHere
    <3>2. QED
      BY <2>1, <2>2, <3>1 DEF RunHeld, FluxHeld, Held, AllJobs
  <2>5. ProcHeld(p)'
    <3>1. Loaded(p) /\ Suspending(p) /\ Saving(p) /\ Building(p) /\ Migrating(p)
      BY HeldHere DEF ProcHeld
    <3>2. Loaded(p)'
      BY <2>1, <2>2, <3>1 DEF Loaded, BeforeBegin
    <3>3. Suspending(p)'
      BY <2>1, <2>2, <3>1 DEF Suspending, PrepareOnly
    <3>4. Saving(p)' /\ Building(p)'
      BY <2>1, <2>2, <3>1 DEF Saving, Building, Held
    <3>5. Migrating(p)'
      BY <2>1, <2>2, <3>1 DEF Migrating, AllJobs
    <3>6. QED
      BY <3>2, <3>3, <3>4, <3>5 DEF ProcHeld
  <2>6. Gentle
    BY <2>1 DEF Gentle, Held, ScaledDown
  <2>7. QED
    BY <2>1, <2>2, <2>4, <2>5, <2>6, HeldFrame
<1>6. CASE Scale(p)
  <2>1. /\ at[p] = "scale" /\ at'[p] = "drain" /\ stage'[p] = stage[p] /\ Local(p)
        /\ apps' = ScaledDown
        /\ mem'[p] = mem[p]
        /\ UNCHANGED <<kust, hr, release, inflight, outlived, hpa, infra, lock, disk, jobs, backup, cursor>>
    BY <1>6, HeldHere DEF Scale, Goto, Local
  <2>2. /\ stage[p] = "prepare" /\ disk[d].steps["prepare"] = "started" /\ d \in Dir
        /\ \A s \in {"backup", "migrate", "rollout", "verify", "infrastructure"} : disk[d].steps[s] = "none"
        /\ mem[p].mode = disk[d].mode /\ mem[p].verified = disk[d].verified /\ mem[p].id = disk[d].id
        /\ mem[p].steps = disk[d].steps
    BY <2>1, PreparingHeld, HeldHere DEF PrepareOnly
  <2>4. RunHeld(d)'
    <3>1. RunHeld(d)
      BY HeldHere
    <3>2. QED
      BY <2>1, <2>2, <3>1 DEF RunHeld, FluxHeld, Held, AllJobs, ScaledDown
  <2>5. ProcHeld(p)'
    <3>1. Loaded(p) /\ Suspending(p) /\ Saving(p) /\ Building(p) /\ Migrating(p)
      BY HeldHere DEF ProcHeld
    <3>2. Loaded(p)'
      BY <2>1, <2>2, <3>1 DEF Loaded, BeforeBegin
    <3>3. Suspending(p)'
      BY <2>1, <2>2, <3>1 DEF Suspending, PrepareOnly
    <3>4. Saving(p)' /\ Building(p)'
      BY <2>1, <2>2, <3>1 DEF Saving, Building, Held
    <3>5. Migrating(p)'
      BY <2>1, <2>2, <3>1 DEF Migrating, AllJobs
    <3>6. QED
      BY <3>2, <3>3, <3>4, <3>5 DEF ProcHeld
  <2>6. Gentle
    BY <2>1 DEF Gentle, Held, ScaledDown
  <2>7. QED
    BY <2>1, <2>2, <2>4, <2>5, <2>6, HeldFrame
<1>7. CASE Bootstrap(p)
  <2>1. /\ at[p] = "bootstrap" /\ at'[p] = "recordJobs" /\ stage'[p] = stage[p] /\ Local(p)
        /\ mem'[p].mode = mem[p].mode /\ mem'[p].verified = mem[p].verified
        /\ infra' = infra => mem'[p].steps = mem[p].steps \/ (infra = "new" /\ mem[p].mode = "fresh")
        /\ infra' # infra => infra' = "new" /\ mem[p].mode = "fresh"
        /\ UNCHANGED <<kust, hr, release, inflight, outlived, apps, hpa, lock, disk, jobs, backup, cursor>>
    <3>1. mem[p] \in RunState /\ at \in [Proc -> Steps] /\ mem \in [Proc -> RunState]
      BY HeldHere
    <3>2. CASE Live(p)
      BY <1>7, <3>1, <3>2 DEF Bootstrap, Goto, Local
    <3>3. CASE ~Live(p)
      BY <1>7, <3>1, <3>3, DomainAssumption DEF Bootstrap, Goto, Local, Live, RunState
    <3>4. QED
      BY <3>2, <3>3
  <2>2. /\ stage[p] = "prepare" /\ disk[d].steps["prepare"] = "started" /\ d \in Dir
        /\ \A s \in {"backup", "migrate", "rollout", "verify", "infrastructure"} : disk[d].steps[s] = "none"
        /\ mem[p].mode = disk[d].mode /\ mem[p].verified = disk[d].verified /\ mem[p].id = disk[d].id
        /\ mem[p].steps = disk[d].steps
    BY <2>1, PreparingHeld, HeldHere DEF PrepareOnly
  <2>4. RunHeld(d)'
    <3>1. RunHeld(d)
      BY HeldHere
    <3>2. QED
      BY <2>1, <2>2, <3>1 DEF RunHeld, FluxHeld, Held, AllJobs
  <2>5. ProcHeld(p)'
    <3>1. Loaded(p) /\ Suspending(p) /\ Saving(p) /\ Building(p) /\ Migrating(p)
      BY HeldHere DEF ProcHeld
    <3>2. Loaded(p)'
      BY <2>1, <2>2, <3>1 DEF Loaded, BeforeBegin
    <3>3. Suspending(p)'
      BY <2>1, <2>2, <3>1 DEF Suspending, PrepareOnly
    <3>4. Saving(p)' /\ Building(p)'
      BY <2>1, <2>2, <3>1 DEF Saving, Building, Held
    <3>5. Migrating(p)'
      BY <2>1, <2>2, <3>1 DEF Migrating, AllJobs
    <3>6. QED
      BY <3>2, <3>3, <3>4, <3>5 DEF ProcHeld
  <2>6. Gentle
    BY <2>1 DEF Gentle, Held, ScaledDown
  <2>7. QED
    BY <2>1, <2>2, <2>4, <2>5, <2>6, HeldFrame DEF Acting
<1>8. CASE RecordJobs(p)
  <2>1. /\ at[p] = "recordJobs" /\ at'[p] = (IF Live(p) THEN "createPod" ELSE "holdInstall") /\ stage'[p] = stage[p] /\ Local(p)
        /\ disk'[d] = mem[p]
        /\ \A e \in Dir \ {d} : disk'[e] = disk[e]
        /\ mem'[p] = mem[p]
        /\ UNCHANGED <<kust, hr, release, inflight, outlived, apps, hpa, infra, lock, jobs, backup, cursor>>
    BY <1>8, HeldHere DEF RecordJobs, Goto, Local, Checkpoint, Write
  <2>2. /\ stage[p] = "prepare" /\ disk[d].steps["prepare"] = "started" /\ d \in Dir
        /\ \A s \in {"backup", "migrate", "rollout", "verify", "infrastructure"} : disk[d].steps[s] = "none"
        /\ mem[p].mode = disk[d].mode /\ mem[p].verified = disk[d].verified /\ mem[p].id = disk[d].id
    BY <2>1, PreparingHeld, HeldHere DEF PrepareOnly
  <2>3. /\ disk'[d].mode = disk[d].mode /\ disk'[d].verified = disk[d].verified /\ disk'[d].id = disk[d].id
        /\ \A s \in {"prepare", "backup", "migrate", "rollout", "verify"} : disk'[d].steps[s] = disk[d].steps[s]
        /\ disk'[d].steps["infrastructure"] # "none" => infra = "new" /\ disk[d].mode = "fresh"
    <3>1. mem[p].steps = disk[d].steps \/ mem[p].steps = [disk[d].steps EXCEPT !["infrastructure"] = "complete"]
      BY <2>1, HeldHere DEF MemoryOf
    <3>2. mem[p].steps # disk[d].steps => infra = "new" /\ mem[p].mode = "fresh"
      BY <2>1, HeldHere DEF MemoryOf, ProcHeld, Building
    <3>3. disk[d].steps \in [Stage -> Status] /\ {"prepare", "backup", "migrate", "rollout", "verify", "infrastructure"} \subseteq Stage
      BY HeldHere DEF RunState, Stage
    <3>4. \A s \in Stage \ {"infrastructure"} : mem[p].steps[s] = disk[d].steps[s]
      BY <3>1, <3>3
    <3>5. mem[p].steps["infrastructure"] # "none" => mem[p].steps # disk[d].steps
      BY <2>2
    <3>6. mem[p].steps["infrastructure"] # "none" => infra = "new" /\ disk[d].mode = "fresh"
      BY <2>2, <3>2, <3>5
    <3>7. \A s \in {"prepare", "backup", "migrate", "rollout", "verify"} : disk'[d].steps[s] = disk[d].steps[s]
      BY <2>1, <3>3, <3>4
    <3>8. QED
      BY <2>1, <2>2, <3>3, <3>6, <3>7
  <2>4. RunHeld(d)'
    <3>1. RunHeld(d)
      BY HeldHere
    <3>2. QED
      BY <2>1, <2>2, <2>3, <3>1 DEF RunHeld, FluxHeld, Held, AllJobs
  <2>5. ProcHeld(p)'
    <3>1. Loaded(p) /\ Suspending(p) /\ Saving(p) /\ Building(p) /\ Migrating(p)
      BY HeldHere DEF ProcHeld
    <3>2. Loaded(p)'
      BY <2>1, <2>2, <2>3, <3>1 DEF Loaded, BeforeBegin
    <3>3. Suspending(p)'
      BY <2>1, <2>2, <2>3, <3>1 DEF Suspending, PrepareOnly
    <3>4. Saving(p)' /\ Building(p)'
      BY <2>1, <2>2, <2>3, <3>1 DEF Saving, Building, Held
    <3>5. Migrating(p)'
      BY <2>1, <2>2, <2>3, <3>1 DEF Migrating, AllJobs
    <3>6. QED
      BY <3>2, <3>3, <3>4, <3>5 DEF ProcHeld
  <2>6. Gentle
    BY <2>1 DEF Gentle, Held, ScaledDown
  <2>7. QED
    BY <2>1, <2>2, <2>3, <2>4, <2>5, <2>6, HeldFrame
<1>9. QED
  BY <1>1, <1>2, <1>3, <1>4, <1>5, <1>6, <1>7, <1>8 DEF PrepareHolds

\* What a process in the middle of its stage knows of its run.
LEMMA ActsHere ==
    ASSUME HoldInv, NEW p \in Proc, at[p] \notin BeforeBegin \cup {"idle", "recordJobs"}
    PROVE  /\ DirOf[p] \in Dir /\ stage[p] \in Stage
           /\ disk[DirOf[p]].steps[stage[p]] = "started"
           /\ mem[p].steps = disk[DirOf[p]].steps /\ mem[p].id = disk[DirOf[p]].id
           /\ mem[p].mode = disk[DirOf[p]].mode /\ mem[p].verified = disk[DirOf[p]].verified
<1>1. Loaded(p)
  BY HeldHere DEF ProcHeld
<1>2. QED
  BY <1>1, HeldHere DEF MemoryOf, Loaded

StageHolds(p) ==
    \/ HoldInstall(p) \/ Dump(p) \/ FreezeTables(p) \/ VerifyBackup(p)
    \/ PatchBinary(p) \/ ApplyTargets(p) \/ CreateJob(p) \/ WaitJob(p)
    \/ Install(p) \/ ResumeRelease(p) \/ ResumeOwners(p) \/ DeleteLock(p)

LEMMA StageHeld ==
    ASSUME OwnDirs, HoldInv, OneAtATime, RolloutInv', NEW p \in Proc, StageHolds(p)
    PROVE  HoldInv'
<1> USE DEF procVars, diskVars, lockVars, fluxVars, appVars, dataVars, countVars
<1> DEFINE d == DirOf[p]
<1>1. CASE HoldInstall(p)
  <2>1. /\ at[p] = "holdInstall" /\ at'[p] = (IF stage[p] = "prepare" THEN "createPod" ELSE "heldAgain")
        /\ stage'[p] = stage[p] /\ Local(p)
        /\ apps' = ScaledDown /\ hpa' = FALSE
        /\ mem'[p] = mem[p]
        /\ UNCHANGED <<kust, hr, release, inflight, outlived, infra, lock, disk, jobs, backup, cursor>>
    BY <1>1, HeldHere DEF HoldInstall, Goto, Local
  <2>2. /\ d \in Dir /\ mem[p] \in RunState /\ disk[d].steps[stage[p]] = "started"
        /\ mem[p].steps = disk[d].steps /\ mem[p].id = disk[d].id
        /\ mem[p].mode = disk[d].mode /\ mem[p].verified = disk[d].verified
    BY <2>1, ActsHere, HeldHere DEF BeforeBegin
  <2>3. stage[p] \in {"prepare", "migrate"}
    BY <2>1, HeldHere DEF StepOf
  <2>5. RunHeld(d)'
    <3>1. RunHeld(d)
      BY HeldHere
    <3>2. QED
      BY <2>1, <2>2, <2>3, <3>1 DEF RunHeld, FluxHeld, Held, AllJobs, ScaledDown
  <2>6. ProcHeld(p)'
    <3>1. Loaded(p) /\ Suspending(p) /\ Saving(p) /\ Building(p) /\ Migrating(p)
      BY HeldHere DEF ProcHeld
    <3>2. Loaded(p)'
      BY <2>1, <2>2, <2>3, <3>1 DEF Loaded, BeforeBegin
    <3>3. Suspending(p)'
      BY <2>1, <2>2, <2>3, <3>1 DEF Suspending, PrepareOnly
    <3>4. Saving(p)' /\ Building(p)'
      BY <2>1, <2>2, <2>3, <3>1 DEF Saving, Building, Held, ScaledDown
    <3>5. Migrating(p)'
      BY <2>1, <2>2, <2>3, <3>1 DEF Migrating, AllJobs
    <3>6. QED
      BY <3>2, <3>3, <3>4, <3>5 DEF ProcHeld
  <2>7. at[p] \in RolloutOnly \/ Gentle
    BY <2>1 DEF Gentle, Held, ScaledDown
  <2>8. QED
    BY <2>1, <2>2, <2>3, <2>5, <2>6, <2>7, HeldFrame
<1>2. CASE Dump(p)
  <2>1. /\ at[p] = "dump" /\ at'[p] = "freeze"
        /\ stage'[p] = stage[p] /\ Local(p)
        /\ backup'[d] = "taken" /\ \A e \in Dir \ {d} : backup'[e] = backup[e]
        /\ mem'[p] = mem[p]
        /\ UNCHANGED <<kust, hr, release, inflight, outlived, apps, hpa, infra, lock, disk, jobs, cursor>>
    BY <1>2, HeldHere DEF Dump, Goto, Local
  <2>2. /\ d \in Dir /\ mem[p] \in RunState /\ disk[d].steps[stage[p]] = "started"
        /\ mem[p].steps = disk[d].steps /\ mem[p].id = disk[d].id
        /\ mem[p].mode = disk[d].mode /\ mem[p].verified = disk[d].verified
    BY <2>1, ActsHere, HeldHere DEF BeforeBegin
  <2>3. stage[p] = "backup" /\ disk[d].steps["backup"] = "started"
    BY <2>1, <2>2, HeldHere DEF StepOf, BackupOnly, MigrateOnly, RolloutOnly
  <2>5. RunHeld(d)'
    <3>1. RunHeld(d)
      BY HeldHere
    <3>2. QED
      BY <2>1, <2>2, <2>3, <3>1 DEF RunHeld, FluxHeld, Held, AllJobs
  <2>6. ProcHeld(p)'
    <3>1. Loaded(p) /\ Suspending(p) /\ Saving(p) /\ Building(p) /\ Migrating(p)
      BY HeldHere DEF ProcHeld
    <3>2. Loaded(p)'
      BY <2>1, <2>2, <2>3, <3>1 DEF Loaded, BeforeBegin
    <3>3. Suspending(p)'
      BY <2>1, <2>2, <2>3, <3>1 DEF Suspending, PrepareOnly
    <3>4. Saving(p)' /\ Building(p)'
      BY <2>1, <2>2, <2>3, <3>1 DEF Saving, Building, Held
    <3>5. Migrating(p)'
      BY <2>1, <2>2, <2>3, <3>1 DEF Migrating, AllJobs
    <3>6. QED
      BY <3>2, <3>3, <3>4, <3>5 DEF ProcHeld
  <2>7. at[p] \in RolloutOnly \/ Gentle
    BY <2>1 DEF Gentle, Held, ScaledDown
  <2>8. QED
    BY <2>1, <2>2, <2>3, <2>5, <2>6, <2>7, HeldFrame
<1>3. CASE FreezeTables(p)
  <2>1. /\ at[p] = "freeze" /\ at'[p] = "verifyBackup"
        /\ stage'[p] = stage[p] /\ Local(p)
        /\ disk'[d] = mem[p] /\ \A e \in Dir \ {d} : disk'[e] = disk[e]
        /\ mem'[p] = mem[p]
        /\ UNCHANGED <<kust, hr, release, inflight, outlived, apps, hpa, infra, lock, jobs, backup, cursor>>
    BY <1>3, HeldHere DEF FreezeTables, Goto, Local, Checkpoint, Write
  <2>2. /\ d \in Dir /\ mem[p] \in RunState /\ disk[d].steps[stage[p]] = "started"
        /\ mem[p].steps = disk[d].steps /\ mem[p].id = disk[d].id
        /\ mem[p].mode = disk[d].mode /\ mem[p].verified = disk[d].verified
    BY <2>1, ActsHere, HeldHere DEF BeforeBegin
  <2>3. stage[p] = "backup" /\ disk[d].steps["backup"] = "started"
    BY <2>1, <2>2, HeldHere DEF StepOf, BackupOnly, MigrateOnly, RolloutOnly
  <2>4. /\ disk'[d].mode = disk[d].mode /\ disk'[d].id = disk[d].id /\ disk'[d].steps = disk[d].steps
        /\ mem'[p].mode = mem[p].mode /\ mem'[p].steps = mem[p].steps /\ mem'[p].verified = disk'[d].verified
        /\ disk'[d].verified = disk[d].verified
    BY <2>1, <2>2 DEF RunState
  <2>5. RunHeld(d)'
    <3>1. RunHeld(d)
      BY HeldHere
    <3>2. QED
      BY <2>1, <2>2, <2>3, <2>4, <3>1 DEF RunHeld, FluxHeld, Held, AllJobs
  <2>6. ProcHeld(p)'
    <3>1. Loaded(p) /\ Suspending(p) /\ Saving(p) /\ Building(p) /\ Migrating(p)
      BY HeldHere DEF ProcHeld
    <3>2. Loaded(p)'
      BY <2>1, <2>2, <2>3, <2>4, <3>1 DEF Loaded, BeforeBegin
    <3>3. Suspending(p)'
      BY <2>1, <2>2, <2>3, <2>4, <3>1 DEF Suspending, PrepareOnly
    <3>4. Saving(p)' /\ Building(p)'
      BY <2>1, <2>2, <2>3, <2>4, <3>1 DEF Saving, Building, Held
    <3>5. Migrating(p)'
      BY <2>1, <2>2, <2>3, <2>4, <3>1 DEF Migrating, AllJobs
    <3>6. QED
      BY <3>2, <3>3, <3>4, <3>5 DEF ProcHeld
  <2>7. at[p] \in RolloutOnly \/ Gentle
    BY <2>1 DEF Gentle, Held, ScaledDown
  <2>8. QED
    BY <2>1, <2>2, <2>3, <2>4, <2>5, <2>6, <2>7, HeldFrame
<1>4. CASE VerifyBackup(p)
  <2>1. /\ at[p] = "verifyBackup" /\ at'[p] = "unfreeze"
        /\ stage'[p] = stage[p] /\ Local(p)
        /\ disk'[d] = [mem[p] EXCEPT !.verified = TRUE] /\ \A e \in Dir \ {d} : disk'[e] = disk[e]
        /\ mem'[p] = [mem[p] EXCEPT !.verified = TRUE]
        /\ UNCHANGED <<kust, hr, release, inflight, outlived, apps, hpa, infra, lock, jobs, backup, cursor>>
    BY <1>4, HeldHere DEF VerifyBackup, Goto, Local, Checkpoint, Write
  <2>2. /\ d \in Dir /\ mem[p] \in RunState /\ disk[d].steps[stage[p]] = "started"
        /\ mem[p].steps = disk[d].steps /\ mem[p].id = disk[d].id
        /\ mem[p].mode = disk[d].mode /\ mem[p].verified = disk[d].verified
    BY <2>1, ActsHere, HeldHere DEF BeforeBegin
  <2>3. stage[p] = "backup" /\ disk[d].steps["backup"] = "started"
    BY <2>1, <2>2, HeldHere DEF StepOf, BackupOnly, MigrateOnly, RolloutOnly
  <2>4. /\ disk'[d].mode = disk[d].mode /\ disk'[d].id = disk[d].id /\ disk'[d].steps = disk[d].steps
        /\ mem'[p].mode = mem[p].mode /\ mem'[p].steps = mem[p].steps /\ mem'[p].verified = disk'[d].verified
        /\ disk'[d].verified = TRUE
    BY <2>1, <2>2 DEF RunState
  <2>5. RunHeld(d)'
    <3>1. RunHeld(d)
      BY HeldHere
    <3>2. QED
      BY <2>1, <2>2, <2>3, <2>4, <3>1 DEF RunHeld, FluxHeld, Held, AllJobs
  <2>6. ProcHeld(p)'
    <3>1. Loaded(p) /\ Suspending(p) /\ Saving(p) /\ Building(p) /\ Migrating(p)
      BY HeldHere DEF ProcHeld
    <3>2. Loaded(p)'
      BY <2>1, <2>2, <2>3, <2>4, <3>1 DEF Loaded, BeforeBegin
    <3>3. Suspending(p)'
      BY <2>1, <2>2, <2>3, <2>4, <3>1 DEF Suspending, PrepareOnly
    <3>4. Saving(p)' /\ Building(p)'
      BY <2>1, <2>2, <2>3, <2>4, <3>1 DEF Saving, Building, Held
    <3>5. Migrating(p)'
      BY <2>1, <2>2, <2>3, <2>4, <3>1 DEF Migrating, AllJobs
    <3>6. QED
      BY <3>2, <3>3, <3>4, <3>5 DEF ProcHeld
  <2>7. at[p] \in RolloutOnly \/ Gentle
    BY <2>1 DEF Gentle, Held, ScaledDown
  <2>8. QED
    BY <2>1, <2>2, <2>3, <2>4, <2>5, <2>6, <2>7, HeldFrame
<1>5. CASE PatchBinary(p)
  <2>1. /\ at[p] = "binary" /\ at'[p] = "targets"
        /\ stage'[p] = stage[p] /\ Local(p)
        /\ infra' = "binary"
        /\ mem'[p] = mem[p]
        /\ UNCHANGED <<kust, hr, release, inflight, outlived, apps, hpa, lock, disk, jobs, backup, cursor>>
    BY <1>5, HeldHere DEF PatchBinary, Goto, Local
  <2>2. /\ d \in Dir /\ mem[p] \in RunState /\ disk[d].steps[stage[p]] = "started"
        /\ mem[p].steps = disk[d].steps /\ mem[p].id = disk[d].id
        /\ mem[p].mode = disk[d].mode /\ mem[p].verified = disk[d].verified
    BY <2>1, ActsHere, HeldHere DEF BeforeBegin
  <2>3. stage[p] = "infrastructure" /\ disk[d].steps["infrastructure"] = "started"
    BY <2>1, <2>2, HeldHere DEF StepOf, BackupOnly, MigrateOnly, RolloutOnly
  <2>5. RunHeld(d)'
    <3>1. RunHeld(d)
      BY HeldHere
    <3>2. QED
      BY <2>1, <2>2, <2>3, <3>1 DEF RunHeld, FluxHeld, Held, AllJobs
  <2>6. ProcHeld(p)'
    <3>1. Loaded(p) /\ Suspending(p) /\ Saving(p) /\ Building(p) /\ Migrating(p)
      BY HeldHere DEF ProcHeld
    <3>2. Loaded(p)'
      BY <2>1, <2>2, <2>3, <3>1 DEF Loaded, BeforeBegin
    <3>3. Suspending(p)'
      BY <2>1, <2>2, <2>3, <3>1 DEF Suspending, PrepareOnly
    <3>4. Saving(p)' /\ Building(p)'
      BY <2>1, <2>2, <2>3, <3>1 DEF Saving, Building, Held
    <3>5. Migrating(p)'
      BY <2>1, <2>2, <2>3, <3>1 DEF Migrating, AllJobs
    <3>6. QED
      BY <3>2, <3>3, <3>4, <3>5 DEF ProcHeld
  <2>7. at[p] \in RolloutOnly \/ Gentle
    BY <2>1 DEF Gentle, Held, ScaledDown
  <2>8. QED
    BY <2>1, <2>2, <2>3, <2>5, <2>6, <2>7, HeldFrame DEF Acting
<1>6. CASE ApplyTargets(p)
  <2>1. /\ at[p] = "targets" /\ at'[p] = "finish"
        /\ stage'[p] = stage[p] /\ Local(p)
        /\ infra' = "new"
        /\ mem'[p] = mem[p]
        /\ UNCHANGED <<kust, hr, release, inflight, outlived, apps, hpa, lock, disk, jobs, backup, cursor>>
    BY <1>6, HeldHere DEF ApplyTargets, Goto, Local
  <2>2. /\ d \in Dir /\ mem[p] \in RunState /\ disk[d].steps[stage[p]] = "started"
        /\ mem[p].steps = disk[d].steps /\ mem[p].id = disk[d].id
        /\ mem[p].mode = disk[d].mode /\ mem[p].verified = disk[d].verified
    BY <2>1, ActsHere, HeldHere DEF BeforeBegin
  <2>3. stage[p] = "infrastructure" /\ disk[d].steps["infrastructure"] = "started"
    BY <2>1, <2>2, HeldHere DEF StepOf, BackupOnly, MigrateOnly, RolloutOnly
  <2>5. RunHeld(d)'
    <3>1. RunHeld(d)
      BY HeldHere
    <3>2. QED
      BY <2>1, <2>2, <2>3, <3>1 DEF RunHeld, FluxHeld, Held, AllJobs
  <2>6. ProcHeld(p)'
    <3>1. Loaded(p) /\ Suspending(p) /\ Saving(p) /\ Building(p) /\ Migrating(p)
      BY HeldHere DEF ProcHeld
    <3>2. Loaded(p)'
      BY <2>1, <2>2, <2>3, <3>1 DEF Loaded, BeforeBegin
    <3>3. Suspending(p)'
      BY <2>1, <2>2, <2>3, <3>1 DEF Suspending, PrepareOnly
    <3>4. Saving(p)' /\ Building(p)'
      BY <2>1, <2>2, <2>3, <3>1 DEF Saving, Building, Held
    <3>5. Migrating(p)'
      BY <2>1, <2>2, <2>3, <3>1 DEF Migrating, AllJobs
    <3>6. QED
      BY <3>2, <3>3, <3>4, <3>5 DEF ProcHeld
  <2>7. at[p] \in RolloutOnly \/ Gentle
    BY <2>1 DEF Gentle, Held, ScaledDown
  <2>8. QED
    BY <2>1, <2>2, <2>3, <2>5, <2>6, <2>7, HeldFrame DEF Acting
<1>7. CASE CreateJob(p)
  <2>1. /\ at[p] = "createJob" /\ at'[p] = "waitJob"
        /\ stage'[p] = stage[p] /\ Local(p)
        /\ jobs'[d] = [jobs[d] EXCEPT ![cursor[p]] = "running"] /\ \A e \in Dir \ {d} : jobs'[e] = jobs[e]
        /\ mem'[p] = mem[p]
        /\ UNCHANGED <<kust, hr, release, inflight, outlived, apps, hpa, infra, lock, disk, backup, cursor>>
    BY <1>7, HeldHere DEF CreateJob, Goto, Local
  <2>2. /\ d \in Dir /\ mem[p] \in RunState /\ disk[d].steps[stage[p]] = "started"
        /\ mem[p].steps = disk[d].steps /\ mem[p].id = disk[d].id
        /\ mem[p].mode = disk[d].mode /\ mem[p].verified = disk[d].verified
    BY <2>1, ActsHere, HeldHere DEF BeforeBegin
  <2>3. stage[p] = "migrate" /\ disk[d].steps["migrate"] = "started"
    BY <2>1, <2>2, HeldHere DEF StepOf, BackupOnly, MigrateOnly, RolloutOnly
  <2>5. RunHeld(d)'
    <3>1. RunHeld(d)
      BY HeldHere
    <3>2. QED
      BY <2>1, <2>2, <2>3, <3>1 DEF RunHeld, FluxHeld, Held, AllJobs
  <2>6. ProcHeld(p)'
    <3>1. Loaded(p) /\ Suspending(p) /\ Saving(p) /\ Building(p) /\ Migrating(p)
      BY HeldHere DEF ProcHeld
    <3>2. Loaded(p)'
      BY <2>1, <2>2, <2>3, <3>1 DEF Loaded, BeforeBegin
    <3>3. Suspending(p)'
      BY <2>1, <2>2, <2>3, <3>1 DEF Suspending, PrepareOnly
    <3>4. Saving(p)' /\ Building(p)'
      BY <2>1, <2>2, <2>3, <3>1 DEF Saving, Building, Held
    <3>5. Migrating(p)'
      BY <2>1, <2>2, <2>3, HeldHere, BoundsAssumption, <3>1 DEF Migrating, AllJobs
    <3>6. QED
      BY <3>2, <3>3, <3>4, <3>5 DEF ProcHeld
  <2>7. at[p] \in RolloutOnly \/ Gentle
    BY <2>1 DEF Gentle, Held, ScaledDown
  <2>8. QED
    BY <2>1, <2>2, <2>3, <2>5, <2>6, <2>7, HeldFrame
<1>8. CASE WaitJob(p)
  <2>1. /\ at[p] = "waitJob" /\ at'[p] = (IF cursor[p] = NJobs THEN "migrateCheck" ELSE "createJob")
        /\ stage'[p] = stage[p] /\ Local(p)
        /\ cursor'[p] = (IF cursor[p] = NJobs THEN NJobs ELSE cursor[p] + 1)
        /\ \A q \in Proc \ {p} : cursor'[q] = cursor[q]
        /\ jobs[d][cursor[p]] = "complete"
        /\ mem'[p] = mem[p]
        /\ UNCHANGED <<kust, hr, release, inflight, outlived, apps, hpa, infra, lock, disk, jobs, backup>>
    BY <1>8, HeldHere DEF WaitJob, Goto, Local
  <2>2. /\ d \in Dir /\ mem[p] \in RunState /\ disk[d].steps[stage[p]] = "started"
        /\ mem[p].steps = disk[d].steps /\ mem[p].id = disk[d].id
        /\ mem[p].mode = disk[d].mode /\ mem[p].verified = disk[d].verified
    BY <2>1, ActsHere, HeldHere DEF BeforeBegin
  <2>3. stage[p] = "migrate" /\ disk[d].steps["migrate"] = "started"
    BY <2>1, <2>2, HeldHere DEF StepOf, BackupOnly, MigrateOnly, RolloutOnly
  <2>5. RunHeld(d)'
    <3>1. RunHeld(d)
      BY HeldHere
    <3>2. QED
      BY <2>1, <2>2, <2>3, <3>1 DEF RunHeld, FluxHeld, Held, AllJobs
  <2>6. ProcHeld(p)'
    <3>1. Loaded(p) /\ Suspending(p) /\ Saving(p) /\ Building(p) /\ Migrating(p)
      BY HeldHere DEF ProcHeld
    <3>2. Loaded(p)'
      BY <2>1, <2>2, <2>3, <3>1 DEF Loaded, BeforeBegin
    <3>3. Suspending(p)'
      BY <2>1, <2>2, <2>3, <3>1 DEF Suspending, PrepareOnly
    <3>4. Saving(p)' /\ Building(p)'
      BY <2>1, <2>2, <2>3, <3>1 DEF Saving, Building, Held
    <3>5. Migrating(p)'
      <4>1. cursor[p] \in 1..NJobs /\ NJobs \in Nat /\ jobs' = jobs
        BY <2>1, HeldHere, BoundsAssumption
      <4>2. \A i \in 1..NJobs \ {cursor[p]} : jobs[d][i] = IF i < cursor[p] THEN "complete" ELSE "absent"
        BY <2>1, <3>1 DEF Migrating
      <4>3. CASE cursor[p] = NJobs
        <5>1. AllJobs(d, "complete")
          BY <2>1, <4>1, <4>2, <4>3 DEF AllJobs
        <5>2. QED
          BY <2>1, <2>3, <4>1, <4>3, <5>1 DEF Migrating, AllJobs
      <4>4. CASE cursor[p] # NJobs
        <5>1. cursor'[p] = cursor[p] + 1 /\ at'[p] = "createJob"
          BY <2>1, <4>4
        <5>2. \A i \in 1..NJobs : jobs[d][i] = IF i < cursor[p] + 1 THEN "complete" ELSE "absent"
          BY <2>1, <4>1, <4>2
        <5>3. QED
          BY <2>1, <4>1, <5>1, <5>2 DEF Migrating
      <4>5. QED
        BY <4>3, <4>4
    <3>6. QED
      BY <3>2, <3>3, <3>4, <3>5 DEF ProcHeld
  <2>7. at[p] \in RolloutOnly \/ Gentle
    BY <2>1 DEF Gentle, Held, ScaledDown
  <2>8. QED
    BY <2>1, <2>2, <2>3, <2>5, <2>6, <2>7, HeldFrame
<1>9. CASE Install(p)
  <2>1. /\ at[p] = "install" /\ at'[p] = "resumeRelease"
        /\ stage'[p] = stage[p] /\ Local(p)
        /\ apps' = "running" /\ hpa' = TRUE
        /\ mem'[p] = mem[p]
        /\ UNCHANGED <<kust, hr, release, inflight, outlived, infra, lock, disk, jobs, backup, cursor>>
    BY <1>9, HeldHere DEF Install, Goto, Local
  <2>2. /\ d \in Dir /\ mem[p] \in RunState /\ disk[d].steps[stage[p]] = "started"
        /\ mem[p].steps = disk[d].steps /\ mem[p].id = disk[d].id
        /\ mem[p].mode = disk[d].mode /\ mem[p].verified = disk[d].verified
    BY <2>1, ActsHere, HeldHere DEF BeforeBegin
  <2>3. stage[p] = "rollout" /\ disk[d].steps["rollout"] = "started"
    BY <2>1, <2>2, HeldHere DEF StepOf, BackupOnly, MigrateOnly, RolloutOnly
  <2>5. RunHeld(d)'
    <3>1. RunHeld(d)
      BY HeldHere
    <3>2. QED
      BY <2>1, <2>2, <2>3, <3>1 DEF RunHeld, FluxHeld, Held, AllJobs, ScaledDown
  <2>6. ProcHeld(p)'
    <3>1. Loaded(p) /\ Suspending(p) /\ Saving(p) /\ Building(p) /\ Migrating(p)
      BY HeldHere DEF ProcHeld
    <3>2. Loaded(p)'
      BY <2>1, <2>2, <2>3, <3>1 DEF Loaded, BeforeBegin
    <3>3. Suspending(p)'
      BY <2>1, <2>2, <2>3, <3>1 DEF Suspending, PrepareOnly
    <3>4. Saving(p)' /\ Building(p)'
      BY <2>1, <2>2, <2>3, <3>1 DEF Saving, Building, Held
    <3>5. Migrating(p)'
      BY <2>1, <2>2, <2>3, <3>1 DEF Migrating, AllJobs
    <3>6. QED
      BY <3>2, <3>3, <3>4, <3>5 DEF ProcHeld
  <2>7. at[p] \in RolloutOnly \/ Gentle
    BY <2>1 DEF RolloutOnly
  <2>8. QED
    BY <2>1, <2>2, <2>3, <2>5, <2>6, <2>7, HeldFrame
<1>10. CASE ResumeRelease(p)
  <2>1. /\ at[p] = "resumeRelease" /\ at'[p] = "resumeOwners"
        /\ stage'[p] = stage[p] /\ Local(p)
        /\ hr' = FALSE /\ release' = "live"
        /\ mem'[p] = mem[p]
        /\ UNCHANGED <<kust, inflight, outlived, apps, hpa, infra, lock, disk, jobs, backup, cursor>>
    BY <1>10, HeldHere DEF ResumeRelease, Goto, Local
  <2>2. /\ d \in Dir /\ mem[p] \in RunState /\ disk[d].steps[stage[p]] = "started"
        /\ mem[p].steps = disk[d].steps /\ mem[p].id = disk[d].id
        /\ mem[p].mode = disk[d].mode /\ mem[p].verified = disk[d].verified
    BY <2>1, ActsHere, HeldHere DEF BeforeBegin
  <2>3. stage[p] = "rollout" /\ disk[d].steps["rollout"] = "started"
    BY <2>1, <2>2, HeldHere DEF StepOf, BackupOnly, MigrateOnly, RolloutOnly
  <2>5. RunHeld(d)'
    <3>1. RunHeld(d)
      BY HeldHere
    <3>2. QED
      BY <2>1, <2>2, <2>3, <3>1 DEF RunHeld, FluxHeld, Held, AllJobs
  <2>6. ProcHeld(p)'
    <3>1. Loaded(p) /\ Suspending(p) /\ Saving(p) /\ Building(p) /\ Migrating(p)
      BY HeldHere DEF ProcHeld
    <3>2. Loaded(p)'
      BY <2>1, <2>2, <2>3, <3>1 DEF Loaded, BeforeBegin
    <3>3. Suspending(p)'
      BY <2>1, <2>2, <2>3, <3>1 DEF Suspending, PrepareOnly
    <3>4. Saving(p)' /\ Building(p)'
      BY <2>1, <2>2, <2>3, <3>1 DEF Saving, Building, Held
    <3>5. Migrating(p)'
      BY <2>1, <2>2, <2>3, <3>1 DEF Migrating, AllJobs
    <3>6. QED
      BY <3>2, <3>3, <3>4, <3>5 DEF ProcHeld
  <2>7. at[p] \in RolloutOnly \/ Gentle
    BY <2>1 DEF RolloutOnly
  <2>8. QED
    BY <2>1, <2>2, <2>3, <2>5, <2>6, <2>7, HeldFrame
<1>11. CASE ResumeOwners(p)
  <2>1. /\ at[p] = "resumeOwners" /\ at'[p] = "rolloutStatus"
        /\ stage'[p] = stage[p] /\ Local(p)
        /\ kust' = (kust /\ ~mem[p].owners)
        /\ mem'[p] = mem[p]
        /\ UNCHANGED <<hr, release, inflight, outlived, apps, hpa, infra, lock, disk, jobs, backup, cursor>>
    BY <1>11, HeldHere DEF ResumeOwners, Goto, Local
  <2>2. /\ d \in Dir /\ mem[p] \in RunState /\ disk[d].steps[stage[p]] = "started"
        /\ mem[p].steps = disk[d].steps /\ mem[p].id = disk[d].id
        /\ mem[p].mode = disk[d].mode /\ mem[p].verified = disk[d].verified
    BY <2>1, ActsHere, HeldHere DEF BeforeBegin
  <2>3. stage[p] = "rollout" /\ disk[d].steps["rollout"] = "started"
    BY <2>1, <2>2, HeldHere DEF StepOf, BackupOnly, MigrateOnly, RolloutOnly
  <2>5. RunHeld(d)'
    <3>1. RunHeld(d)
      BY HeldHere
    <3>2. QED
      BY <2>1, <2>2, <2>3, <3>1 DEF RunHeld, FluxHeld, Held, AllJobs
  <2>6. ProcHeld(p)'
    <3>1. Loaded(p) /\ Suspending(p) /\ Saving(p) /\ Building(p) /\ Migrating(p)
      BY HeldHere DEF ProcHeld
    <3>2. Loaded(p)'
      BY <2>1, <2>2, <2>3, <3>1 DEF Loaded, BeforeBegin
    <3>3. Suspending(p)'
      BY <2>1, <2>2, <2>3, <3>1 DEF Suspending, PrepareOnly
    <3>4. Saving(p)' /\ Building(p)'
      BY <2>1, <2>2, <2>3, <3>1 DEF Saving, Building, Held
    <3>5. Migrating(p)'
      BY <2>1, <2>2, <2>3, <3>1 DEF Migrating, AllJobs
    <3>6. QED
      BY <3>2, <3>3, <3>4, <3>5 DEF ProcHeld
  <2>7. at[p] \in RolloutOnly \/ Gentle
    BY <2>1 DEF RolloutOnly
  <2>8. QED
    BY <2>1, <2>2, <2>3, <2>5, <2>6, <2>7, HeldFrame
<1>12. CASE DeleteLock(p)
  <2>1. /\ at[p] = "deleteLock" /\ at'[p] = "finish"
        /\ stage'[p] = stage[p] /\ Local(p)
        /\ lock' = NoRun
        /\ mem'[p] = mem[p]
        /\ UNCHANGED <<kust, hr, release, inflight, outlived, apps, hpa, infra, disk, jobs, backup, cursor>>
    BY <1>12, HeldHere DEF DeleteLock, Goto, Local
  <2>2. /\ d \in Dir /\ mem[p] \in RunState /\ disk[d].steps[stage[p]] = "started"
        /\ mem[p].steps = disk[d].steps /\ mem[p].id = disk[d].id
        /\ mem[p].mode = disk[d].mode /\ mem[p].verified = disk[d].verified
    BY <2>1, ActsHere, HeldHere DEF BeforeBegin
  <2>3. stage[p] = "verify" /\ disk[d].steps["verify"] = "started" /\ disk[d].id # NoRun
    <3>1. Acting(p)
      BY <2>1, HeldHere DEF Acting, StageOfStep, VerifyOnly
    <3>2. disk[d].id # NoRun
      BY <3>1, ActingHolds, HeldHere
    <3>3. QED
      BY <2>1, <2>2, <3>2, HeldHere DEF StageOfStep, VerifyOnly
  <2>5. RunHeld(d)'
    <3>1. RunHeld(d)
      BY HeldHere
    <3>2. QED
      BY <2>1, <2>2, <2>3, <3>1 DEF RunHeld, FluxHeld, Held, AllJobs
  <2>6. ProcHeld(p)'
    <3>1. Loaded(p) /\ Suspending(p) /\ Saving(p) /\ Building(p) /\ Migrating(p)
      BY HeldHere DEF ProcHeld
    <3>2. Loaded(p)'
      BY <2>1, <2>2, <2>3, <3>1 DEF Loaded, BeforeBegin
    <3>3. Suspending(p)'
      BY <2>1, <2>2, <2>3, <3>1 DEF Suspending, PrepareOnly
    <3>4. Saving(p)' /\ Building(p)'
      BY <2>1, <2>2, <2>3, <3>1 DEF Saving, Building, Held
    <3>5. Migrating(p)'
      BY <2>1, <2>2, <2>3, <3>1 DEF Migrating, AllJobs
    <3>6. QED
      BY <3>2, <3>3, <3>4, <3>5 DEF ProcHeld
  <2>7. at[p] \in RolloutOnly \/ Gentle
    BY <2>1 DEF Gentle, Held, ScaledDown
  <2>8. QED
    BY <2>1, <2>2, <2>3, <2>5, <2>6, <2>7, HeldFrame
<1>13. QED
  BY <1>1, <1>2, <1>3, <1>4, <1>5, <1>6, <1>7, <1>8, <1>9, <1>10, <1>11, <1>12 DEF StageHolds

-----------------------------------------------------------------------------
\* A stage begins after what it needs, and what it needs is on record.
LEMMA BeginHeld ==
    ASSUME OwnDirs, HoldInv, OneAtATime, RolloutInv', NEW p \in Proc, Begin(p)
    PROVE  HoldInv'
<1> DEFINE d == DirOf[p]
           s == stage[p]
           old == disk[d].steps
           new == disk'[d].steps
<1>1. /\ at[p] = "begin" /\ at'[p] = FirstStep(s) /\ stage'[p] = s /\ Local(p)
      /\ disk' = [disk EXCEPT ![d] = mem'[p]]
      /\ mem'[p].steps = [mem[p].steps EXCEPT ![s] = "started"]
      /\ mem'[p].mode = mem[p].mode /\ mem'[p].verified = mem[p].verified
      /\ s # "prepare" => mem'[p].id = mem[p].id
      /\ UNCHANGED <<kust, hr, release, inflight, outlived, apps, hpa, infra, lock, jobs, backup, cursor>>
  <2> DEFINE id == IF s = "prepare" THEN runs + 1 ELSE mem[p].id
             st == [mem[p] EXCEPT !.id = id, !.steps[s] = "started"]
  <2>1. /\ st.steps = [mem[p].steps EXCEPT ![s] = "started"]
        /\ st.mode = mem[p].mode /\ st.verified = mem[p].verified /\ st.id = id
    BY HeldHere DEF RunState
  <2>2. /\ at[p] = "begin" /\ at' = [at EXCEPT ![p] = FirstStep(s)] /\ UNCHANGED <<stage, cursor>>
        /\ mem' = [mem EXCEPT ![p] = st] /\ disk' = [disk EXCEPT ![d] = st]
        /\ UNCHANGED <<kust, hr, release, inflight, outlived, apps, hpa, infra, lock, jobs, backup>>
    BY DEF Begin, Goto, Checkpoint, Write, lockVars, fluxVars, appVars, dataVars
  <2> HIDE DEF st
  <2>3. mem'[p] = st /\ at'[p] = FirstStep(s) /\ Local(p)
    BY <2>2, HeldHere DEF Local
  <2>4. QED
    BY <2>1, <2>2, <2>3
<1>2. /\ d \in Dir /\ s \in Stage /\ disk'[d] = mem'[p]
      /\ \A e \in Dir \ {d} : disk'[e] = disk[e]
  BY <1>1, HeldHere
<1>3. /\ mem[p].steps = old /\ mem[p].id = disk[d].id /\ old \in [Stage -> Status]
      /\ old[s] = "none" /\ Ready(old, s)
  BY <1>1, <1>2, HeldHere DEF MemoryOf, BeforeBegin, Ready, RunState
<1>4. \A r \in Stage : new[r] = IF r = s THEN "started" ELSE old[r]
  BY <1>1, <1>2, <1>3
<1>5. {"prepare", "backup", "infrastructure", "migrate", "rollout", "verify"} \subseteq Stage
  BY DEF Stage
<1>6. /\ s = "backup" => old["prepare"] = "complete"
      /\ s = "infrastructure" => old["backup"] = "complete"
      /\ s = "migrate" => old["backup"] = "complete" /\ old["infrastructure"] = "complete"
      /\ s = "verify" => old["rollout"] = "complete"
  <2>1. /\ s = "backup" => "prepare" \in Needs(old, s)
        /\ s = "infrastructure" => "backup" \in Needs(old, s)
        /\ s = "migrate" => "backup" \in Needs(old, s) /\ "infrastructure" \in Needs(old, s)
        /\ s = "verify" => "rollout" \in Needs(old, s)
    BY DEF Needs, Stage, HeldStage
  <2>2. QED
    BY <1>3, <2>1 DEF Ready
<1>7. s = "prepare" => \A r \in Stage : old[r] = "none"
  BY <1>2, <1>3, HeldHere DEF Inv, FileOK
<1>8. s # "prepare" =>
         mem[p].mode = disk[d].mode /\ mem[p].verified = disk[d].verified /\ mem'[p].id = disk[d].id
  BY <1>1, <1>3, HeldHere DEF ProcHeld, Loaded
<1>9. RunHeld(d)'
  <2>1. CASE s = "prepare"
    <3>1. new["prepare"] = "started" /\ \A r \in Stage \ {"prepare"} : new[r] = "none"
      BY <1>4, <1>5, <1>7, <2>1
    <3>2. AllJobs(d, "absent")'
      BY <1>1, <1>5, <1>7, <2>1, HeldHere DEF RunHeld, AllJobs
    <3>3. QED
      BY <1>5, <3>1, <3>2 DEF RunHeld
  <2>2. CASE s # "prepare"
    <3>1. disk'[d].id = disk[d].id /\ disk'[d].mode = disk[d].mode /\ disk'[d].verified = disk[d].verified
      BY <1>1, <1>2, <1>8, <2>2
    <3>2. new["prepare"] = old["prepare"]
      BY <1>4, <1>5, <2>2
    <3>3. /\ new["backup"] # "none" => new["prepare"] = "complete"
          /\ new["infrastructure"] # "none" => disk'[d].mode = "fresh" \/ new["backup"] = "complete"
          /\ new["migrate"] # "none" => new["backup"] = "complete" /\ new["infrastructure"] = "complete"
          /\ new["verify"] # "none" => new["rollout"] = "complete"
      <4>1. RunHeld(d)
        BY HeldHere
      <4>2. QED
        BY <1>3, <1>4, <1>5, <1>6, <3>1, <3>2, <4>1 DEF RunHeld
    <3>4. \A r \in Stage : /\ new[r] = "complete" => old[r] = "complete"
                           /\ new[r] = "none" => old[r] = "none"
      BY <1>4
    <3>5. FluxHeld' = FluxHeld /\ Held' = Held /\ (AllJobs(d, "absent"))' = AllJobs(d, "absent")
          /\ (AllJobs(d, "complete"))' = AllJobs(d, "complete")
      BY <1>1 DEF FluxHeld, Held, AllJobs
    <3>6. RunHeld(d)
      BY HeldHere
    <3>7. /\ ~outlived /\ new["prepare"] = "complete" /\ new["rollout"] = "none" => FluxHeld
          /\ ~outlived /\ new["backup"] = "complete" /\ new["rollout"] = "none" => Held /\ backup[d] = "taken"
          /\ new["backup"] = "complete" => disk[d].verified
      BY <1>5, <3>4, <3>6 DEF RunHeld
    <3>8. /\ new["infrastructure"] = "complete" /\ lock = disk[d].id => infra = "new"
          /\ new["migrate"] = "none" => AllJobs(d, "absent")
          /\ new["migrate"] = "complete" => AllJobs(d, "complete")
      BY <1>5, <3>4, <3>6 DEF RunHeld
    <3>9. QED
      BY <1>1, <3>1, <3>3, <3>5, <3>7, <3>8 DEF RunHeld
  <2>3. QED
    BY <2>1, <2>2
<1>10. /\ FirstStep(s) \in {"suspendOwner", "backupHeld", "binary", "legacyCheck", "install", "capture", "script"}
       /\ FirstStep(s) = "legacyCheck" => s = "migrate"
  BY <1>2 DEF FirstStep, Stage, LogStage
<1>11. ProcHeld(p)'
  <2>1. Migrating(p) /\ RunHeld(d)
    BY HeldHere DEF ProcHeld
  <2>2. Loaded(p)' /\ Suspending(p)' /\ Saving(p)' /\ Building(p)'
    BY <1>1, <1>2, <1>10 DEF Loaded, Suspending, Saving, Building, PrepareOnly
  <2>3. FirstStep(s) = "legacyCheck" => AllJobs(d, "absent")
    BY <1>3, <1>10, <2>1 DEF RunHeld
  <2>4. Migrating(p)'
    BY <1>1, <1>10, <2>1, <2>3 DEF Migrating, AllJobs
  <2>5. QED
    BY <2>2, <2>4 DEF ProcHeld
<1>12. Gentle
  BY <1>1 DEF Gentle, Held
<1>13. QED
  BY <1>1, <1>2, <1>9, <1>11, <1>12, HeldFrame

\* What the stage was to leave behind is there when it is recorded as complete.
LEMMA FinishHeld ==
    ASSUME OwnDirs, HoldInv, OneAtATime, RolloutInv', NEW p \in Proc, Finish(p)
    PROVE  HoldInv'
<1> DEFINE d == DirOf[p]
           s == stage[p]
           old == disk[d].steps
           new == disk'[d].steps
           file == [mem[p] EXCEPT !.steps[stage[p]] = "complete"]
<1>1. /\ at[p] = "finish" /\ at'[p] = "idle" /\ cursor'[p] = 1 /\ Local(p)
      /\ \A q \in Proc \ {p} : cursor'[q] = cursor[q]
      /\ disk' = [disk EXCEPT ![d] = file] /\ outlived' = (outlived \/ (s = "prepare" /\ inflight))
      /\ UNCHANGED <<kust, hr, release, inflight, apps, hpa, infra, lock, jobs, backup>>
  BY HeldHere DEF Finish, Exit, Forget, Write, Local, lockVars, appVars, dataVars, countVars
<1>2. /\ d \in Dir /\ s \in Stage /\ mem[p].steps = old /\ mem[p].id = disk[d].id
      /\ mem[p].mode = disk[d].mode /\ mem[p].verified = disk[d].verified
      /\ old \in [Stage -> Status] /\ old[s] = "started"
  BY <1>1, ActsHere, HeldHere DEF BeforeBegin, RunState
<1>3. /\ file.steps = [old EXCEPT ![s] = "complete"] /\ file.id = disk[d].id
      /\ file.mode = disk[d].mode /\ file.verified = disk[d].verified
  BY <1>2, HeldHere DEF RunState
<1> HIDE DEF file
<1>4. /\ disk'[d].id = disk[d].id /\ disk'[d].mode = disk[d].mode /\ disk'[d].verified = disk[d].verified
      /\ \A e \in Dir \ {d} : disk'[e] = disk[e]
      /\ \A r \in Stage : new[r] = IF r = s THEN "complete" ELSE old[r]
  BY <1>1, <1>2, <1>3, HeldHere
<1>5. {"prepare", "backup", "infrastructure", "migrate", "rollout", "verify"} \subseteq Stage
  BY DEF Stage
<1>6. s = "prepare" /\ ~outlived' => FluxHeld
  <2>1. mem[p].mode \in {"fresh", "upgrade"}
    BY HeldHere DEF RunState
  <2>2. Suspending(p)
    BY HeldHere DEF ProcHeld
  <2>3. QED
    BY <1>1, <2>1, <2>2 DEF Suspending, FluxHeld
<1>7. s = "backup" => disk[d].verified /\ (~outlived => Held /\ backup[d] = "taken")
  <2>1. Saving(p)
    BY HeldHere DEF ProcHeld
  <2>2. QED
    BY <1>1, <2>1 DEF Saving
<1>8. s = "infrastructure" => infra = "new"
  <2>1. Building(p)
    BY HeldHere DEF ProcHeld
  <2>2. QED
    BY <1>1, <2>1 DEF Building
<1>9. s = "migrate" => AllJobs(d, "complete")
  <2>1. Migrating(p)
    BY HeldHere DEF ProcHeld
  <2>2. QED
    BY <1>1, <2>1 DEF Migrating
<1>10. RunHeld(d)'
  <2>1. RunHeld(d)
    BY HeldHere
  <2>2. /\ new["backup"] # "none" => new["prepare"] = "complete"
        /\ new["infrastructure"] # "none" => disk'[d].mode = "fresh" \/ new["backup"] = "complete"
        /\ new["migrate"] # "none" => new["backup"] = "complete" /\ new["infrastructure"] = "complete"
        /\ new["verify"] # "none" => new["rollout"] = "complete"
    BY <1>2, <1>4, <1>5, <2>1 DEF RunHeld
  <2>3. new["backup"] = "complete" => disk'[d].verified
    BY <1>2, <1>4, <1>5, <1>7, <2>1 DEF RunHeld
  <2>0. ~outlived' => ~outlived
    BY <1>1
  <2>4. ~outlived' /\ new["prepare"] = "complete" /\ new["rollout"] = "none" => FluxHeld
    BY <2>0, <1>2, <1>4, <1>5, <1>6, <2>1 DEF RunHeld
  <2>5. ~outlived' /\ new["backup"] = "complete" /\ new["rollout"] = "none" => Held /\ backup[d] = "taken"
    BY <2>0, <1>2, <1>4, <1>5, <1>7, <2>1 DEF RunHeld
  <2>6. new["infrastructure"] = "complete" /\ lock = disk[d].id => infra = "new"
    BY <1>2, <1>4, <1>5, <1>8, <2>1 DEF RunHeld
  <2>7. new["migrate"] = "none" => AllJobs(d, "absent")
    BY <1>2, <1>4, <1>5, <2>1 DEF RunHeld
  <2>8. new["migrate"] = "complete" => AllJobs(d, "complete")
    BY <1>2, <1>4, <1>5, <1>9, <2>1 DEF RunHeld
  <2>9. QED
    BY <1>1, <1>4, <2>2, <2>3, <2>4, <2>5, <2>6, <2>7, <2>8 DEF RunHeld, FluxHeld, Held, AllJobs
<1>11. ProcHeld(p)'
  BY <1>1 DEF ProcHeld, Loaded, Suspending, Saving, Building, Migrating, PrepareOnly
<1>12. Gentle
  BY <1>1 DEF Gentle, Held
<1>13. QED
  BY <1>1, <1>4, <1>10, <1>11, <1>12, HeldFrame

LEMMA GoneHeld ==
    ASSUME OwnDirs, HoldInv, OneAtATime, RolloutInv', NEW p \in Proc, Refuse(p) \/ Abort(p) \/ ScriptFails(p)
    PROVE  HoldInv'
<1>1. /\ at'[p] = "idle" /\ cursor'[p] = 1 /\ Local(p) /\ \A q \in Proc \ {p} : cursor'[q] = cursor[q]
      /\ HeldStill
  BY HeldHere DEF Refuse, Abort, ScriptFails, Exit, Forget, Local, HeldStill, diskVars, lockVars, fluxVars, appVars,
                  dataVars, countVars
<1>2. ProcHeld(p)'
  BY <1>1 DEF ProcHeld, Loaded, Suspending, Saving, Building, Migrating, PrepareOnly
<1>3. QED
  BY <1>1, <1>2, HeldQuiet

LEMMA InvokeHeld ==
    ASSUME OwnDirs, HoldInv, OneAtATime, RolloutInv', NEW p \in Proc,
           NEW s \in Stages, NEW m \in Modes, Invoke(p, s, m)
    PROVE  HoldInv'
<1> DEFINE d == DirOf[p]
<1>1. /\ at[p] = "idle" /\ stage'[p] = s /\ at'[p] = (IF s = "prepare" THEN "preflight" ELSE "lockcheck")
      /\ mem'[p] = (IF disk[d].id = NoRun THEN NewState(m) ELSE disk[d])
      /\ Ready(mem'[p].steps, s) /\ Local(p) /\ HeldStill /\ cursor' = cursor /\ s \in Stage
  BY HeldHere, DomainAssumption
     DEF Invoke, Local, HeldStill, diskVars, lockVars, fluxVars, appVars, dataVars
<1>2. s # "prepare" => mem'[p] = disk[d]
  <2> SUFFICES ASSUME s # "prepare", disk[d].id = NoRun PROVE FALSE
    BY <1>1
  <2>1. "prepare" \in Needs(mem'[p].steps, s)
    BY <1>1 DEF Needs, Stage
  <2>2. mem'[p].steps["prepare"] = "complete"
    BY <1>1, <2>1 DEF Ready
  <2>3. QED
    BY <1>1, <2>2 DEF NewState, Stage
<1>3. Migrating(p)
  BY HeldHere DEF ProcHeld
<1>4. ProcHeld(p)'
  BY <1>1, <1>2, <1>3
     DEF ProcHeld, Loaded, Suspending, Saving, Building, Migrating, PrepareOnly, BeforeBegin, HeldStill
<1>5. QED
  BY <1>1, <1>4, HeldQuiet

-----------------------------------------------------------------------------
\* While a run is prepared and has not begun to roll out, Flux finds both its
\* objects suspended; and a backup is taken in that time.
LEMMA BackupWhileHeld ==
    ASSUME HoldInv, NEW p \in Proc, stage[p] = "backup", at[p] \notin BeforeBegin \cup {"idle", "recordJobs"}
    PROVE  ~outlived => FluxHeld
<1> DEFINE s == disk[DirOf[p]].steps
<1>1. s["backup"] = "started"
  BY ActsHere
<1>2. RunHeld(DirOf[p]) /\ RunOK(DirOf[p])
  BY HeldHere
<1>3. s["prepare"] = "complete"
  BY <1>1, <1>2 DEF RunHeld
<1>4. s["rollout"] = "none"
  <2> SUFFICES ASSUME s["rollout"] # "none" PROVE FALSE
    OBVIOUS
  <2>1. s["migrate"] = "complete"
    BY <1>2 DEF RunOK
  <2>2. QED
    BY <1>1, <1>2, <2>1 DEF RunHeld
<1>5. QED
  BY <1>2, <1>3, <1>4 DEF RunHeld

\* Flux, the pods and the application change nothing that a run relies on.
LEMMA WorkloadHeld ==
    ASSUME HoldInv, RolloutInv',
           KustomizationReconciles \/ FluxStarts \/ FluxApplies \/ PodsTerminate \/ AppWrites
    PROVE  HoldInv'
<1>1. /\ UNCHANGED <<at, stage, mem, cursor, disk, infra, lock, jobs, release, kust>>
      /\ hr' = hr \/ (HasOwner /\ ~kust /\ release = "live")
      /\ inflight' => inflight \/ (release = "live" /\ ~hr)
      /\ (apps' = apps /\ hpa' = hpa) \/ apps = "draining" \/ inflight
      /\ backup' = backup \/ apps # "stopped"
      /\ outlived' = outlived
  <2>1. CASE KustomizationReconciles
    BY <2>1 DEF KustomizationReconciles, procVars, diskVars, lockVars, appVars, dataVars
  <2>2. CASE FluxStarts
    BY <2>2 DEF FluxStarts, procVars, diskVars, lockVars, appVars, dataVars
  <2>3. CASE FluxApplies
    BY <2>3 DEF FluxApplies, procVars, diskVars, lockVars, dataVars
  <2>4. CASE PodsTerminate
    BY <2>4 DEF PodsTerminate, procVars, diskVars, lockVars, fluxVars, dataVars
  <2>5. CASE AppWrites
    BY <2>5 DEF AppWrites, procVars, diskVars, lockVars, fluxVars, appVars
  <2>6. QED
    BY <2>1, <2>2, <2>3, <2>4, <2>5
<1>2. FluxHeld => FluxHeld' /\ (Held => Held' /\ backup' = backup)
  BY <1>1 DEF FluxHeld, Held
<1>3. ASSUME NEW d \in Dir PROVE RunHeld(d)'
  <2>1. RunHeld(d)
    BY DEF HoldInv
  <2>2. QED
    BY <1>1, <1>2, <2>1 DEF RunHeld, AllJobs
<1>4. ASSUME NEW p \in Proc PROVE ProcHeld(p)'
  <2>1. Loaded(p) /\ Suspending(p) /\ Saving(p) /\ Building(p) /\ Migrating(p) /\ StepOf(p)
    BY HeldHere DEF ProcHeld
  <2>2. Loaded(p)' /\ Building(p)' /\ Migrating(p)'
    BY <1>1, <2>1 DEF Loaded, Building, Migrating, AllJobs
  <2>3. Suspending(p)'
    <3>1. mem[p].mode \in {"fresh", "upgrade"}
      BY HeldHere DEF RunState
    <3>2. QED
      BY <1>1, <2>1, <3>1 DEF Suspending
  <2>4. Saving(p)'
    <3>1. at[p] \in {"dump", "freeze", "verifyBackup", "unfreeze"} \/ (at[p] = "finish" /\ stage[p] = "backup")
             => stage[p] = "backup" /\ at[p] \notin BeforeBegin \cup {"idle", "recordJobs"}
      BY <2>1 DEF StepOf, BackupOnly, BeforeBegin
    <3>2. QED
      BY <1>1, <1>2, <2>1, <3>1, BackupWhileHeld DEF Saving
  <2>5. QED
    BY <2>2, <2>3, <2>4 DEF ProcHeld
<1>5. QED
  BY <1>3, <1>4 DEF HoldInv

\* A Job ends while the stage that created it is on record as started.
LEMMA JobEndHeld ==
    ASSUME HoldInv, RolloutInv', NEW d \in Dir, NEW i \in 1..NJobs, NEW r \in {"complete", "failed"},
           JobEnds(d, i, r)
    PROVE  HoldInv'
<1>1. /\ UNCHANGED <<at, stage, mem, cursor, disk, infra, lock, backup, release, kust, hr, inflight, outlived, apps, hpa>>
      /\ jobs[d][i] = "running" /\ jobs' = [jobs EXCEPT ![d][i] = r]
  BY DEF JobEnds, procVars, diskVars, lockVars, fluxVars, appVars
<1>2. /\ \A e \in Dir \ {d} : jobs'[e] = jobs[e]
      /\ \A j \in 1..NJobs \ {i} : jobs'[d][j] = jobs[d][j]
  BY <1>1 DEF HoldInv, RolloutInv, Inv, Typed, TypeOK
<1>3. ~AllJobs(d, "absent") /\ ~AllJobs(d, "complete")
  BY <1>1 DEF AllJobs
<1>4. ASSUME NEW e \in Dir PROVE RunHeld(e)'
  <2>1. RunHeld(e)
    BY DEF HoldInv
  <2>2. CASE e = d
    BY <1>1, <1>3, <2>1, <2>2 DEF RunHeld, FluxHeld, Held
  <2>3. CASE e # d
    BY <1>1, <1>2, <2>1, <2>3 DEF RunHeld, FluxHeld, Held, AllJobs
  <2>4. QED
    BY <2>2, <2>3
<1>5. ASSUME NEW p \in Proc PROVE ProcHeld(p)'
  <2>1. Loaded(p) /\ Suspending(p) /\ Saving(p) /\ Building(p) /\ Migrating(p) /\ DirOf[p] \in Dir
    BY HeldHere DEF ProcHeld
  <2>2. Loaded(p)' /\ Suspending(p)' /\ Saving(p)' /\ Building(p)'
    BY <1>1, <2>1 DEF Loaded, Suspending, Saving, Building, Held
  <2>3. Migrating(p)'
    <3>1. CASE DirOf[p] # d
      <4>1. jobs'[DirOf[p]] = jobs[DirOf[p]]
        BY <1>2, <2>1, <3>1
      <4>2. QED
        BY <1>1, <2>1, <4>1 DEF Migrating, AllJobs
    <3>2. CASE DirOf[p] = d
      <4>1. /\ at[p] \notin {"legacyCheck", "heldAgain", "createJob", "migrateCheck"}
            /\ (at[p] = "holdInstall" \/ at[p] = "finish") => stage[p] # "migrate"
        BY <1>1, <1>3, <2>1, <3>2 DEF Migrating
      <4>2. at[p] = "waitJob" => i = cursor[p]
        BY <1>1, <2>1, <3>2 DEF Migrating
      <4>3. QED
        BY <1>1, <1>2, <2>1, <3>2, <4>1, <4>2 DEF Migrating
    <3>3. QED
      BY <3>1, <3>2
  <2>4. QED
    BY <2>2, <2>3 DEF ProcHeld
<1>6. QED
  BY <1>4, <1>5 DEF HoldInv

LEMMA InitHold == Init => HoldInv
<1> SUFFICES ASSUME Init PROVE HoldInv
  OBVIOUS
<1>1. {"prepare", "backup", "infrastructure", "migrate", "rollout", "verify"} \subseteq Stage
  BY DEF Stage
<1>2. \A d \in Dir : /\ \A s \in Stage : disk[d].steps[s] = "none"
                     /\ \A i \in 1..NJobs : jobs[d][i] = "absent"
  BY DEF Init, NewState
<1>3. \A d \in Dir : RunHeld(d)
  BY <1>1, <1>2 DEF RunHeld, AllJobs
<1>4. \A p \in Proc : at[p] = "idle" /\ cursor[p] = 1
  BY DEF Init
<1>5. \A p \in Proc : ProcHeld(p)
  BY <1>4 DEF ProcHeld, Loaded, Suspending, Saving, Building, Migrating, PrepareOnly
<1>6. QED
  BY <1>3, <1>5, InitRollout DEF HoldInv

LEMMA NextHold == ASSUME OwnDirs, HoldInv, OneAtATime, [Next]_vars PROVE HoldInv'
<1>1. RolloutInv'
  BY NextRollout DEF HoldInv
<1>2. ASSUME NEW p \in Proc, Advance(p) PROVE HoldInv'
  BY <1>1, <1>2, QuietHeld, PrepareHeld, StageHeld, BeginHeld, FinishHeld
     DEF Advance, PrepareStep, ProtectStep, MigrateStep, ReleaseStep, HeldQuietStep, PrepareHolds, StageHolds
<1>3. ASSUME NEW p \in Proc, Refuse(p) \/ Abort(p) \/ ScriptFails(p) PROVE HoldInv'
  BY <1>1, <1>3, GoneHeld
<1>4. ASSUME NEW p \in Proc, NEW s \in Stages, NEW m \in Modes, Invoke(p, s, m) PROVE HoldInv'
  BY <1>1, <1>4, InvokeHeld
<1>5. CASE ClusterStep
  BY <1>1, <1>5, WorkloadHeld, JobEndHeld DEF ClusterStep
<1>6. CASE UNCHANGED vars
  <2>1. UNCHANGED <<at, stage, mem, cursor, disk, jobs, backup, infra, lock, release, kust, hr, inflight, outlived, apps, hpa>>
    BY <1>6 DEF vars, procVars, diskVars, lockVars, fluxVars, appVars, dataVars
  <2>2. \A d \in Dir : RunHeld(d)'
    BY <2>1 DEF HoldInv, RunHeld, FluxHeld, Held, AllJobs
  <2>3. \A p \in Proc : ProcHeld(p)'
    BY <2>1 DEF HoldInv, ProcHeld, Loaded, Suspending, Saving, Building, Migrating, Held, AllJobs
  <2>4. QED
    BY <1>1, <2>2, <2>3 DEF HoldInv
<1>7. QED
  BY <1>2, <1>3, <1>4, <1>5, <1>6 DEF Next

LEMMA HoldInvariance == ASSUME OwnDirs PROVE Spec /\ []OneAtATime => []HoldInv
<1>1. HoldInv /\ OneAtATime /\ [Next]_vars => HoldInv'
  BY NextHold
<1>2. QED
  BY InitHold, <1>1, PTL DEF Spec

-----------------------------------------------------------------------------
\* Jobs are created, and the target specs changed, by these steps only.
LEMMA JobsCreated ==
    ASSUME [Next]_vars, NEW d \in Dir, NEW i \in 1..NJobs, jobs[d][i] = "absent", jobs'[d][i] # "absent"
    PROVE  \E p \in Proc : CreateJob(p)
<1> USE DEF procVars, diskVars, lockVars, fluxVars, appVars, dataVars, countVars
<1>1. ASSUME NEW p \in Proc, Advance(p) PROVE CreateJob(p) \/ jobs' = jobs
  <2>1. CASE Preflight(p) \/ CheckLock(p) \/ CheckHeld(p) \/ Begin(p) \/ Finish(p)
    BY <2>1 DEF Preflight, CheckLock, CheckHeld, Begin, Finish
  <2>2. CASE PrepareStep(p)
    BY <2>2 DEF PrepareStep, SuspendOwner, SuspendRelease, RecordNamespace, TakeLock, DeleteHpa, Scale,
                WaitDrained, Bootstrap, RecordJobs, HoldInstall, CreatePod
  <2>3. CASE ProtectStep(p)
    BY <2>3 DEF ProtectStep, BackupHeld, Dump, FreezeTables, VerifyBackup, Unfreeze, PatchBinary, ApplyTargets,
                RunScript
  <2>4. CASE MigrateStep(p)
    BY <2>4 DEF MigrateStep, LegacyCheck, HeldAgain, WaitJob, MigrateCheck
  <2>5. CASE ReleaseStep(p)
    BY <2>5 DEF ReleaseStep, Install, ResumeRelease, ResumeOwners, RolloutStatus, Capture, Align, DeletePod,
                DeleteLock
  <2>6. QED
    BY <1>1, <2>1, <2>2, <2>3, <2>4, <2>5 DEF Advance
<1>2. ASSUME NEW p \in Proc, Refuse(p) \/ Abort(p) \/ ScriptFails(p) PROVE jobs' = jobs
  BY <1>2 DEF Refuse, Abort, ScriptFails
<1>3. ASSUME NEW p \in Proc, NEW s \in Stages, NEW m \in Modes, Invoke(p, s, m) PROVE jobs' = jobs
  BY <1>3 DEF Invoke
<1>4. ASSUME NEW e \in Dir, NEW j \in 1..NJobs, NEW r \in {"complete", "failed"}, JobEnds(e, j, r)
      PROVE  jobs'[d][i] = jobs[d][i]
  BY <1>4 DEF JobEnds
<1>5. CASE KustomizationReconciles \/ FluxStarts \/ FluxApplies \/ PodsTerminate \/ AppWrites
  BY <1>5 DEF KustomizationReconciles, FluxStarts, FluxApplies, PodsTerminate, AppWrites
<1>6. CASE UNCHANGED vars
  BY <1>6 DEF vars
<1>7. QED
  BY <1>1, <1>2, <1>3, <1>4, <1>5, <1>6 DEF Next, ClusterStep

LEMMA TargetsChanged ==
    ASSUME [Next]_vars, infra' # infra
    PROVE  \E p \in Proc : (Bootstrap(p) /\ ~Live(p)) \/ PatchBinary(p) \/ ApplyTargets(p)
<1> USE DEF procVars, diskVars, lockVars, fluxVars, appVars, dataVars, countVars
<1>1. ASSUME NEW p \in Proc, Advance(p)
      PROVE  (Bootstrap(p) /\ ~Live(p)) \/ PatchBinary(p) \/ ApplyTargets(p)
  <2>1. CASE Preflight(p) \/ CheckLock(p) \/ CheckHeld(p) \/ Begin(p) \/ Finish(p)
    BY <2>1 DEF Preflight, CheckLock, CheckHeld, Begin, Finish
  <2>2. CASE PrepareStep(p)
    BY <2>2 DEF PrepareStep, SuspendOwner, SuspendRelease, RecordNamespace, TakeLock, DeleteHpa, Scale,
                WaitDrained, Bootstrap, RecordJobs, HoldInstall, CreatePod
  <2>3. CASE ProtectStep(p)
    BY <2>3 DEF ProtectStep, BackupHeld, Dump, FreezeTables, VerifyBackup, Unfreeze, RunScript
  <2>4. CASE MigrateStep(p)
    BY <2>4 DEF MigrateStep, LegacyCheck, HeldAgain, CreateJob, WaitJob, MigrateCheck
  <2>5. CASE ReleaseStep(p)
    BY <2>5 DEF ReleaseStep, Install, ResumeRelease, ResumeOwners, RolloutStatus, Capture, Align, DeletePod,
                DeleteLock
  <2>6. QED
    BY <1>1, <2>1, <2>2, <2>3, <2>4, <2>5 DEF Advance
<1>2. ASSUME NEW p \in Proc, Refuse(p) \/ Abort(p) \/ ScriptFails(p) PROVE FALSE
  BY <1>2 DEF Refuse, Abort, ScriptFails
<1>3. ASSUME NEW p \in Proc, NEW s \in Stages, NEW m \in Modes, Invoke(p, s, m) PROVE FALSE
  BY <1>3 DEF Invoke
<1>4. ~ClusterStep
  BY DEF ClusterStep, KustomizationReconciles, FluxStarts, FluxApplies, PodsTerminate, AppWrites, JobEnds
<1>5. ~UNCHANGED vars
  BY DEF vars
<1>6. QED
  BY <1>1, <1>2, <1>3, <1>4, <1>5 DEF Next

\* A run that is migrating has its verified backup, and has not begun to roll out.
LEMMA MigratingRun ==
    ASSUME HoldInv, NEW d \in Dir, disk[d].steps["migrate"] = "started"
    PROVE  /\ disk[d].verified /\ disk[d].steps["infrastructure"] = "complete"
           /\ ~outlived => backup[d] = "taken" /\ Held /\ FluxHeld
<1>1. RunHeld(d) /\ RunOK(d)
  BY DEF HoldInv, RolloutInv
<1>2. disk[d].steps["rollout"] = "none"
  BY <1>1 DEF RunOK
<1>3. QED
  BY <1>1, <1>2 DEF RunHeld

\* From the first migration Job to the last, even when the runner that created it is
\* gone, no application pod runs and neither Flux nor an autoscaler can bring one
\* back, as long as no second run is begun before the first is verified and no
\* reconciliation under way at the suspension has outlived prepare.
THEOREM WritersHeld == ASSUME OwnDirs PROVE Spec /\ []OneAtATime => []WritersHeldDuringJobs
<1>1. ASSUME HoldInv PROVE WritersHeldDuringJobs
  <2> SUFFICES ASSUME NEW d \in Dir, NEW i \in 1..NJobs, jobs[d][i] = "running"
               PROVE  ~outlived => Held /\ FluxHeld
    BY DEF WritersHeldDuringJobs, FluxHeld
  <2>1. RunHeld(d) /\ disk[d].steps["migrate"] \in Status
    BY <1>1 DEF HoldInv, RolloutInv, Inv, Typed, TypeOK, RunState, Stage
  <2>2. ~AllJobs(d, "absent") /\ ~AllJobs(d, "complete")
    BY DEF AllJobs
  <2>3. disk[d].steps["migrate"] = "started"
    BY <2>1, <2>2 DEF RunHeld, Status
  <2>4. QED
    BY <1>1, <2>3, MigratingRun
<1>2. QED
  BY <1>1, HoldInvariance, PTL

\* A guarded hook Job is created only by a run with a verified backup, on the target
\* infrastructure, for any number of Jobs, failures and runs one after the other;
\* and the backup misses no application write unless a reconciliation outlived prepare.
THEOREM MigrationIsCovered == ASSUME OwnDirs PROVE Spec /\ []OneAtATime => BackupCoversMigration
<1> DEFINE Covered == \A d \in Dir, i \in 1..NJobs :
                         jobs[d][i] = "absent" /\ jobs'[d][i] # "absent" =>
                            /\ disk[d].verified /\ infra = "new"
                            /\ ~outlived => backup[d] = "taken"
<1>1. ASSUME HoldInv, [Next]_vars PROVE Covered
  <2> SUFFICES ASSUME NEW d \in Dir, NEW i \in 1..NJobs, jobs[d][i] = "absent", jobs'[d][i] # "absent"
               PROVE  disk[d].verified /\ infra = "new" /\ (~outlived => backup[d] = "taken")
    OBVIOUS
  <2>1. PICK p \in Proc : CreateJob(p)
    BY <1>1, JobsCreated
  <2>2. at[p] = "createJob" /\ jobs' = [jobs EXCEPT ![DirOf[p]][cursor[p]] = "running"]
    BY <2>1 DEF CreateJob
  <2>3. d = DirOf[p]
    BY <1>1, <2>2, HeldHere
  <2>4. stage[p] = "migrate" /\ disk[d].steps["migrate"] = "started"
    <3>1. StepOf(p)
      BY <1>1, HeldHere
    <3>2. stage[p] = "migrate"
      BY <2>2, <3>1 DEF StepOf, MigrateOnly
    <3>3. QED
      BY <1>1, <2>2, <2>3, <3>2, ActsHere DEF BeforeBegin
  <2>5. /\ disk[d].verified /\ disk[d].steps["infrastructure"] = "complete"
        /\ ~outlived => backup[d] = "taken"
    BY <1>1, <2>4, MigratingRun
  <2>6. lock = disk[d].id
    <3>1. Acting(p)
      BY <2>2, <2>4 DEF Acting
    <3>2. QED
      BY <1>1, <2>3, <3>1, ActingHolds, HeldHere
  <2>7. RunHeld(d)
    BY <1>1 DEF HoldInv
  <2>8. QED
    BY <2>5, <2>6, <2>7 DEF RunHeld
<1>2. QED
  BY <1>1, HoldInvariance, PTL DEF Spec, BackupCoversMigration

\* Stateful specs change only by the run that holds the lock and, where they existed
\* before, only once its backup is verified, in which everything they store is unless
\* a reconciliation outlived prepare.
THEOREM TargetsAreCovered == ASSUME OwnDirs PROVE Spec /\ []OneAtATime => BackupCoversTargets
<1> DEFINE Covered == infra' # infra =>
                         \E d \in Dir : /\ disk[d].id = lock
                                        /\ \/ disk[d].mode = "fresh"
                                           \/ disk[d].verified /\ (~outlived => backup[d] = "taken")
<1>1. ASSUME HoldInv, [Next]_vars PROVE Covered
  <2> SUFFICES ASSUME infra' # infra
               PROVE  \E d \in Dir : /\ disk[d].id = lock
                                     /\ \/ disk[d].mode = "fresh"
                                        \/ disk[d].verified /\ (~outlived => backup[d] = "taken")
    OBVIOUS
  <2>1. PICK p \in Proc : (Bootstrap(p) /\ ~Live(p)) \/ PatchBinary(p) \/ ApplyTargets(p)
    BY <1>1, TargetsChanged
  <2> DEFINE d == DirOf[p]
  <2>2. CASE Bootstrap(p) /\ ~Live(p)
    <3>1. at[p] = "bootstrap" /\ Acting(p)
      BY <2>2 DEF Bootstrap, Acting
    <3>2. d \in Dir /\ disk[d].id = lock
      BY <1>1, <3>1, ActingHolds, HeldHere
    <3>3. mem[p].mode = disk[d].mode /\ mem[p].mode \in {"fresh", "upgrade"}
      BY <1>1, <3>1, ActsHere, HeldHere DEF BeforeBegin, RunState
    <3>4. QED
      BY <2>2, <3>2, <3>3 DEF Live
  <2>3. CASE PatchBinary(p) \/ ApplyTargets(p)
    <3>1. at[p] \in {"binary", "targets"}
      BY <2>3 DEF PatchBinary, ApplyTargets
    <3>2. stage[p] = "infrastructure" /\ disk[d].steps["infrastructure"] = "started"
      <4>1. StepOf(p)
        BY <1>1, HeldHere
      <4>2. stage[p] = "infrastructure"
        BY <3>1, <4>1 DEF StepOf
      <4>3. QED
        BY <1>1, <3>1, <4>2, ActsHere DEF BeforeBegin
    <3>3. Acting(p)
      BY <3>1, <3>2 DEF Acting
    <3>4. d \in Dir /\ disk[d].id = lock
      BY <1>1, <3>3, ActingHolds, HeldHere
    <3>5. RunHeld(d) /\ RunOK(d)
      BY <1>1, HeldHere
    <3>6. disk[d].steps["rollout"] = "none"
      <4> SUFFICES ASSUME disk[d].steps["rollout"] # "none" PROVE FALSE
        OBVIOUS
      <4>1. disk[d].steps["migrate"] = "complete"
        BY <3>5 DEF RunOK
      <4>2. QED
        BY <3>2, <3>5, <4>1 DEF RunHeld
    <3>7. disk[d].mode = "fresh" \/ (disk[d].verified /\ (~outlived => backup[d] = "taken"))
      BY <3>2, <3>5, <3>6 DEF RunHeld
    <3>8. QED
      BY <3>4, <3>7
  <2>4. QED
    BY <2>1, <2>2, <2>3
<1>2. QED
  BY <1>1, HoldInvariance, PTL DEF Spec, BackupCoversTargets

=============================================================================
