--------------------------- MODULE HubRolloutProofs ---------------------------
(***************************************************************************)
(* What a completed rollout leaves behind: a move of the legacy logs that   *)
(* was begun is finalized and not reopened, and Flux runs again.            *)
(*                                                                          *)
(* Stages after the rollout are refused one by one for different reasons:   *)
(* those on record by the state file, the logs stages because a running     *)
(* application does not pass for held, and all of them once verify has      *)
(* given up the lock.                                                       *)
(***************************************************************************)
EXTENDS HubDeployProofs

BackupOnly  == {"backupHeld", "dump", "freeze", "verifyBackup", "unfreeze"}
MigrateOnly == {"legacyCheck", "heldAgain", "createJob", "waitJob", "migrateCheck"}
RolloutOnly == {"install", "resumeRelease", "resumeOwners", "rolloutStatus"}

\* The rest of the control flow that ties a step to its stage.
StepOf(p) ==
    /\ at[p] \in BackupOnly => stage[p] = "backup"
    /\ at[p] \in {"binary", "targets"} => stage[p] = "infrastructure"
    /\ at[p] \in MigrateOnly => stage[p] = "migrate"
    /\ at[p] = "holdInstall" => stage[p] \in {"prepare", "migrate"}
    /\ at[p] \in RolloutOnly => stage[p] = "rollout"
    /\ at[p] = "heldcheck" => stage[p] \in HeldStage

\* The journal's phases after the tables have moved.
Moved == {"structural_complete", "starting_consumers", "consumers_complete",
          "draining", "drained", "verified", "finalizing", "finalized"}

LogsDone(steps) == steps["logs:reconcile"] # "none" => steps["logs:finalize"] = "complete"

\* No other run has begun to prepare: what is suspended, d suspended.
Sole(d) == \A e \in Dir \ {d} : begun[e]["prepare"] = 0

RunOK(d) ==
    LET s == disk[d].steps
    IN /\ s["rollout"] # "none" => s["prepare"] = "complete" /\ s["migrate"] = "complete"
       /\ s["rollout"] = "complete" => LogsDone(s) /\ (lock = disk[d].id => apps = "running")
       /\ s["logs:finalize"] = "complete" => journal[d] = "finalized"
       /\ journal[d] \in Moved => legacy = "moved"
       /\ s["prepare"] # "none" => begun[d]["prepare"] # 0

\* Who has suspended the owner is recorded, and a rollout resumes both.
SuspensionOK(d) ==
    LET s == disk[d].steps
    IN Sole(d) => /\ s["prepare"] = "none" => ~kust
                  /\ s["prepare"] = "complete" /\ kust => disk[d].owners
                  /\ s["rollout"] = "complete" => ~hr /\ ~kust

StageOK(p) ==
    LET file == disk[DirOf[p]]
    IN /\ StepOf(p)
       /\ at[p] = "begin" /\ stage[p] \in HeldStage => file.steps["rollout"] # "complete"
       /\ at[p] \in RolloutOnly \/ (at[p] = "finish" /\ stage[p] = "rollout") => LogsDone(file.steps)
       /\ at[p] = "finish" /\ stage[p] = "rollout" => apps = "running"
       /\ at[p] = "finish" /\ stage[p] = "logs:finalize" => journal[DirOf[p]] = "finalized"

ResumeOK(p) ==
    /\ at[p] # "idle" /\ stage[p] # "prepare" => mem[p].owners = disk[DirOf[p]].owners
    /\ Sole(DirOf[p]) =>
          /\ at[p] = "suspendOwner" => ~kust
          /\ /\ at[p] \in (PrepareOnly \ {"suspendOwner"}) \cup {"holdInstall", "finish"}
             /\ stage[p] = "prepare" /\ kust
             => mem[p].owners
          /\ at[p] \in {"resumeOwners", "rolloutStatus"} \/ (at[p] = "finish" /\ stage[p] = "rollout") => ~hr
          /\ at[p] = "rolloutStatus" \/ (at[p] = "finish" /\ stage[p] = "rollout") => ~kust

RolloutInv ==
    /\ Inv
    /\ \A d \in Dir : RunOK(d) /\ SuspensionOK(d)
    /\ \A p \in Proc : StageOK(p) /\ ResumeOK(p)

-----------------------------------------------------------------------------
\* What holds of process p, and the sets the steps belong to.
LEMMA Here ==
    ASSUME RolloutInv, NEW p \in Proc
    PROVE  /\ DirOf[p] \in Dir /\ StageOfStep(p) /\ MemoryOf(p) /\ StageOK(p) /\ ResumeOK(p)
           /\ RunOK(DirOf[p]) /\ SuspensionOK(DirOf[p]) /\ stage[p] \in Stage
           /\ at \in [Proc -> Steps] /\ mem \in [Proc -> RunState] /\ disk \in [Dir -> RunState]
           /\ stage \in [Proc -> Stage]
           /\ (at[p] = "script" => stage[p] \in LogStage)
  BY DirTyped DEF RolloutInv, Inv, ProcOK, Typed, TypeOK, ScriptStage

LEMMA Preparing ==
    ASSUME RolloutInv, NEW p \in Proc, at[p] \in PrepareOnly
    PROVE  /\ disk[DirOf[p]].steps["prepare"] = "started" /\ disk[DirOf[p]].steps["rollout"] = "none"
           /\ stage[p] = "prepare"
  <1>1. stage[p] = "prepare" /\ disk[DirOf[p]].steps["prepare"] = "started"
    BY Here DEF StageOfStep, MemoryOf, BeforeBegin, PrepareOnly
  <1>2. RunOK(DirOf[p])
    BY Here
  <1> QED
    BY <1>1, <1>2 DEF RunOK

\* A step of p touches only its own run's files, stops the application only while
\* it holds the lock, and suspends Flux only in prepare: the other processes and
\* runs notice nothing.
LEMMA Frame ==
    ASSUME OwnDirs, RolloutInv, Inv', NEW p \in Proc, Local(p),
           \A d \in Dir \ {DirOf[p]} :
               disk'[d] = disk[d] /\ journal'[d] = journal[d] /\ begun'[d] = begun[d],
           begun[DirOf[p]]["prepare"] # 0 => begun'[DirOf[p]]["prepare"] # 0,
           apps' = apps \/ apps' = "running" \/ Acting(p),
           ((kust' => kust) /\ (hr' => hr)) \/ at[p] \in PrepareOnly,
           lock' = lock \/ lock' = NoRun \/ lock' = disk'[DirOf[p]].id,
           legacy = "moved" => legacy' = "moved",
           RunOK(DirOf[p])', SuspensionOK(DirOf[p])', StageOK(p)', ResumeOK(p)'
    PROVE  RolloutInv'
  <1> DEFINE dp == DirOf[p]
  <1>1. \A d \in Dir : Sole(d)' => Sole(d)
    BY Here DEF Sole
  <1>2. ASSUME NEW d \in Dir, d # dp, Sole(d)' PROVE (kust' => kust) /\ (hr' => hr)
    <2>1. at[p] \notin PrepareOnly
      <3> SUFFICES ASSUME at[p] \in PrepareOnly PROVE FALSE
        OBVIOUS
      <3>1. disk[dp].steps["prepare"] = "started"
        BY Preparing
      <3>2. begun[dp]["prepare"] # 0
        BY <3>1, Here DEF RunOK
      <3> QED
        BY <1>1, <1>2, <3>2, Here DEF Sole
    <2> QED
      BY <2>1
  <1>3. ASSUME NEW d \in Dir, d # dp PROVE RunOK(d)' /\ SuspensionOK(d)'
    <2>1. disk'[d] = disk[d] /\ journal'[d] = journal[d] /\ begun'[d] = begun[d] /\ RunOK(d) /\ SuspensionOK(d)
      BY <1>3 DEF RolloutInv
    <2>2. ASSUME disk[d].steps["rollout"] = "complete", lock' = disk[d].id PROVE apps' = "running"
      <3>1. disk[d].steps["prepare"] = "complete"
        BY <2>1, <2>2 DEF RunOK
      <3>2. disk[d].id # NoRun
        BY <3>1 DEF RolloutInv, Inv, FileOK
      <3>3. lock' = lock
        BY <1>3, <2>1, <2>2, <3>2, Here DEF Inv, UniqueIds
      <3>4. ~Acting(p)
        <4> SUFFICES ASSUME Acting(p) PROVE FALSE
          OBVIOUS
        <4>1. lock = disk[dp].id /\ dp \in Dir
          BY ActingHolds, Here DEF RolloutInv
        <4>2. disk[d].id = disk[dp].id
          BY <2>2, <3>3, <4>1
        <4> QED
          BY <1>3, <3>2, <4>1, <4>2 DEF RolloutInv, Inv, UniqueIds
      <3> QED
        BY <2>1, <2>2, <3>3, <3>4 DEF RunOK
    <2>3. RunOK(d)'
      BY <2>1, <2>2 DEF RunOK, LogsDone
    <2>4. SuspensionOK(d)'
      BY <1>1, <1>2, <1>3, <2>1 DEF SuspensionOK
    <2> QED
      BY <2>3, <2>4
  <1>4. ASSUME NEW q \in Proc, q # p PROVE StageOK(q)' /\ ResumeOK(q)'
    <2>1. DirOf[q] \in Dir /\ DirOf[q] # dp
      BY <1>4, DirTyped DEF OwnDirs
    <2>2. /\ at'[q] = at[q] /\ stage'[q] = stage[q] /\ mem'[q] = mem[q]
          /\ disk'[DirOf[q]] = disk[DirOf[q]] /\ journal'[DirOf[q]] = journal[DirOf[q]]
          /\ StageOK(q) /\ ResumeOK(q)
      BY <1>4, <2>1 DEF Local, RolloutInv
    <2>3. ASSUME at[q] = "finish", stage[q] = "rollout" PROVE apps' = "running"
      <3>1. Acting(q) /\ apps = "running"
        BY <2>2, <2>3 DEF Acting, StageOK
      <3>2. ~Acting(p)
        BY <1>4, <3>1, OneActor DEF RolloutInv
      <3> QED
        BY <3>1, <3>2
    <2>4. StageOK(q)'
      BY <2>2, <2>3 DEF StageOK, StepOf, LogsDone
    <2>5. ResumeOK(q)'
      BY <1>1, <1>2, <2>1, <2>2 DEF ResumeOK
    <2> QED
      BY <2>4, <2>5
  <1> QED
    BY <1>3, <1>4 DEF RolloutInv

\* What the invariant says of the run of p, when only p moves on.
Unmoved == UNCHANGED <<disk, journal, begun, lock, apps, legacy, kust, hr>>

LEMMA Quiet ==
    ASSUME OwnDirs, RolloutInv, Inv', NEW p \in Proc, Local(p), Unmoved, StageOK(p)', ResumeOK(p)'
    PROVE  RolloutInv'
  <1>1. RunOK(DirOf[p])' /\ SuspensionOK(DirOf[p])'
    BY Here DEF Unmoved, RunOK, SuspensionOK, LogsDone, Sole
  <1> QED
    BY <1>1, Frame DEF Unmoved

LEMMA Leaving ==
    ASSUME OwnDirs, RolloutInv, Inv', NEW p \in Proc, Local(p), at'[p] = "idle"
    PROVE  StageOK(p)' /\ ResumeOK(p)'
  BY DEF StageOK, StepOf, ResumeOK, BackupOnly, MigrateOnly, RolloutOnly, PrepareOnly

\* Steps that change nothing the invariant speaks of but where p is.
QuietStep(p) ==
    \/ Preflight(p) \/ WaitDrained(p) \/ DeleteHpa(p) \/ Bootstrap(p) \/ CreatePod(p)
    \/ BackupHeld(p) \/ Dump(p) \/ Unfreeze(p) \/ PatchBinary(p) \/ ApplyTargets(p)
    \/ LegacyCheck(p) \/ HeldAgain(p) \/ CreateJob(p) \/ MigrateCheck(p) \/ RolloutStatus(p)
    \/ Capture(p) \/ Align(p) \/ DeletePod(p)
    \/ CheckLock(p) \/ CheckHeld(p) \/ WaitJob(p)

LEMMA QuietKeeps ==
    ASSUME OwnDirs, RolloutInv, Inv', NEW p \in Proc, QuietStep(p)
    PROVE  RolloutInv'
  <1>1. CASE Preflight(p)
    <2>1. /\ at[p] = "preflight" /\ at'[p] = "begin" /\ stage'[p] = stage[p] /\ Local(p) /\ Unmoved
          /\ mem'[p].owners = mem[p].owners
      BY <1>1, Here DEF Preflight, Goto, Local, Unmoved, RunState, procVars, diskVars, lockVars, fluxVars, appVars, dataVars, countVars
    <2>2. StageOK(p)' /\ ResumeOK(p)'
      BY <2>1, Here DEF StageOK, StepOf, ResumeOK, LogsDone, StageOfStep, BackupOnly, MigrateOnly, RolloutOnly, PrepareOnly, OtherStages, Unmoved, Sole, HeldStage, LogStage
    <2> QED
      BY <2>1, <2>2, Quiet
  <1>2. CASE WaitDrained(p)
    <2>1. /\ at[p] = "drain" /\ at'[p] = "bootstrap" /\ stage'[p] = stage[p] /\ Local(p) /\ Unmoved
          /\ mem'[p].owners = mem[p].owners
      BY <1>2, Here DEF WaitDrained, Goto, Local, Unmoved, RunState, procVars, diskVars, lockVars, fluxVars, appVars, dataVars, countVars
    <2>2. StageOK(p)' /\ ResumeOK(p)'
      BY <2>1, Here DEF StageOK, StepOf, ResumeOK, LogsDone, BackupOnly, MigrateOnly, RolloutOnly, PrepareOnly, Unmoved, Sole
    <2> QED
      BY <2>1, <2>2, Quiet
  <1>3. CASE DeleteHpa(p)
    <2>1. /\ at[p] = "deleteHpa" /\ at'[p] = "scale" /\ stage'[p] = stage[p] /\ Local(p) /\ Unmoved
          /\ mem'[p].owners = mem[p].owners
      BY <1>3, Here DEF DeleteHpa, Goto, Local, Unmoved, RunState, procVars, diskVars, lockVars, fluxVars, appVars, dataVars, countVars
    <2>2. StageOK(p)' /\ ResumeOK(p)'
      BY <2>1, Here DEF StageOK, StepOf, ResumeOK, LogsDone, BackupOnly, MigrateOnly, RolloutOnly, PrepareOnly, Unmoved, Sole
    <2> QED
      BY <2>1, <2>2, Quiet
  <1>4. CASE Bootstrap(p)
    <2>1. /\ at[p] = "bootstrap" /\ at'[p] = "recordJobs" /\ stage'[p] = stage[p] /\ Local(p) /\ Unmoved
          /\ mem'[p].owners = mem[p].owners
      BY <1>4, Here DEF Bootstrap, Goto, Local, Unmoved, RunState, procVars, diskVars, lockVars, fluxVars, appVars, dataVars, countVars
    <2>2. StageOK(p)' /\ ResumeOK(p)'
      BY <2>1, Here DEF StageOK, StepOf, ResumeOK, LogsDone, BackupOnly, MigrateOnly, RolloutOnly, PrepareOnly, Unmoved, Sole
    <2> QED
      BY <2>1, <2>2, Quiet
  <1>5. CASE CreatePod(p)
    <2>1. /\ at[p] = "createPod" /\ at'[p] = "finish" /\ stage'[p] = stage[p] /\ Local(p) /\ Unmoved
          /\ mem'[p].owners = mem[p].owners
      BY <1>5, Here DEF CreatePod, Goto, Local, Unmoved, RunState, procVars, diskVars, lockVars, fluxVars, appVars, dataVars, countVars
    <2>2. StageOK(p)' /\ ResumeOK(p)'
      BY <2>1, Here DEF StageOK, StepOf, ResumeOK, LogsDone, StageOfStep, BackupOnly, MigrateOnly, RolloutOnly, PrepareOnly, OtherStages, Unmoved, Sole
    <2> QED
      BY <2>1, <2>2, Quiet
  <1>6. CASE BackupHeld(p)
    <2>1. /\ at[p] = "backupHeld" /\ at'[p] = "dump" /\ stage'[p] = stage[p] /\ Local(p) /\ Unmoved
          /\ mem'[p].owners = mem[p].owners
      BY <1>6, Here DEF BackupHeld, Goto, Local, Unmoved, RunState, procVars, diskVars, lockVars, fluxVars, appVars, dataVars, countVars
    <2>2. StageOK(p)' /\ ResumeOK(p)'
      BY <2>1, Here DEF StageOK, StepOf, ResumeOK, LogsDone, BackupOnly, MigrateOnly, RolloutOnly, PrepareOnly, Unmoved, Sole
    <2> QED
      BY <2>1, <2>2, Quiet
  <1>7. CASE Dump(p)
    <2>1. /\ at[p] = "dump" /\ at'[p] = "freeze" /\ stage'[p] = stage[p] /\ Local(p) /\ Unmoved
          /\ mem'[p].owners = mem[p].owners
      BY <1>7, Here DEF Dump, Goto, Local, Unmoved, RunState, procVars, diskVars, lockVars, fluxVars, appVars, dataVars, countVars
    <2>2. StageOK(p)' /\ ResumeOK(p)'
      BY <2>1, Here DEF StageOK, StepOf, ResumeOK, LogsDone, BackupOnly, MigrateOnly, RolloutOnly, PrepareOnly, Unmoved, Sole
    <2> QED
      BY <2>1, <2>2, Quiet
  <1>8. CASE Unfreeze(p)
    <2>1. /\ at[p] = "unfreeze" /\ at'[p] = "finish" /\ stage'[p] = stage[p] /\ Local(p) /\ Unmoved
          /\ mem'[p].owners = mem[p].owners
      BY <1>8, Here DEF Unfreeze, Goto, Local, Unmoved, RunState, procVars, diskVars, lockVars, fluxVars, appVars, dataVars, countVars
    <2>2. StageOK(p)' /\ ResumeOK(p)'
      BY <2>1, Here DEF StageOK, StepOf, ResumeOK, LogsDone, BackupOnly, MigrateOnly, RolloutOnly, PrepareOnly, Unmoved, Sole
    <2> QED
      BY <2>1, <2>2, Quiet
  <1>9. CASE PatchBinary(p)
    <2>1. /\ at[p] = "binary" /\ at'[p] = "targets" /\ stage'[p] = stage[p] /\ Local(p) /\ Unmoved
          /\ mem'[p].owners = mem[p].owners
      BY <1>9, Here DEF PatchBinary, Goto, Local, Unmoved, RunState, procVars, diskVars, lockVars, fluxVars, appVars, dataVars, countVars
    <2>2. StageOK(p)' /\ ResumeOK(p)'
      BY <2>1, Here DEF StageOK, StepOf, ResumeOK, LogsDone, BackupOnly, MigrateOnly, RolloutOnly, PrepareOnly, Unmoved, Sole
    <2> QED
      BY <2>1, <2>2, Quiet
  <1>10. CASE ApplyTargets(p)
    <2>1. /\ at[p] = "targets" /\ at'[p] = "finish" /\ stage'[p] = stage[p] /\ Local(p) /\ Unmoved
          /\ mem'[p].owners = mem[p].owners
      BY <1>10, Here DEF ApplyTargets, Goto, Local, Unmoved, RunState, procVars, diskVars, lockVars, fluxVars, appVars, dataVars, countVars
    <2>2. StageOK(p)' /\ ResumeOK(p)'
      BY <2>1, Here DEF StageOK, StepOf, ResumeOK, LogsDone, BackupOnly, MigrateOnly, RolloutOnly, PrepareOnly, Unmoved, Sole
    <2> QED
      BY <2>1, <2>2, Quiet
  <1>11. CASE LegacyCheck(p)
    <2>1. /\ at[p] = "legacyCheck" /\ at'[p] = "holdInstall" /\ stage'[p] = stage[p] /\ Local(p) /\ Unmoved
          /\ mem'[p].owners = mem[p].owners
      BY <1>11, Here DEF LegacyCheck, Goto, Local, Unmoved, RunState, procVars, diskVars, lockVars, fluxVars, appVars, dataVars, countVars
    <2>2. StageOK(p)' /\ ResumeOK(p)'
      BY <2>1, Here DEF StageOK, StepOf, ResumeOK, LogsDone, BackupOnly, MigrateOnly, RolloutOnly, PrepareOnly, Unmoved, Sole
    <2> QED
      BY <2>1, <2>2, Quiet
  <1>12. CASE HeldAgain(p)
    <2>1. /\ at[p] = "heldAgain" /\ at'[p] = "createJob" /\ stage'[p] = stage[p] /\ Local(p) /\ Unmoved
          /\ mem'[p].owners = mem[p].owners
      BY <1>12, Here DEF HeldAgain, Goto, Local, Unmoved, RunState, procVars, diskVars, lockVars, fluxVars, appVars, dataVars, countVars
    <2>2. StageOK(p)' /\ ResumeOK(p)'
      BY <2>1, Here DEF StageOK, StepOf, ResumeOK, LogsDone, BackupOnly, MigrateOnly, RolloutOnly, PrepareOnly, Unmoved, Sole
    <2> QED
      BY <2>1, <2>2, Quiet
  <1>13. CASE CreateJob(p)
    <2>1. /\ at[p] = "createJob" /\ at'[p] = "waitJob" /\ stage'[p] = stage[p] /\ Local(p) /\ Unmoved
          /\ mem'[p].owners = mem[p].owners
      BY <1>13, Here DEF CreateJob, Goto, Local, Unmoved, RunState, procVars, diskVars, lockVars, fluxVars, appVars, dataVars, countVars
    <2>2. StageOK(p)' /\ ResumeOK(p)'
      BY <2>1, Here DEF StageOK, StepOf, ResumeOK, LogsDone, BackupOnly, MigrateOnly, RolloutOnly, PrepareOnly, Unmoved, Sole
    <2> QED
      BY <2>1, <2>2, Quiet
  <1>14. CASE MigrateCheck(p)
    <2>1. /\ at[p] = "migrateCheck" /\ at'[p] = "finish" /\ stage'[p] = stage[p] /\ Local(p) /\ Unmoved
          /\ mem'[p].owners = mem[p].owners
      BY <1>14, Here DEF MigrateCheck, Goto, Local, Unmoved, RunState, procVars, diskVars, lockVars, fluxVars, appVars, dataVars, countVars
    <2>2. StageOK(p)' /\ ResumeOK(p)'
      BY <2>1, Here DEF StageOK, StepOf, ResumeOK, LogsDone, BackupOnly, MigrateOnly, RolloutOnly, PrepareOnly, Unmoved, Sole
    <2> QED
      BY <2>1, <2>2, Quiet
  <1>15. CASE RolloutStatus(p)
    <2>1. /\ at[p] = "rolloutStatus" /\ at'[p] = "finish" /\ stage'[p] = stage[p] /\ Local(p) /\ Unmoved
          /\ mem'[p].owners = mem[p].owners
          /\ apps = "running"
      BY <1>15, Here DEF RolloutStatus, Goto, Local, Unmoved, RunState, procVars, diskVars, lockVars, fluxVars, appVars, dataVars, countVars
    <2>2. StageOK(p)' /\ ResumeOK(p)'
      BY <2>1, Here DEF StageOK, StepOf, ResumeOK, LogsDone, BackupOnly, MigrateOnly, RolloutOnly, PrepareOnly, Unmoved, Sole
    <2> QED
      BY <2>1, <2>2, Quiet
  <1>16. CASE Capture(p)
    <2>1. /\ at[p] = "capture" /\ at'[p] = "align" /\ stage'[p] = stage[p] /\ Local(p) /\ Unmoved
          /\ mem'[p].owners = mem[p].owners
      BY <1>16, Here DEF Capture, Goto, Local, Unmoved, RunState, procVars, diskVars, lockVars, fluxVars, appVars, dataVars, countVars
    <2>2. StageOK(p)' /\ ResumeOK(p)'
      BY <2>1, Here DEF StageOK, StepOf, ResumeOK, LogsDone, BackupOnly, MigrateOnly, RolloutOnly, PrepareOnly, Unmoved, Sole
    <2> QED
      BY <2>1, <2>2, Quiet
  <1>17. CASE Align(p)
    <2>1. /\ at[p] = "align" /\ at'[p] = "deletePod" /\ stage'[p] = stage[p] /\ Local(p) /\ Unmoved
          /\ mem'[p].owners = mem[p].owners
      BY <1>17, Here DEF Align, Goto, Local, Unmoved, RunState, procVars, diskVars, lockVars, fluxVars, appVars, dataVars, countVars
    <2>2. StageOK(p)' /\ ResumeOK(p)'
      BY <2>1, Here DEF StageOK, StepOf, ResumeOK, LogsDone, BackupOnly, MigrateOnly, RolloutOnly, PrepareOnly, Unmoved, Sole
    <2> QED
      BY <2>1, <2>2, Quiet
  <1>18. CASE DeletePod(p)
    <2>1. /\ at[p] = "deletePod" /\ at'[p] = "deleteLock" /\ stage'[p] = stage[p] /\ Local(p) /\ Unmoved
          /\ mem'[p].owners = mem[p].owners
      BY <1>18, Here DEF DeletePod, Goto, Local, Unmoved, RunState, procVars, diskVars, lockVars, fluxVars, appVars, dataVars, countVars
    <2>2. StageOK(p)' /\ ResumeOK(p)'
      BY <2>1, Here DEF StageOK, StepOf, ResumeOK, LogsDone, BackupOnly, MigrateOnly, RolloutOnly, PrepareOnly, Unmoved, Sole
    <2> QED
      BY <2>1, <2>2, Quiet
  <1>19. CASE CheckLock(p)
    <2>1. /\ at[p] = "lockcheck" /\ at'[p] = (IF stage[p] \in HeldStage THEN "heldcheck" ELSE "begin") /\ stage'[p] = stage[p] /\ Local(p) /\ Unmoved
          /\ mem'[p].owners = mem[p].owners
          /\ lock = mem[p].id
      BY <1>19, Here DEF CheckLock, Goto, Local, Unmoved, RunState, procVars, diskVars, lockVars, fluxVars, appVars, dataVars, countVars
    <2>2. StageOK(p)' /\ ResumeOK(p)'
      BY <2>1, Here DEF StageOK, StepOf, ResumeOK, LogsDone, BackupOnly, MigrateOnly, RolloutOnly, PrepareOnly, Unmoved, Sole
    <2> QED
      BY <2>1, <2>2, Quiet
  <1>20. CASE CheckHeld(p)
    <2>1. /\ at[p] = "heldcheck" /\ at'[p] = "begin" /\ stage'[p] = stage[p] /\ Local(p) /\ Unmoved
          /\ mem'[p].owners = mem[p].owners /\ apps # "running"
      BY <1>20, Here DEF CheckHeld, Held, Goto, Local, Unmoved, procVars, diskVars, lockVars, fluxVars, appVars, dataVars, countVars
    <2>2. stage[p] # "prepare"
      BY <2>1, Here DEF StageOK, StepOf, HeldStage, LogStage
    <2>3. Acting(p)
      BY <2>1, <2>2 DEF Acting
    <2>4. disk[DirOf[p]].steps["rollout"] # "complete"
      BY <2>1, <2>3, ActingHolds, Here DEF RolloutInv, RunOK
    <2>5. StageOK(p)' /\ ResumeOK(p)'
      BY <2>1, <2>2, <2>4, Here DEF StageOK, StepOf, ResumeOK, LogsDone, BackupOnly, MigrateOnly, RolloutOnly, PrepareOnly, Unmoved, Sole
    <2> QED
      BY <2>1, <2>5, Quiet
  <1>21. CASE WaitJob(p)
    <2>1. /\ at[p] = "waitJob" /\ at'[p] \in {"migrateCheck", "createJob"} /\ stage'[p] = stage[p] /\ Local(p) /\ Unmoved
          /\ mem'[p].owners = mem[p].owners
      BY <1>21, Here DEF WaitJob, Goto, Local, Unmoved, RunState, procVars, diskVars, lockVars, fluxVars, appVars, dataVars, countVars
    <2>2. StageOK(p)' /\ ResumeOK(p)'
      BY <2>1, Here DEF StageOK, StepOf, ResumeOK, LogsDone, BackupOnly, MigrateOnly, RolloutOnly, PrepareOnly, Unmoved, Sole
    <2> QED
      BY <2>1, <2>2, Quiet
  <1> QED
    BY <1>1, <1>2, <1>3, <1>4, <1>5, <1>6, <1>7, <1>8, <1>9, <1>10, <1>11, <1>12, <1>13, <1>14, <1>15, <1>16, <1>17, <1>18, <1>19, <1>20, <1>21 DEF QuietStep

-----------------------------------------------------------------------------
\* The steps of prepare that suspend, record, lock and scale down.  What prepare
\* does it does on a file that has it started, so with no rollout on record.
PrepareMoves(p) ==
    \/ SuspendOwner(p) \/ SuspendRelease(p) \/ RecordNamespace(p) \/ TakeLock(p)
    \/ Scale(p) \/ RecordJobs(p) \/ HoldInstall(p)

LEMMA PrepareKeeps ==
    ASSUME OwnDirs, RolloutInv, Inv', NEW p \in Proc, PrepareMoves(p)
    PROVE  RolloutInv'
  <1>1. CASE SuspendOwner(p)
    <2>1. /\ stage'[p] = stage[p] /\ Local(p) /\ at[p] = "suspendOwner"
          /\ at'[p] = "suspendRelease"
          /\ mem'[p].owners = (Live(p) /\ HasOwner)
          /\ kust' = (kust \/ (Live(p) /\ HasOwner))
          /\ UNCHANGED <<disk, journal, begun, lock, apps, legacy, hr>>
      BY <1>1, Here DEF SuspendOwner, Goto, Local, RunState, procVars, diskVars, lockVars, fluxVars, appVars, dataVars, countVars
    <2>2. RunOK(DirOf[p])'
      BY <2>1, Here, Preparing DEF RunOK, LogsDone, BeforeBegin, MemoryOf, PrepareOnly, StageOfStep
    <2>3. SuspensionOK(DirOf[p])'
      BY <2>1, Here, Preparing DEF SuspensionOK, Sole, BeforeBegin, MemoryOf, PrepareOnly, StageOfStep
    <2>4. StageOK(p)'
      BY <2>1, Preparing DEF StageOK, StepOf, BackupOnly, MigrateOnly, RolloutOnly, PrepareOnly
    <2>5. ResumeOK(p)'
      BY <2>1, Here, Preparing DEF ResumeOK, Sole, PrepareOnly
    <2> QED
      BY <2>1, <2>2, <2>3, <2>4, <2>5, Frame DEF PrepareOnly, Acting
  <1>2. CASE SuspendRelease(p)
    <2>1. /\ stage'[p] = stage[p] /\ Local(p) /\ at[p] = "suspendRelease"
          /\ at'[p] = "recordNamespace"
          /\ mem'[p].owners = mem[p].owners
          /\ UNCHANGED <<disk, journal, begun, lock, apps, legacy, kust>>
      BY <1>2, Here DEF SuspendRelease, Goto, Local, RunState, procVars, diskVars, lockVars, fluxVars, appVars, dataVars, countVars
    <2>2. RunOK(DirOf[p])'
      BY <2>1, Here, Preparing DEF RunOK, LogsDone, BeforeBegin, MemoryOf, PrepareOnly, StageOfStep
    <2>3. SuspensionOK(DirOf[p])'
      BY <2>1, Here, Preparing DEF SuspensionOK, Sole, BeforeBegin, MemoryOf, PrepareOnly, StageOfStep
    <2>4. StageOK(p)'
      BY <2>1, Preparing DEF StageOK, StepOf, BackupOnly, MigrateOnly, RolloutOnly, PrepareOnly
    <2>5. ResumeOK(p)'
      BY <2>1, Here, Preparing DEF ResumeOK, Sole, PrepareOnly
    <2> QED
      BY <2>1, <2>2, <2>3, <2>4, <2>5, Frame DEF PrepareOnly, Acting
  <1>3. CASE RecordNamespace(p)
    <2>1. /\ at[p] = "recordNamespace" /\ at'[p] = "takeLock" /\ stage'[p] = stage[p] /\ Local(p)
          /\ mem'[p].owners = mem[p].owners /\ mem'[p].id = mem[p].id /\ mem'[p].steps = mem[p].steps
          /\ disk'[DirOf[p]] = mem'[p] /\ \A d \in Dir \ {DirOf[p]} : disk'[d] = disk[d]
          /\ UNCHANGED <<journal, begun, lock, apps, legacy, kust, hr>>
      <3>1. mem[p] \in RunState /\ DirOf[p] \in Dir
        BY Here DEF RunState
      <3> QED
        BY <1>3, <3>1, Here DEF RecordNamespace, Goto, Local, Checkpoint, Write, procVars, diskVars, lockVars, fluxVars, appVars, dataVars, countVars
    <2>2. /\ disk'[DirOf[p]].id = disk[DirOf[p]].id /\ disk'[DirOf[p]].owners = mem[p].owners
          /\ \A s \in Stage \ {"infrastructure"} : disk'[DirOf[p]].steps[s] = disk[DirOf[p]].steps[s]
          /\ stage[p] # "prepare" => mem[p].owners = disk[DirOf[p]].owners
      <3>1. disk[DirOf[p]].steps \in [Stage -> Status] /\ MemoryOf(p) /\ ResumeOK(p)
        BY Here DEF RunState
      <3> QED
        BY <2>1, <3>1 DEF MemoryOf, ResumeOK
    <2>3. RunOK(DirOf[p])'
      BY <2>1, <2>2, Here DEF RunOK, LogsDone, Stage, LogStage
    <2>4. SuspensionOK(DirOf[p])'
      BY <2>1, <2>2, Here, Preparing DEF SuspensionOK, Sole, Stage, StageOK, StepOf, BackupOnly, PrepareOnly
    <2>5. StageOK(p)' /\ ResumeOK(p)'
      BY <2>1, <2>2, Here DEF StageOK, StepOf, ResumeOK, LogsDone, BackupOnly, MigrateOnly, RolloutOnly, PrepareOnly, Unmoved, Sole
    <2> QED
      BY <2>1, <2>3, <2>4, <2>5, Frame DEF PrepareOnly, Acting
  <1>4. CASE TakeLock(p)
    <2>1. /\ stage'[p] = stage[p] /\ Local(p) /\ at[p] = "takeLock"
          /\ at'[p] \in {"deleteHpa", "bootstrap"}
          /\ mem'[p].owners = mem[p].owners
          /\ lock' = disk[DirOf[p]].id
          /\ UNCHANGED <<disk, journal, begun, apps, legacy, kust, hr>>
      BY <1>4, Here DEF TakeLock, Goto, Local, RunState, MemoryOf, procVars, diskVars, lockVars, fluxVars, appVars, dataVars, countVars
    <2>2. RunOK(DirOf[p])'
      BY <2>1, Here, Preparing DEF RunOK, LogsDone, BeforeBegin, MemoryOf, PrepareOnly, StageOfStep
    <2>3. SuspensionOK(DirOf[p])'
      BY <2>1, Here, Preparing DEF SuspensionOK, Sole, BeforeBegin, MemoryOf, PrepareOnly, StageOfStep
    <2>4. StageOK(p)'
      BY <2>1, Preparing DEF StageOK, StepOf, BackupOnly, MigrateOnly, RolloutOnly, PrepareOnly
    <2>5. ResumeOK(p)'
      BY <2>1, Here, Preparing DEF ResumeOK, Sole, PrepareOnly
    <2> QED
      BY <2>1, <2>2, <2>3, <2>4, <2>5, Frame DEF PrepareOnly, Acting
  <1>5. CASE Scale(p)
    <2>1. /\ stage'[p] = stage[p] /\ Local(p) /\ at[p] = "scale"
          /\ at'[p] = "drain"
          /\ mem'[p].owners = mem[p].owners
          /\ UNCHANGED <<disk, journal, begun, lock, legacy, kust, hr>>
      BY <1>5, Here DEF Scale, Goto, Local, RunState, procVars, diskVars, lockVars, fluxVars, appVars, dataVars, countVars
    <2>2. RunOK(DirOf[p])'
      BY <2>1, Here, Preparing DEF RunOK, LogsDone, BeforeBegin, MemoryOf, PrepareOnly, StageOfStep
    <2>3. SuspensionOK(DirOf[p])'
      BY <2>1, Here, Preparing DEF SuspensionOK, Sole, BeforeBegin, MemoryOf, PrepareOnly, StageOfStep
    <2>4. StageOK(p)'
      BY <2>1, Preparing DEF StageOK, StepOf, BackupOnly, MigrateOnly, RolloutOnly, PrepareOnly
    <2>5. ResumeOK(p)'
      BY <2>1, Here, Preparing DEF ResumeOK, Sole, PrepareOnly
    <2> QED
      BY <2>1, <2>2, <2>3, <2>4, <2>5, Frame DEF PrepareOnly, Acting
  <1>6. CASE RecordJobs(p)
    <2>1. /\ at[p] = "recordJobs" /\ at'[p] \in {"createPod", "holdInstall"} /\ stage'[p] = stage[p] /\ Local(p)
          /\ mem'[p].owners = mem[p].owners /\ mem'[p].id = mem[p].id /\ mem'[p].steps = mem[p].steps
          /\ disk'[DirOf[p]] = mem'[p] /\ \A d \in Dir \ {DirOf[p]} : disk'[d] = disk[d]
          /\ UNCHANGED <<journal, begun, lock, apps, legacy, kust, hr>>
      <3>1. mem[p] \in RunState /\ DirOf[p] \in Dir
        BY Here DEF RunState
      <3> QED
        BY <1>6, <3>1, Here DEF RecordJobs, Goto, Local, Checkpoint, Write, procVars, diskVars, lockVars, fluxVars, appVars, dataVars, countVars
    <2>2. /\ disk'[DirOf[p]].id = disk[DirOf[p]].id /\ disk'[DirOf[p]].owners = mem[p].owners
          /\ \A s \in Stage \ {"infrastructure"} : disk'[DirOf[p]].steps[s] = disk[DirOf[p]].steps[s]
          /\ stage[p] # "prepare" => mem[p].owners = disk[DirOf[p]].owners
      <3>1. disk[DirOf[p]].steps \in [Stage -> Status] /\ MemoryOf(p) /\ ResumeOK(p)
        BY Here DEF RunState
      <3> QED
        BY <2>1, <3>1 DEF MemoryOf, ResumeOK
    <2>3. RunOK(DirOf[p])'
      BY <2>1, <2>2, Here DEF RunOK, LogsDone, Stage, LogStage
    <2>4. SuspensionOK(DirOf[p])'
      BY <2>1, <2>2, Here, Preparing DEF SuspensionOK, Sole, Stage, StageOK, StepOf, BackupOnly, PrepareOnly
    <2>5. StageOK(p)' /\ ResumeOK(p)'
      BY <2>1, <2>2, Here DEF StageOK, StepOf, ResumeOK, LogsDone, StageOfStep, BackupOnly, MigrateOnly, RolloutOnly, PrepareOnly, OtherStages, Unmoved, Sole
    <2> QED
      BY <2>1, <2>3, <2>4, <2>5, Frame DEF PrepareOnly, Acting
  <1>7. CASE HoldInstall(p)
    <2>1. /\ stage'[p] = stage[p] /\ Local(p) /\ at[p] = "holdInstall"
          /\ at'[p] \in {"createPod", "heldAgain"}
          /\ at'[p] = "createPod" <=> stage[p] = "prepare"
          /\ mem'[p].owners = mem[p].owners
          /\ UNCHANGED <<disk, journal, begun, lock, legacy, kust, hr>>
      BY <1>7, Here DEF HoldInstall, Goto, Local, RunState, procVars, diskVars, lockVars, fluxVars, appVars, dataVars, countVars
    <2>2. RunOK(DirOf[p])'
      BY <2>1, Here DEF RunOK, LogsDone, BeforeBegin, MemoryOf, PrepareOnly, StageOfStep, StageOK, StepOf
    <2>3. SuspensionOK(DirOf[p])'
      BY <2>1, Here DEF SuspensionOK, Sole, BeforeBegin, MemoryOf, PrepareOnly, StageOfStep
    <2>4. StageOK(p)'
      BY <2>1, Here DEF StageOK, StepOf, BackupOnly, MigrateOnly, RolloutOnly, PrepareOnly
    <2>5. ResumeOK(p)'
      BY <2>1, Here DEF ResumeOK, Sole, PrepareOnly
    <2> QED
      BY <2>1, <2>2, <2>3, <2>4, <2>5, Frame DEF PrepareOnly, Acting
  <1> QED
    BY <1>1, <1>2, <1>3, <1>4, <1>5, <1>6, <1>7 DEF PrepareMoves

-----------------------------------------------------------------------------
\* Whether it ends well or not, a logs phase does not leave "finalized", moves
\* tables only from where they were, and follows the move from then on.
LEMMA ScriptEffects ==
    ASSUME RolloutInv, NEW p \in Proc, RunScript(p) \/ ScriptFails(p)
    PROVE  /\ \A d \in Dir \ {DirOf[p]} : journal'[d] = journal[d]
           /\ legacy = "moved" => legacy' = "moved"
           /\ journal[DirOf[p]] = "finalized" => journal'[DirOf[p]] = "finalized"
           /\ journal'[DirOf[p]] \in Moved => legacy' = "moved"
           /\ RunScript(p) /\ stage[p] = "logs:finalize" => journal'[DirOf[p]] = "finalized"
  <1> DEFINE d == DirOf[p]
             j == journal[d]
             s == stage[p]
  <1>1. d \in Dir /\ s \in LogStage /\ journal \in [Dir -> Phases] /\ ScriptAdmits(d, s)
        /\ (j \in Moved => legacy = "moved")
    BY Here DEF RunScript, ScriptFails, RunOK, RolloutInv, Inv, Typed, TypeOK
  <1>2. /\ j \in Demands(s)
        /\ s = "logs:reconcile" => legacy = "default"
    BY <1>1 DEF ScriptAdmits
  <1>3. /\ j = "finalized" => Enters(s, j) = "finalized" /\ Leaves(s, j) = "finalized"
        /\ Enters(s, j) \in Moved => legacy = "moved" /\ s # "logs:reconcile"
        /\ Leaves(s, j) \in Moved => legacy = "moved" \/ s = "logs:reconcile"
        /\ s = "logs:finalize" => Leaves(s, j) = "finalized"
    BY <1>1, <1>2 DEF Demands, Enters, Leaves, LogStage, Moved
  <1>4. \/ /\ journal' = [journal EXCEPT ![d] = Leaves(s, j)]
           /\ legacy' = IF s = "logs:reconcile" THEN "moved" ELSE legacy
        \/ /\ ~RunScript(p)
           /\ journal' = [journal EXCEPT ![d] = Enters(s, j)]
           /\ legacy' \in IF s = "logs:reconcile" THEN {"default", "mixed", "moved"} ELSE {legacy}
    BY DEF RunScript, ScriptFails
  <1> QED
    BY <1>1, <1>2, <1>3, <1>4

-----------------------------------------------------------------------------
\* The other stages' steps.
StageMoves(p) ==
    \/ FreezeTables(p) \/ VerifyBackup(p) \/ RunScript(p)
    \/ Install(p) \/ ResumeRelease(p) \/ ResumeOwners(p) \/ DeleteLock(p)

LEMMA StageKeeps ==
    ASSUME OwnDirs, RolloutInv, Inv', NEW p \in Proc, StageMoves(p)
    PROVE  RolloutInv'
  <1>1. CASE FreezeTables(p)
    <2>1. /\ at[p] = "freeze" /\ at'[p] = "verifyBackup" /\ stage'[p] = stage[p] /\ Local(p)
          /\ mem'[p].owners = mem[p].owners /\ mem'[p].id = mem[p].id /\ mem'[p].steps = mem[p].steps
          /\ disk'[DirOf[p]] = mem'[p] /\ \A d \in Dir \ {DirOf[p]} : disk'[d] = disk[d]
          /\ UNCHANGED <<journal, begun, lock, apps, legacy, kust, hr>>
      <3>1. mem[p] \in RunState /\ DirOf[p] \in Dir
        BY Here DEF RunState
      <3> QED
        BY <1>1, <3>1, Here DEF FreezeTables, Goto, Local, Checkpoint, Write, procVars, diskVars, lockVars, fluxVars, appVars, dataVars, countVars
    <2>2. /\ disk'[DirOf[p]].id = disk[DirOf[p]].id /\ disk'[DirOf[p]].owners = mem[p].owners
          /\ \A s \in Stage \ {"infrastructure"} : disk'[DirOf[p]].steps[s] = disk[DirOf[p]].steps[s]
          /\ stage[p] # "prepare" => mem[p].owners = disk[DirOf[p]].owners
      <3>1. disk[DirOf[p]].steps \in [Stage -> Status] /\ MemoryOf(p) /\ ResumeOK(p)
        BY Here DEF RunState
      <3> QED
        BY <2>1, <3>1 DEF MemoryOf, ResumeOK
    <2>3. RunOK(DirOf[p])'
      BY <2>1, <2>2, Here DEF RunOK, LogsDone, Stage, LogStage
    <2>4. SuspensionOK(DirOf[p])'
      BY <2>1, <2>2, Here, Preparing DEF SuspensionOK, Sole, Stage, StageOK, StepOf, BackupOnly, PrepareOnly
    <2>5. StageOK(p)' /\ ResumeOK(p)'
      BY <2>1, <2>2, Here DEF StageOK, StepOf, ResumeOK, LogsDone, BackupOnly, MigrateOnly, RolloutOnly, PrepareOnly, Unmoved, Sole
    <2> QED
      BY <2>1, <2>3, <2>4, <2>5, Frame DEF PrepareOnly, Acting
  <1>2. CASE VerifyBackup(p)
    <2>1. /\ at[p] = "verifyBackup" /\ at'[p] = "unfreeze" /\ stage'[p] = stage[p] /\ Local(p)
          /\ mem'[p].owners = mem[p].owners /\ mem'[p].id = mem[p].id /\ mem'[p].steps = mem[p].steps
          /\ disk'[DirOf[p]] = mem'[p] /\ \A d \in Dir \ {DirOf[p]} : disk'[d] = disk[d]
          /\ UNCHANGED <<journal, begun, lock, apps, legacy, kust, hr>>
      <3>1. /\ [mem[p] EXCEPT !.verified = TRUE].steps = mem[p].steps
            /\ [mem[p] EXCEPT !.verified = TRUE].id = mem[p].id
            /\ [mem[p] EXCEPT !.verified = TRUE].owners = mem[p].owners
        BY Here DEF RunState
      <3> QED
        BY <1>2, <3>1, Here DEF VerifyBackup, Goto, Local, Checkpoint, Write, procVars, diskVars, lockVars, fluxVars, appVars, dataVars, countVars
    <2>2. /\ disk'[DirOf[p]].id = disk[DirOf[p]].id /\ disk'[DirOf[p]].owners = mem[p].owners
          /\ \A s \in Stage \ {"infrastructure"} : disk'[DirOf[p]].steps[s] = disk[DirOf[p]].steps[s]
          /\ stage[p] # "prepare" => mem[p].owners = disk[DirOf[p]].owners
      <3>1. disk[DirOf[p]].steps \in [Stage -> Status] /\ MemoryOf(p) /\ ResumeOK(p)
        BY Here DEF RunState
      <3> QED
        BY <2>1, <3>1 DEF MemoryOf, ResumeOK
    <2>3. RunOK(DirOf[p])'
      BY <2>1, <2>2, Here DEF RunOK, LogsDone, Stage, LogStage
    <2>4. SuspensionOK(DirOf[p])'
      BY <2>1, <2>2, Here, Preparing DEF SuspensionOK, Sole, Stage, StageOK, StepOf, BackupOnly, PrepareOnly
    <2>5. StageOK(p)' /\ ResumeOK(p)'
      BY <2>1, <2>2, Here DEF StageOK, StepOf, ResumeOK, LogsDone, BackupOnly, MigrateOnly, RolloutOnly, PrepareOnly, Unmoved, Sole
    <2> QED
      BY <2>1, <2>3, <2>4, <2>5, Frame DEF PrepareOnly, Acting
  <1>3. CASE RunScript(p)
    <2>1. /\ stage'[p] = stage[p] /\ Local(p) /\ at[p] = "script" /\ at'[p] = "finish"
          /\ mem'[p].owners = mem[p].owners
          /\ UNCHANGED <<disk, begun, lock, apps, kust, hr>>
      BY <1>3, Here DEF RunScript, Goto, Local, procVars, diskVars, lockVars, fluxVars, appVars, dataVars, countVars
    <2>2. /\ \A d \in Dir \ {DirOf[p]} : journal'[d] = journal[d]
          /\ legacy = "moved" => legacy' = "moved"
          /\ journal[DirOf[p]] = "finalized" => journal'[DirOf[p]] = "finalized"
          /\ journal'[DirOf[p]] \in Moved => legacy' = "moved"
          /\ stage[p] = "logs:finalize" => journal'[DirOf[p]] = "finalized"
      BY <1>3, ScriptEffects
    <2>3. RunOK(DirOf[p])' /\ SuspensionOK(DirOf[p])'
      BY <2>1, <2>2, Here DEF RunOK, SuspensionOK, LogsDone, Sole
    <2>4. StageOK(p)' /\ ResumeOK(p)'
      BY <2>1, <2>2, Here DEF StageOK, StepOf, ResumeOK, LogsDone, BackupOnly, MigrateOnly, RolloutOnly, PrepareOnly, Unmoved, Sole, LogStage
    <2> QED
      BY <2>1, <2>2, <2>3, <2>4, Frame
  <1>4. CASE Install(p)
    <2>1. /\ stage'[p] = stage[p] /\ Local(p) /\ at[p] = "install"
          /\ at'[p] = "resumeRelease"
          /\ mem'[p].owners = mem[p].owners
          /\ apps' = "running"
          /\ UNCHANGED <<disk, journal, begun, lock, legacy, kust, hr>>
      BY <1>4, Here DEF Install, Goto, Local, RunState, procVars, diskVars, lockVars, fluxVars, appVars, dataVars, countVars
    <2>2. RunOK(DirOf[p])'
      BY <2>1, Here DEF RunOK, LogsDone, BeforeBegin, MemoryOf, PrepareOnly, StageOfStep
    <2>3. SuspensionOK(DirOf[p])'
      BY <2>1, Here DEF SuspensionOK, Sole, BeforeBegin, MemoryOf, PrepareOnly, StageOfStep
    <2>4. StageOK(p)' /\ ResumeOK(p)'
      BY <2>1, Here DEF StageOK, StepOf, ResumeOK, LogsDone, BackupOnly, MigrateOnly, RolloutOnly, PrepareOnly, Unmoved, Sole
    <2> QED
      BY <2>1, <2>2, <2>3, <2>4, Frame DEF PrepareOnly, Acting
  <1>5. CASE ResumeRelease(p)
    <2>1. /\ stage'[p] = stage[p] /\ Local(p) /\ at[p] = "resumeRelease"
          /\ at'[p] = "resumeOwners"
          /\ mem'[p].owners = mem[p].owners
          /\ ~hr'
          /\ UNCHANGED <<disk, journal, begun, lock, apps, legacy, kust>>
      BY <1>5, Here DEF ResumeRelease, Goto, Local, RunState, procVars, diskVars, lockVars, fluxVars, appVars, dataVars, countVars
    <2>2. RunOK(DirOf[p])'
      BY <2>1, Here DEF RunOK, LogsDone, BeforeBegin, MemoryOf, PrepareOnly, StageOfStep
    <2>3. SuspensionOK(DirOf[p])'
      BY <2>1, Here DEF SuspensionOK, Sole, BeforeBegin, MemoryOf, PrepareOnly, StageOfStep
    <2>4. StageOK(p)' /\ ResumeOK(p)'
      BY <2>1, Here DEF StageOK, StepOf, ResumeOK, LogsDone, BackupOnly, MigrateOnly, RolloutOnly, PrepareOnly, Unmoved, Sole
    <2> QED
      BY <2>1, <2>2, <2>3, <2>4, Frame DEF PrepareOnly, Acting
  <1>6. CASE ResumeOwners(p)
    <2>1. /\ stage'[p] = stage[p] /\ Local(p) /\ at[p] = "resumeOwners" /\ at'[p] = "rolloutStatus"
          /\ mem'[p].owners = mem[p].owners /\ kust' = (kust /\ ~mem[p].owners)
          /\ UNCHANGED <<disk, journal, begun, lock, apps, legacy, hr>>
      BY <1>6, Here DEF ResumeOwners, Goto, Local, procVars, diskVars, lockVars, fluxVars, appVars, dataVars, countVars
    <2>2. stage[p] = "rollout" /\ mem[p].owners = disk[DirOf[p]].owners
      BY <2>1, Here DEF StageOK, StepOf, RolloutOnly, ResumeOK
    <2>3. disk[DirOf[p]].steps["rollout"] = "started"
      BY <2>1, <2>2, Here DEF MemoryOf, BeforeBegin
    <2>4. Sole(DirOf[p]) => ~kust'
      BY <2>1, <2>2, <2>3, Here DEF SuspensionOK, RunOK
    <2>5. RunOK(DirOf[p])' /\ SuspensionOK(DirOf[p])'
      BY <2>1, Here DEF RunOK, SuspensionOK, LogsDone, Sole
    <2>6. StageOK(p)' /\ ResumeOK(p)'
      BY <2>1, <2>2, <2>4, Here DEF StageOK, StepOf, ResumeOK, LogsDone, BackupOnly, MigrateOnly, RolloutOnly, PrepareOnly, Unmoved, Sole
    <2> QED
      BY <2>1, <2>5, <2>6, Frame
  <1>7. CASE DeleteLock(p)
    <2>1. /\ stage'[p] = stage[p] /\ Local(p) /\ at[p] = "deleteLock"
          /\ at'[p] = "finish"
          /\ mem'[p].owners = mem[p].owners
          /\ lock' = NoRun
          /\ UNCHANGED <<disk, journal, begun, apps, legacy, kust, hr>>
      BY <1>7, Here DEF DeleteLock, Goto, Local, RunState, procVars, diskVars, lockVars, fluxVars, appVars, dataVars, countVars
    <2>2. RunOK(DirOf[p])'
      BY <2>1, Here, ActingHolds DEF RunOK, LogsDone, Acting, RolloutInv
    <2>3. SuspensionOK(DirOf[p])'
      BY <2>1, Here, ActingHolds DEF SuspensionOK, Sole, BeforeBegin, MemoryOf, PrepareOnly, StageOfStep
    <2>4. stage[p] = "verify"
      BY <2>1, Here DEF StageOfStep, VerifyOnly
    <2>5. StageOK(p)'
      BY <2>1, <2>4 DEF StageOK, StepOf, BackupOnly, MigrateOnly, RolloutOnly
    <2>6. ResumeOK(p)'
      BY <2>1, <2>4, Here DEF ResumeOK, Sole, PrepareOnly
    <2> QED
      BY <2>1, <2>2, <2>3, <2>5, <2>6, Frame DEF PrepareOnly, Acting
  <1> QED
    BY <1>1, <1>2, <1>3, <1>4, <1>5, <1>6, <1>7 DEF StageMoves

-----------------------------------------------------------------------------
LEMMA BeginKeeps ==
    ASSUME OwnDirs, RolloutInv, Inv', NEW p \in Proc, Begin(p)
    PROVE  RolloutInv'
  <1> DEFINE d == DirOf[p]
             s == stage[p]
             old == disk[d].steps
             new == disk'[d].steps
  <1>1. /\ at[p] = "begin" /\ at'[p] = FirstStep(s) /\ stage'[p] = s /\ Local(p)
        /\ mem'[p].steps = [mem[p].steps EXCEPT ![s] = "started"] /\ mem'[p].owners = mem[p].owners
        /\ s # "prepare" => mem'[p].id = mem[p].id
        /\ disk' = [disk EXCEPT ![d] = mem'[p]]
        /\ UNCHANGED <<journal, lock, apps, legacy, kust, hr>>
    <2> DEFINE id == IF s = "prepare" THEN runs + 1 ELSE mem[p].id
               st == [mem[p] EXCEPT !.id = id, !.steps[s] = "started"]
    <2>1. mem[p] \in RunState
      BY Here
    <2>2. /\ st.steps = [mem[p].steps EXCEPT ![s] = "started"] /\ st.owners = mem[p].owners
          /\ st.id = id
      BY <2>1 DEF RunState
    <2>3. /\ at[p] = "begin" /\ at' = [at EXCEPT ![p] = FirstStep(s)] /\ UNCHANGED <<stage, cursor>>
          /\ mem' = [mem EXCEPT ![p] = st] /\ disk' = [disk EXCEPT ![d] = st]
          /\ UNCHANGED <<journal, lock, apps, legacy, kust, hr>>
      BY DEF Begin, Goto, Checkpoint, Write, lockVars, fluxVars, appVars, dataVars
    <2> HIDE DEF st
    <2>4. mem'[p] = st /\ at'[p] = FirstStep(s) /\ Local(p)
      BY <2>3, Here DEF Local
    <2> QED
      BY <2>2, <2>3, <2>4
  <1>2. begun' = [begun EXCEPT ![d][s] = @ + 1] /\ begun \in [Dir -> [Stage -> Nat]]
    BY DEF Begin, RolloutInv, Inv, Typed, TypeOK
  <1>3. /\ d \in Dir /\ s \in Stage /\ disk'[d] = mem'[p]
        /\ \A e \in Dir \ {d} : disk'[e] = disk[e] /\ begun'[e] = begun[e]
    BY <1>1, <1>2, Here
  <1>4. /\ mem[p].steps = old /\ mem[p].id = disk[d].id /\ old \in [Stage -> Status]
        /\ old[s] = "none" /\ Ready(old, s)
    BY <1>1, <1>3, Here DEF MemoryOf, BeforeBegin, Ready, RunState
  <1>5. new = [old EXCEPT ![s] = "started"]
    BY <1>1, <1>3, <1>4
  <1>6. \A r \in Stage : new[r] = IF r = s THEN "started" ELSE old[r]
    BY <1>4, <1>5
  <1>7. /\ s # "prepare" => old["prepare"] = "complete" /\ mem[p].owners = disk[d].owners
        /\ s = "rollout" => old["migrate"] = "complete" /\ LogsDone(old)
    <2>1. s # "prepare" => "prepare" \in Needs(old, s)
      BY <1>3 DEF Needs, Stage
    <2>2. s = "rollout" => "migrate" \in Needs(old, s)
                           /\ (old["logs:reconcile"] # "none" => "logs:finalize" \in Needs(old, s))
      BY DEF Needs, Stage, LogStage
    <2> QED
      BY <1>1, <1>4, <2>1, <2>2, Here DEF Ready, LogsDone, ResumeOK
  <1>8. s \in HeldStage => old["rollout"] # "complete"
    BY <1>1, Here DEF StageOK
  <1>9. {"prepare", "migrate", "rollout", "logs:reconcile", "logs:finalize"} \subseteq Stage
        /\ {"logs:reconcile", "logs:finalize", "migrate"} \subseteq HeldStage
        /\ {"prepare", "rollout"} \cap HeldStage = {}
    BY DEF Stage, LogStage, HeldStage
  <1>10. s = "prepare" => old["rollout"] = "none" /\ disk'[d].steps["rollout"] = "none"
    BY <1>4, <1>6, <1>9, Here DEF RunOK
  <1>11. RunOK(d)'
    <2>1. new["rollout"] # "none" => new["prepare"] = "complete" /\ new["migrate"] = "complete"
      BY <1>4, <1>6, <1>7, <1>9, <1>10, Here DEF RunOK
    <2>2. new["rollout"] = "complete" =>
            s # "rollout" /\ old["rollout"] = "complete" /\ s # "prepare" /\ s \notin HeldStage
      BY <1>4, <1>6, <1>8, <1>9, <1>10
    <2>3. new["rollout"] = "complete" => LogsDone(new) /\ (lock' = disk'[d].id => apps' = "running")
      BY <1>1, <1>3, <1>4, <1>6, <1>9, <2>2, Here DEF RunOK, LogsDone
    <2>4. new["logs:finalize"] = "complete" => journal'[d] = "finalized"
      BY <1>1, <1>6, <1>9, Here DEF RunOK
    <2>5. new["prepare"] # "none" => begun'[d]["prepare"] # 0
      BY <1>2, <1>3, <1>6, <1>9, Here DEF RunOK
    <2>6. journal'[d] \in Moved => legacy' = "moved"
      BY <1>1, Here DEF RunOK
    <2> QED
      BY <2>1, <2>3, <2>4, <2>5, <2>6 DEF RunOK
  <1>12. Sole(d)' => Sole(d)
    BY <1>3 DEF Sole
  <1>13. SuspensionOK(d)'
    BY <1>1, <1>3, <1>4, <1>6, <1>7, <1>9, <1>10, <1>12, Here DEF SuspensionOK
  <1>14. /\ FirstStep(s) \in PrepareOnly \cup {"suspendOwner"} => s = "prepare"
         /\ FirstStep(s) = "install" => s = "rollout"
         /\ FirstStep(s) \in {"suspendOwner", "backupHeld", "binary", "legacyCheck", "install", "capture", "script"}
         /\ FirstStep(s) = "backupHeld" => s = "backup"
         /\ FirstStep(s) = "binary" => s = "infrastructure"
         /\ FirstStep(s) = "legacyCheck" => s = "migrate"
    BY <1>3 DEF FirstStep, Stage, LogStage, PrepareOnly
  <1>15. StageOK(p)'
    <2>1. s = "rollout" => LogsDone(new)
      BY <1>6, <1>7, <1>9 DEF LogsDone
    <2> QED
      BY <1>1, <1>14, <2>1 DEF StageOK, StepOf, BackupOnly, MigrateOnly, RolloutOnly
  <1>16. ResumeOK(p)'
    BY <1>1, <1>3, <1>4, <1>12, <1>14, Here DEF ResumeOK, SuspensionOK, PrepareOnly
  <1>17. begun[d]["prepare"] # 0 => begun'[d]["prepare"] # 0
    BY <1>2, <1>3, <1>9
  <1> QED
    BY <1>1, <1>3, <1>11, <1>13, <1>15, <1>16, <1>17, Frame

LEMMA FinishKeeps ==
    ASSUME OwnDirs, RolloutInv, Inv', NEW p \in Proc, Finish(p)
    PROVE  RolloutInv'
  <1> DEFINE d == DirOf[p]
             s == stage[p]
             old == disk[d].steps
             new == disk'[d].steps
             file == [mem[p] EXCEPT !.steps[stage[p]] = "complete"]
  <1>1. /\ at[p] = "finish" /\ at'[p] = "idle" /\ Local(p)
        /\ disk' = [disk EXCEPT ![d] = file]
        /\ UNCHANGED <<journal, begun, lock, apps, legacy, kust, hr>>
    BY Here DEF Finish, Exit, Forget, Write, Local, lockVars, fluxVars, appVars, dataVars, countVars
  <1>2. /\ d \in Dir /\ s \in Stage /\ mem[p].steps = old /\ mem[p].id = disk[d].id
        /\ old \in [Stage -> Status] /\ old[s] = "started"
    BY <1>1, Here DEF MemoryOf, BeforeBegin, RunState
  <1>3. file.steps = [old EXCEPT ![s] = "complete"] /\ file.id = disk[d].id /\ file.owners = mem[p].owners
    BY <1>2, Here DEF RunState
  <1> HIDE DEF file
  <1>4. /\ disk'[d].id = disk[d].id /\ disk'[d].owners = mem[p].owners
        /\ \A e \in Dir \ {d} : disk'[e] = disk[e]
        /\ \A r \in Stage : new[r] = IF r = s THEN "complete" ELSE old[r]
    BY <1>1, <1>2, <1>3, Here
  <1>5. {"prepare", "migrate", "rollout", "logs:reconcile", "logs:finalize"} \subseteq Stage
    BY DEF Stage, LogStage
  <1>6. s = "rollout" => LogsDone(old) /\ apps = "running" /\ (Sole(d) => ~hr /\ ~kust)
    BY <1>1, Here DEF StageOK, ResumeOK
  <1>7. s = "logs:finalize" => journal[d] = "finalized"
    BY <1>1, Here DEF StageOK
  <1>8. RunOK(d)'
    <2>1. new["rollout"] # "none" => new["prepare"] = "complete" /\ new["migrate"] = "complete"
      BY <1>2, <1>4, <1>5, Here DEF RunOK
    <2>2. new["rollout"] = "complete" => LogsDone(new)
      BY <1>2, <1>4, <1>5, <1>6, Here DEF RunOK, LogsDone
    <2>3. new["rollout"] = "complete" => (lock' = disk'[d].id => apps' = "running")
      BY <1>1, <1>4, <1>5, <1>6, Here DEF RunOK
    <2>4. new["logs:finalize"] = "complete" => journal'[d] = "finalized"
      BY <1>1, <1>4, <1>5, <1>7, Here DEF RunOK
    <2>5. new["prepare"] # "none" => begun'[d]["prepare"] # 0
      BY <1>1, <1>2, <1>4, <1>5, Here DEF RunOK
    <2>6. journal'[d] \in Moved => legacy' = "moved"
      BY <1>1, Here DEF RunOK
    <2> QED
      BY <2>1, <2>2, <2>3, <2>4, <2>5, <2>6 DEF RunOK
  <1>9. SuspensionOK(d)'
    <2>1. Sole(d)' <=> Sole(d)
      BY <1>1 DEF Sole
    <2>2. s # "prepare" => mem[p].owners = disk[d].owners
      BY <1>1, Here DEF ResumeOK
    <2>3. Sole(d) /\ s = "prepare" /\ kust => mem[p].owners
      BY <1>1, Here DEF ResumeOK
    <2>4. new["prepare"] # "none"
      BY <1>2, <1>4, <1>5, Here DEF RunOK, FileOK, RolloutInv, Inv
    <2> QED
      BY <1>1, <1>2, <1>4, <1>5, <1>6, <2>1, <2>2, <2>3, <2>4, Here DEF SuspensionOK
  <1>10. StageOK(p)' /\ ResumeOK(p)'
    BY <1>1, Leaving
  <1> QED
    BY <1>1, <1>4, <1>8, <1>9, <1>10, Frame

LEMMA GoneKeepsRollout ==
    ASSUME OwnDirs, RolloutInv, Inv', NEW p \in Proc, Refuse(p) \/ Abort(p) \/ ScriptFails(p)
    PROVE  RolloutInv'
  <1>1. /\ at'[p] = "idle" /\ Local(p)
        /\ UNCHANGED <<disk, begun, lock, apps, kust, hr>>
        /\ Refuse(p) \/ Abort(p) => UNCHANGED <<journal, legacy>>
    BY Here DEF Refuse, Abort, ScriptFails, Exit, Forget, Local, diskVars, lockVars, fluxVars, appVars,
                dataVars, countVars
  <1>2. /\ \A d \in Dir \ {DirOf[p]} : journal'[d] = journal[d]
        /\ legacy = "moved" => legacy' = "moved"
        /\ journal[DirOf[p]] = "finalized" => journal'[DirOf[p]] = "finalized"
        /\ journal'[DirOf[p]] \in Moved => legacy' = "moved"
    BY <1>1, ScriptEffects, Here DEF RunOK
  <1>3. RunOK(DirOf[p])' /\ SuspensionOK(DirOf[p])'
    BY <1>1, <1>2, Here DEF RunOK, SuspensionOK, LogsDone, Sole
  <1>4. StageOK(p)' /\ ResumeOK(p)'
    BY <1>1, Leaving
  <1> QED
    BY <1>1, <1>2, <1>3, <1>4, Frame

LEMMA InvokeKeepsRollout ==
    ASSUME OwnDirs, RolloutInv, Inv', NEW p \in Proc, NEW s \in Stages, NEW m \in Modes, Invoke(p, s, m)
    PROVE  RolloutInv'
  <1> DEFINE d == DirOf[p]
  <1>1. /\ stage'[p] = s /\ at'[p] = (IF s = "prepare" THEN "preflight" ELSE "lockcheck")
        /\ mem'[p] = (IF disk[d].id = NoRun THEN NewState(m) ELSE disk[d])
        /\ Ready(mem'[p].steps, s) /\ Local(p) /\ Unmoved /\ s \in Stage
    BY Here, DomainAssumption
       DEF Invoke, Local, Unmoved, diskVars, lockVars, fluxVars, appVars, dataVars
  <1>2. s # "prepare" => mem'[p] = disk[d]
    <2> SUFFICES ASSUME s # "prepare", disk[d].id = NoRun PROVE FALSE
      BY <1>1
    <2>1. "prepare" \in Needs(mem'[p].steps, s)
      BY <1>1 DEF Needs, Stage
    <2>2. mem'[p].steps["prepare"] = "complete"
      BY <1>1, <2>1 DEF Ready
    <2> QED
      BY <1>1, <2>2 DEF NewState, Stage
  <1>3. StageOK(p)' /\ ResumeOK(p)'
    BY <1>1, <1>2 DEF StageOK, StepOf, ResumeOK, BackupOnly, MigrateOnly, RolloutOnly, PrepareOnly, Unmoved
  <1> QED
    BY <1>1, <1>3, Quiet

LEMMA ClusterKeepsRollout ==
    ASSUME OwnDirs, RolloutInv, Inv', ClusterStep \/ UNCHANGED vars
    PROVE  RolloutInv'
  <1>1. /\ UNCHANGED <<at, stage, mem, disk, journal, begun, lock, legacy, kust>>
        /\ hr' => hr
        /\ apps = "running" => apps' = "running"
    <2>1. ASSUME NEW d \in Dir, NEW i \in 1..NJobs, NEW r \in {"complete", "failed"}, JobEnds(d, i, r)
          PROVE  UNCHANGED <<at, stage, mem, disk, journal, begun, lock, legacy, kust, hr, apps>>
      BY <2>1 DEF JobEnds, procVars, diskVars, lockVars, fluxVars, appVars
    <2>2. CASE KustomizationReconciles \/ FluxStarts \/ FluxApplies
      BY <2>2 DEF KustomizationReconciles, FluxStarts, FluxApplies, procVars, diskVars, lockVars, appVars,
                  dataVars, countVars
    <2>3. CASE PodsTerminate \/ AppWrites
      BY <2>3 DEF PodsTerminate, AppWrites, procVars, diskVars, lockVars, fluxVars, appVars, dataVars, countVars
    <2>4. CASE UNCHANGED vars
      BY <2>4 DEF vars, procVars, diskVars, lockVars, fluxVars, appVars, dataVars, countVars
    <2> QED
      BY <2>1, <2>2, <2>3, <2>4 DEF ClusterStep
  <1>2. \A d \in Dir : RunOK(d)' /\ SuspensionOK(d)'
    BY <1>1 DEF RolloutInv, RunOK, SuspensionOK, LogsDone, Sole
  <1>3. \A p \in Proc : StageOK(p)' /\ ResumeOK(p)'
    BY <1>1 DEF RolloutInv, StageOK, StepOf, ResumeOK, LogsDone, Sole
  <1> QED
    BY <1>2, <1>3 DEF RolloutInv

LEMMA InitRollout == Init => RolloutInv
  <1> SUFFICES ASSUME Init PROVE RolloutInv
    OBVIOUS
  <1>1. /\ \A d \in Dir : journal[d] = "none" /\ \A s \in Stage : disk[d].steps[s] = "none"
        /\ ~kust
        /\ {"prepare", "rollout", "logs:finalize"} \subseteq Stage
    BY DEF Init, NewState, Stage, LogStage
  <1>2. \A d \in Dir : RunOK(d) /\ SuspensionOK(d)
    BY <1>1 DEF RunOK, SuspensionOK, Moved
  <1>3. \A p \in Proc : StageOK(p) /\ ResumeOK(p)
    BY DEF Init, StageOK, StepOf, ResumeOK, BackupOnly, MigrateOnly, RolloutOnly, PrepareOnly
  <1> QED
    BY <1>2, <1>3, InitInv DEF RolloutInv

LEMMA NextRollout == ASSUME OwnDirs, RolloutInv, [Next]_vars PROVE RolloutInv'
  <1>1. Inv'
    BY NextInv DEF RolloutInv
  <1>2. ASSUME NEW p \in Proc, Advance(p) PROVE RolloutInv'
    BY <1>1, <1>2, QuietKeeps, PrepareKeeps, StageKeeps, BeginKeeps, FinishKeeps
       DEF Advance, PrepareStep, ProtectStep, MigrateStep, ReleaseStep, QuietStep, PrepareMoves, StageMoves
  <1>3. ASSUME NEW p \in Proc, Refuse(p) \/ Abort(p) \/ ScriptFails(p) PROVE RolloutInv'
    BY <1>1, <1>3, GoneKeepsRollout
  <1>4. ASSUME NEW p \in Proc, NEW s \in Stages, NEW m \in Modes, Invoke(p, s, m) PROVE RolloutInv'
    BY <1>1, <1>4, InvokeKeepsRollout
  <1>5. CASE ClusterStep
    BY <1>1, <1>5, ClusterKeepsRollout
  <1>6. CASE UNCHANGED vars
    BY <1>1, <1>6, ClusterKeepsRollout
  <1> QED
    BY <1>2, <1>3, <1>4, <1>5, <1>6 DEF Next

LEMMA RolloutInvariance == ASSUME OwnDirs PROVE Spec => []RolloutInv
  <1>1. RolloutInv /\ [Next]_vars => RolloutInv'
    BY NextRollout
  <1> QED
    BY InitRollout, <1>1, PTL DEF Spec

\* However many runs compete and whatever fails, a run that has rolled out after
\* it began to move the legacy logs has them moved and its journal finalized, and
\* no later invocation of any run changes that.
THEOREM LogsStayFinalized == ASSUME OwnDirs PROVE Spec => []RolloutAfterLogsFinalized
  <1>1. RolloutInv => RolloutAfterLogsFinalized
    BY DEF RolloutInv, RunOK, LogsDone, Moved, RolloutAfterLogsFinalized
  <1> QED
    BY <1>1, RolloutInvariance, PTL

\* A completed rollout has resumed what its run suspended, in whatever order its
\* processes died before, unless another run has begun to prepare.
THEOREM FluxResumed == ASSUME OwnDirs PROVE Spec => []RolloutResumesFlux
  <1>1. RolloutInv => RolloutResumesFlux
    BY DEF RolloutInv, SuspensionOK, Sole, RolloutResumesFlux
  <1> QED
    BY <1>1, RolloutInvariance, PTL
=============================================================================
