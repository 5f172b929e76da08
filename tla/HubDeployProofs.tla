--------------------------- MODULE HubDeployProofs ---------------------------
(***************************************************************************)
(* What is proved of the runner for every number of runs, terminals, Jobs,  *)
(* invocations and failures.                                                *)
(***************************************************************************)
EXTENDS HubDeploy, TLAPS

-----------------------------------------------------------------------------
(***************************************************************************)
(* Types.  The phase the logs script leaves behind is defined for the log   *)
(* stages only, so typing needs to know that no other stage runs it.        *)
(***************************************************************************)
ScriptStage == \A p \in Proc : at[p] = "script" => stage[p] \in LogStage

Typed == TypeOK /\ ScriptStage

\* An ended process: Exit and Forget.
Gone(p) == Exit(p) /\ Forget(p)

LEMMA DirTyped == \A p \in Proc : DirOf[p] \in Dir
  BY DomainAssumption

LEMMA NewStateTyped == \A m \in {"fresh", "upgrade"} : NewState(m) \in RunState
  BY DEF NewState, RunState, Status, NoRun

LEMMA PhasesTyped ==
    \A s \in LogStage, j \in Phases : Enters(s, j) \in Phases /\ Leaves(s, j) \in Phases
  BY DEF LogStage, Phases, Enters, Leaves

\* A dictionary stays one when a stage, the id or a flag is recorded in it.
LEMMA StageRecorded ==
    ASSUME NEW st \in RunState, NEW s \in Stage, NEW x \in Status, NEW n \in Nat
    PROVE  /\ [st EXCEPT !.steps[s] = x] \in RunState
           /\ [st EXCEPT !.id = n, !.steps[s] = x] \in RunState
  <1>1. [st.steps EXCEPT ![s] = x] \in [Stage -> Status]
    BY DEF RunState
  <1> QED
    BY <1>1 DEF RunState

LEMMA Flagged ==
    ASSUME NEW st \in RunState, NEW b \in BOOLEAN
    PROVE  [st EXCEPT !.owners = b] \in RunState /\ [st EXCEPT !.verified = b] \in RunState
  BY DEF RunState

LEMMA GoneTyped ==
    ASSUME Typed, NEW p \in Proc, Gone(p)
    PROVE  /\ at' \in [Proc -> Steps] /\ stage' \in [Proc -> Stage]
           /\ mem' \in [Proc -> RunState] /\ cursor' \in [Proc -> 1..NJobs]
           /\ ScriptStage'
  <1>1. 1 \in 1..NJobs
    BY BoundsAssumption
  <1> QED
    BY <1>1, NewStateTyped DEF Typed, TypeOK, ScriptStage, Gone, Exit, Forget, Steps, Stage

LEMMA AdvanceTyped == ASSUME Typed, NEW p \in Proc, Advance(p) PROVE Typed'
  <1> USE DEF Typed
  <1>1. CASE Preflight(p)
    BY <1>1, DirTyped DEF TypeOK, ScriptStage, Steps, Preflight, Goto, vars, procVars, diskVars, lockVars, fluxVars, appVars, dataVars, countVars
  <1>2. CASE CheckLock(p)
    BY <1>2, DirTyped DEF TypeOK, ScriptStage, Steps, CheckLock, Goto, vars, procVars, diskVars, lockVars, fluxVars, appVars, dataVars, countVars
  <1>3. CASE CheckHeld(p)
    BY <1>3, DirTyped DEF TypeOK, ScriptStage, Steps, CheckHeld, Goto, vars, procVars, diskVars, lockVars, fluxVars, appVars, dataVars, countVars
  <1>4. CASE Begin(p)
    <2>1. mem[p] \in RunState /\ stage[p] \in Stage /\ runs \in Nat /\ mem[p].id \in Nat
      BY DEF TypeOK, RunState
    <2> DEFINE id == IF stage[p] = "prepare" THEN runs + 1 ELSE mem[p].id
               st == [mem[p] EXCEPT !.id = id, !.steps[stage[p]] = "started"]
    <2>2. st \in RunState
      <3>1. id \in Nat /\ "started" \in Status
        BY <2>1 DEF Status
      <3> HIDE DEF id
      <3> QED
        BY <2>1, <3>1, StageRecorded
    <2>3. FirstStep(stage[p]) \in Steps
          /\ (FirstStep(stage[p]) = "script" => stage[p] \in LogStage)
      BY <2>1 DEF FirstStep, Stage, LogStage, Steps
    <2>4. begun[DirOf[p]][stage[p]] + 1 \in Nat
      BY <2>1, DirTyped DEF TypeOK
    <2> HIDE DEF st
    <2>5. /\ at' = [at EXCEPT ![p] = FirstStep(stage[p])] /\ stage' = stage /\ cursor' = cursor
          /\ mem' = [mem EXCEPT ![p] = st] /\ disk' = [disk EXCEPT ![DirOf[p]] = st]
          /\ torn' = [torn EXCEPT ![DirOf[p]] = FALSE]
          /\ begun' = [begun EXCEPT ![DirOf[p]][stage[p]] = @ + 1]
          /\ runs' \in Nat
          /\ UNCHANGED <<lockVars, fluxVars, appVars, dataVars, spent, aborts>>
      BY <1>4, <2>1 DEF Begin, Goto, Checkpoint, Write, st
    <2>6. TypeOK'
      BY <2>2, <2>3, <2>4, <2>5, DirTyped DEF TypeOK, vars, procVars, diskVars, lockVars, fluxVars, appVars, dataVars, countVars
    <2>7. ScriptStage'
      BY <2>3, <2>5 DEF ScriptStage, TypeOK
    <2> QED
      BY <2>6, <2>7
  <1>5. CASE SuspendOwner(p)
    <2>1. [mem[p] EXCEPT !.owners = Live(p) /\ HasOwner] \in RunState /\ (kust \/ (Live(p) /\ HasOwner)) \in BOOLEAN
      BY Flagged, DomainAssumption DEF TypeOK
    <2>2. mem' = [mem EXCEPT ![p] = [mem[p] EXCEPT !.owners = Live(p) /\ HasOwner]]
      BY <1>5 DEF SuspendOwner, TypeOK
    <2> QED
      BY <1>5, <2>1, <2>2 DEF TypeOK, ScriptStage, Steps, SuspendOwner, Goto, vars, procVars, diskVars, lockVars, fluxVars, appVars, dataVars, countVars
  <1>6. CASE SuspendRelease(p)
    BY <1>6, DirTyped DEF TypeOK, ScriptStage, Steps, SuspendRelease, Goto, vars, procVars, diskVars, lockVars, fluxVars, appVars, dataVars, countVars
  <1>7. CASE RecordNamespace(p)
    BY <1>7, DirTyped DEF TypeOK, ScriptStage, Steps, RecordNamespace, Goto, Checkpoint, Write, vars, procVars, diskVars, lockVars, fluxVars, appVars, dataVars, countVars
  <1>8. CASE TakeLock(p)
    BY <1>8, DirTyped DEF TypeOK, ScriptStage, Steps, TakeLock, Goto, Live, RunState, vars, procVars, diskVars, lockVars, fluxVars, appVars, dataVars, countVars
  <1>9. CASE DeleteHpa(p)
    BY ZenonT(40), <1>9, DirTyped DEF TypeOK, ScriptStage, Steps, DeleteHpa, Goto, vars, procVars, diskVars, lockVars, fluxVars, appVars, dataVars, countVars
  <1>10. CASE Scale(p)
    BY <1>10, DirTyped DEF TypeOK, ScriptStage, Steps, Scale, Goto, ScaledDown, vars, procVars, diskVars, lockVars, fluxVars, appVars, dataVars, countVars
  <1>11. CASE WaitDrained(p)
    BY <1>11, DirTyped DEF TypeOK, ScriptStage, Steps, WaitDrained, Goto, vars, procVars, diskVars, lockVars, fluxVars, appVars, dataVars, countVars
  <1>12. CASE Bootstrap(p)
    <2> DEFINE st == [mem[p] EXCEPT !.steps["infrastructure"] = "complete"]
    <2>1. st \in RunState
      BY StageRecorded DEF TypeOK, Stage, Status
    <2> HIDE DEF st
    <2>2. \/ infra' = "new" /\ mem' = [mem EXCEPT ![p] = st]
          \/ UNCHANGED <<infra, mem>>
      BY <1>12 DEF Bootstrap, TypeOK, st
    <2>3. /\ at' = [at EXCEPT ![p] = "recordJobs"] /\ UNCHANGED <<stage, cursor>>
          /\ UNCHANGED <<diskVars, lockVars, fluxVars, appVars, legacy, jobs, backup, journal, countVars>>
      BY <1>12 DEF Bootstrap, Goto
    <2>4. mem' \in [Proc -> RunState] /\ infra' \in {"old", "binary", "new"}
      BY <2>1, <2>2 DEF TypeOK
    <2>5. ScriptStage' /\ at' \in [Proc -> Steps]
      BY <2>3 DEF TypeOK, ScriptStage, Steps
    <2> QED
      BY <2>3, <2>4, <2>5 DEF TypeOK, vars, procVars, diskVars, lockVars, fluxVars, appVars, dataVars, countVars
  <1>13. CASE RecordJobs(p)
    BY <1>13, DirTyped DEF TypeOK, ScriptStage, Steps, RecordJobs, Goto, Checkpoint, Write, Live, vars, procVars, diskVars, lockVars, fluxVars, appVars, dataVars, countVars
  <1>14. CASE HoldInstall(p)
    BY ZenonT(40), <1>14, DirTyped DEF TypeOK, ScriptStage, Steps, HoldInstall, Goto, ScaledDown, vars, procVars, diskVars, lockVars, fluxVars, appVars, dataVars, countVars
  <1>15. CASE CreatePod(p)
    BY <1>15, DirTyped DEF TypeOK, ScriptStage, Steps, CreatePod, Goto, RunState, vars, procVars, diskVars, lockVars, fluxVars, appVars, dataVars, countVars
  <1>16. CASE BackupHeld(p)
    BY <1>16, DirTyped DEF TypeOK, ScriptStage, Steps, BackupHeld, Goto, vars, procVars, diskVars, lockVars, fluxVars, appVars, dataVars, countVars
  <1>17. CASE Dump(p)
    BY <1>17, DirTyped DEF TypeOK, ScriptStage, Steps, Dump, Goto, vars, procVars, diskVars, lockVars, fluxVars, appVars, dataVars, countVars
  <1>18. CASE FreezeTables(p)
    BY <1>18, DirTyped DEF TypeOK, ScriptStage, Steps, FreezeTables, Goto, Checkpoint, Write, vars, procVars, diskVars, lockVars, fluxVars, appVars, dataVars, countVars
  <1>19. CASE VerifyBackup(p)
    <2> DEFINE st == [mem[p] EXCEPT !.verified = TRUE]
    <2>1. st \in RunState
      BY Flagged DEF TypeOK
    <2>2. mem' = [mem EXCEPT ![p] = st] /\ disk' = [disk EXCEPT ![DirOf[p]] = st]
          /\ torn' = [torn EXCEPT ![DirOf[p]] = FALSE]
      BY <1>19 DEF VerifyBackup, Checkpoint, Write
    <2> HIDE DEF st
    <2> QED
      BY <1>19, <2>1, <2>2, DirTyped DEF TypeOK, ScriptStage, Steps, VerifyBackup, Goto, vars, procVars, diskVars, lockVars, fluxVars, appVars, dataVars, countVars
  <1>20. CASE Unfreeze(p)
    BY <1>20, DirTyped DEF TypeOK, ScriptStage, Steps, Unfreeze, Goto, vars, procVars, diskVars, lockVars, fluxVars, appVars, dataVars, countVars
  <1>21. CASE PatchBinary(p)
    BY <1>21, DirTyped DEF TypeOK, ScriptStage, Steps, PatchBinary, Goto, vars, procVars, diskVars, lockVars, fluxVars, appVars, dataVars, countVars
  <1>22. CASE ApplyTargets(p)
    BY <1>22, DirTyped DEF TypeOK, ScriptStage, Steps, ApplyTargets, Goto, vars, procVars, diskVars, lockVars, fluxVars, appVars, dataVars, countVars
  <1>23. CASE RunScript(p)
    <2>1. Leaves(stage[p], journal[DirOf[p]]) \in Phases
      BY <1>23, PhasesTyped, DirTyped DEF RunScript, ScriptStage, TypeOK
    <2> QED
      BY <1>23, <2>1, DirTyped DEF TypeOK, ScriptStage, Steps, RunScript, Goto, vars, procVars, diskVars, lockVars, fluxVars, appVars, dataVars, countVars
  <1>24. CASE LegacyCheck(p)
    BY <1>24, DirTyped DEF TypeOK, ScriptStage, Steps, LegacyCheck, Goto, vars, procVars, diskVars, lockVars, fluxVars, appVars, dataVars, countVars
  <1>25. CASE HeldAgain(p)
    BY <1>25, DirTyped DEF TypeOK, ScriptStage, Steps, HeldAgain, Goto, vars, procVars, diskVars, lockVars, fluxVars, appVars, dataVars, countVars
  <1>26. CASE CreateJob(p)
    BY <1>26, DirTyped DEF TypeOK, ScriptStage, Steps, CreateJob, Goto, vars, procVars, diskVars, lockVars, fluxVars, appVars, dataVars, countVars
  <1>27. CASE WaitJob(p)
    <2>1. cursor[p] # NJobs => cursor[p] + 1 \in 1..NJobs
      BY BoundsAssumption DEF TypeOK
    <2>2. \/ at' = [at EXCEPT ![p] = "migrateCheck"] /\ cursor' = cursor
          \/ /\ at' = [at EXCEPT ![p] = "createJob"]
             /\ cursor[p] # NJobs /\ cursor' = [cursor EXCEPT ![p] = cursor[p] + 1]
      BY <1>27 DEF WaitJob, Goto
    <2>3. stage' = stage /\ UNCHANGED <<mem, diskVars, lockVars, fluxVars, appVars, dataVars, countVars>>
      BY <1>27 DEF WaitJob, Goto
    <2>4. cursor' \in [Proc -> 1..NJobs]
      BY <2>1, <2>2 DEF TypeOK
    <2>5. at' \in [Proc -> Steps] /\ ScriptStage'
      BY <2>2, <2>3 DEF TypeOK, ScriptStage, Steps
    <2> QED
      BY <2>3, <2>4, <2>5 DEF TypeOK, vars, procVars, diskVars, lockVars, fluxVars, appVars, dataVars, countVars
  <1>28. CASE MigrateCheck(p)
    BY <1>28, DirTyped DEF TypeOK, ScriptStage, Steps, MigrateCheck, Goto, vars, procVars, diskVars, lockVars, fluxVars, appVars, dataVars, countVars
  <1>29. CASE Install(p)
    BY <1>29, DirTyped DEF TypeOK, ScriptStage, Steps, Install, Goto, vars, procVars, diskVars, lockVars, fluxVars, appVars, dataVars, countVars
  <1>30. CASE ResumeRelease(p)
    <2>1. /\ at' = [at EXCEPT ![p] = "resumeOwners"] /\ UNCHANGED <<stage, cursor, mem>>
          /\ hr' = FALSE /\ release' = "live"
          /\ UNCHANGED <<diskVars, lockVars, kust, inflight, outlived, appVars, dataVars, countVars>>
      BY <1>30 DEF ResumeRelease, Goto
    <2>2. at' \in [Proc -> Steps] /\ ScriptStage'
      BY <2>1 DEF TypeOK, ScriptStage, Steps
    <2> QED
      BY <2>1, <2>2 DEF TypeOK, diskVars, lockVars, appVars, dataVars, countVars
  <1>31. CASE ResumeOwners(p)
    BY <1>31, DirTyped DEF TypeOK, ScriptStage, Steps, ResumeOwners, Goto, vars, procVars, diskVars, lockVars, fluxVars, appVars, dataVars, countVars
  <1>32. CASE RolloutStatus(p)
    BY <1>32, DirTyped DEF TypeOK, ScriptStage, Steps, RolloutStatus, Goto, vars, procVars, diskVars, lockVars, fluxVars, appVars, dataVars, countVars
  <1>33. CASE Capture(p)
    BY <1>33, DirTyped DEF TypeOK, ScriptStage, Steps, Capture, Goto, vars, procVars, diskVars, lockVars, fluxVars, appVars, dataVars, countVars
  <1>34. CASE Align(p)
    BY <1>34, DirTyped DEF TypeOK, ScriptStage, Steps, Align, Goto, vars, procVars, diskVars, lockVars, fluxVars, appVars, dataVars, countVars
  <1>35. CASE DeletePod(p)
    BY <1>35, DirTyped DEF TypeOK, ScriptStage, Steps, DeletePod, Goto, NoRun, vars, procVars, diskVars, lockVars, fluxVars, appVars, dataVars, countVars
  <1>36. CASE DeleteLock(p)
    BY <1>36, DirTyped DEF TypeOK, ScriptStage, Steps, DeleteLock, Goto, NoRun, vars, procVars, diskVars, lockVars, fluxVars, appVars, dataVars, countVars
  <1>37. CASE Finish(p)
    <2> DEFINE st == [mem[p] EXCEPT !.steps[stage[p]] = "complete"]
    <2>1. st \in RunState
      BY StageRecorded DEF TypeOK, Status
    <2>2. disk' = [disk EXCEPT ![DirOf[p]] = st] /\ torn' = [torn EXCEPT ![DirOf[p]] = FALSE]
      BY <1>37 DEF Finish, Write
    <2>3. Gone(p)
      BY <1>37 DEF Finish, Gone
    <2> HIDE DEF st
    <2> QED
      BY <1>37, <2>1, <2>2, <2>3, GoneTyped, DirTyped DEF TypeOK, Finish, vars, procVars, diskVars, lockVars, fluxVars, appVars, dataVars, countVars
  <1> QED
    BY <1>1, <1>2, <1>3, <1>4, <1>5, <1>6, <1>7, <1>8, <1>9, <1>10, <1>11, <1>12, <1>13, <1>14, <1>15, <1>16, <1>17, <1>18, <1>19, <1>20, <1>21, <1>22, <1>23, <1>24, <1>25, <1>26, <1>27, <1>28, <1>29, <1>30, <1>31, <1>32, <1>33, <1>34, <1>35, <1>36, <1>37 DEF Advance, PrepareStep, ProtectStep, MigrateStep, ReleaseStep

LEMMA OtherTyped ==
    ASSUME Typed, NEW p \in Proc,
           \/ \E s \in Stages, m \in Modes : Invoke(p, s, m)
           \/ ScriptFails(p) \/ Refuse(p) \/ Abort(p)
    PROVE  Typed'
  <1> USE DEF Typed
  <1>1. ASSUME NEW s \in Stages, NEW m \in Modes, Invoke(p, s, m) PROVE Typed'
    <2>1. s \in Stage /\ m \in {"fresh", "upgrade"}
      BY DomainAssumption
    <2>2. mem' \in [Proc -> RunState]
      BY <1>1, <2>1, NewStateTyped, DirTyped DEF Invoke, TypeOK
    <2>3. spent' \in 0..MaxInvocations
      BY <1>1, BoundsAssumption DEF Invoke, TypeOK
    <2> QED
      BY <1>1, <2>1, <2>2, <2>3 DEF Invoke, TypeOK, ScriptStage, Steps, vars, procVars, diskVars, lockVars, fluxVars, appVars, dataVars, countVars
  <1>2. CASE ScriptFails(p)
    <2>1. /\ Leaves(stage[p], journal[DirOf[p]]) \in Phases
          /\ Enters(stage[p], journal[DirOf[p]]) \in Phases
      BY <1>2, PhasesTyped, DirTyped DEF ScriptFails, ScriptStage, TypeOK
    <2>2. Gone(p)
      BY <1>2 DEF ScriptFails, Gone
    <2>3. journal' \in [Dir -> Phases]
      BY <1>2, <2>1 DEF ScriptFails, TypeOK
    <2>4. legacy' \in {"none", "default", "mixed", "moved"}
      BY <1>2 DEF ScriptFails, TypeOK
    <2>5. aborts' \in 0..MaxAborts
      BY <1>2, BoundsAssumption DEF ScriptFails, TypeOK
    <2> QED
      BY <1>2, <2>2, <2>3, <2>4, <2>5, GoneTyped DEF ScriptFails, TypeOK, vars, procVars, diskVars, lockVars, fluxVars, appVars, dataVars, countVars
  <1>3. CASE Refuse(p)
    <2>1. Gone(p)
      BY <1>3 DEF Refuse, Gone
    <2> QED
      BY <1>3, <2>1, GoneTyped DEF Refuse, TypeOK, vars, procVars, diskVars, lockVars, fluxVars, appVars, dataVars, countVars
  <1>4. CASE Abort(p)
    <2>1. Gone(p)
      BY <1>4 DEF Abort, Gone
    <2>2. aborts' \in 0..MaxAborts
      BY <1>4, BoundsAssumption DEF Abort, TypeOK
    <2>3. torn' \in [Dir -> BOOLEAN]
      BY <1>4, DirTyped DEF Abort, TypeOK
    <2> QED
      BY <1>4, <2>1, <2>2, <2>3, GoneTyped DEF Abort, TypeOK, vars, procVars, diskVars, lockVars, fluxVars, appVars, dataVars, countVars
  <1> QED
    BY <1>1, <1>2, <1>3, <1>4

LEMMA ClusterTyped == ASSUME Typed, ClusterStep PROVE Typed'
  <1> USE DEF Typed
  <1>1. CASE KustomizationReconciles
    BY <1>1 DEF KustomizationReconciles, TypeOK, ScriptStage,
                vars, procVars, diskVars, lockVars, fluxVars, appVars, dataVars, countVars
  <1>2. CASE FluxStarts
    BY <1>2 DEF FluxStarts, TypeOK, ScriptStage,
                vars, procVars, diskVars, lockVars, fluxVars, appVars, dataVars, countVars
  <1>3. CASE FluxApplies
    BY <1>3 DEF FluxApplies, TypeOK, ScriptStage,
                vars, procVars, diskVars, lockVars, fluxVars, appVars, dataVars, countVars
  <1>4. CASE PodsTerminate
    BY <1>4 DEF PodsTerminate, TypeOK, ScriptStage,
                vars, procVars, diskVars, lockVars, fluxVars, appVars, dataVars, countVars
  <1>5. CASE AppWrites
    BY <1>5 DEF AppWrites, TypeOK, ScriptStage, vars, procVars, diskVars, lockVars, fluxVars, appVars, dataVars, countVars
  <1>6. ASSUME NEW d \in Dir, NEW i \in 1..NJobs, NEW r \in {"complete", "failed"}, JobEnds(d, i, r)
        PROVE  Typed'
    <2>1. aborts' \in 0..MaxAborts
      BY <1>6, BoundsAssumption DEF JobEnds, TypeOK
    <2> QED
      BY <1>6, <2>1 DEF JobEnds, TypeOK, ScriptStage, vars, procVars, diskVars, lockVars, fluxVars, appVars, dataVars, countVars
  <1> QED
    BY <1>1, <1>2, <1>3, <1>4, <1>5, <1>6 DEF ClusterStep

LEMMA InitTyped == Init => Typed
  <1> SUFFICES ASSUME Init PROVE Typed
    OBVIOUS
  <1>1. 1 \in 1..NJobs
    BY BoundsAssumption
  <1>2. /\ at \in [Proc -> Steps] /\ stage \in [Proc -> Stage]
        /\ cursor \in [Proc -> 1..NJobs] /\ ScriptStage
    BY <1>1 DEF Init, ScriptStage, Steps, Stage
  <1>3. mem \in [Proc -> RunState] /\ disk \in [Dir -> RunState]
    BY NewStateTyped DEF Init
  <1>4. /\ torn \in [Dir -> BOOLEAN] /\ journal \in [Dir -> Phases]
        /\ backup \in [Dir -> {"none", "taken", "stale"}]
        /\ begun \in [Dir -> [Stage -> Nat]]
    BY DEF Init, Phases
  <1>5. jobs \in [Dir -> [1..NJobs -> {"absent", "running", "complete", "failed"}]]
    BY DEF Init
  <1>6. lock \in Nat /\ pod \in Nat /\ runs \in Nat /\ spent \in 0..MaxInvocations /\ aborts \in 0..MaxAborts
    BY BoundsAssumption DEF Init, NoRun
  <1>7. /\ release \in {"absent", "live"} /\ legacy \in {"none", "default", "mixed", "moved"}
        /\ kust \in BOOLEAN /\ hr \in BOOLEAN /\ inflight \in BOOLEAN /\ outlived \in BOOLEAN /\ hpa \in BOOLEAN
        /\ apps \in {"running", "draining", "stopped"} /\ infra \in {"old", "binary", "new"}
    BY DomainAssumption DEF Init
  <1> QED
    BY <1>2, <1>3, <1>4, <1>5, <1>6, <1>7 DEF Typed, TypeOK

LEMMA NextTyped == Typed /\ [Next]_vars => Typed'
  <1> SUFFICES ASSUME Typed, [Next]_vars PROVE Typed'
    OBVIOUS
  <1>1. CASE UNCHANGED vars
    BY <1>1 DEF Typed, TypeOK, ScriptStage, vars, procVars, diskVars, lockVars, fluxVars, appVars, dataVars, countVars
  <1> QED
    BY <1>1, AdvanceTyped, OtherTyped, ClusterTyped DEF Next

\* Every variable of the runner keeps its type in every reachable state:
\* job indexes stay within the rendered hooks, the journal within its phases.
THEOREM Typing == Spec => []TypeOK
  <1>1. Spec => []Typed
    BY InitTyped, NextTyped, PTL DEF Spec
  <1> QED
    BY <1>1, PTL DEF Typed

-----------------------------------------------------------------------------
(***************************************************************************)
(* Who owns the cluster: what the lock ConfigMap, compared once per stage,  *)
(* and the state file, rewritten whole at every checkpoint, guarantee when  *)
(* every operator uses a state directory of their own.                      *)
(***************************************************************************)

OwnDirs == \A p, q \in Proc : DirOf[p] = DirOf[q] => p = q

BeforeBegin == {"preflight", "lockcheck", "heldcheck", "begin"}
PrepareOnly == {"suspendOwner", "suspendRelease", "recordNamespace", "takeLock",
                "deleteHpa", "scale", "drain", "bootstrap", "recordJobs", "createPod"}
VerifyOnly  == {"capture", "align", "deletePod", "deleteLock"}

\* The steps of the stages other than prepare.
OtherStages == {"lockcheck", "heldcheck", "backupHeld", "dump", "freeze", "verifyBackup",
                "unfreeze", "binary", "targets", "script", "legacyCheck", "heldAgain",
                "createJob", "waitJob", "migrateCheck", "install", "resumeRelease",
                "resumeOwners", "rolloutStatus", "capture", "align", "deletePod", "deleteLock"}

\* The part of the control flow that ties a step to its stage.
StageOfStep(p) ==
    /\ at[p] = "preflight" => stage[p] = "prepare"
    /\ at[p] \in OtherStages => stage[p] # "prepare"
    /\ at[p] \in PrepareOnly => stage[p] = "prepare"
    /\ at[p] \in VerifyOnly => stage[p] = "verify"

\* What a running process holds in memory, against its own state file.  The
\* two differ only while a fresh target's infrastructure awaits its checkpoint.
MemoryOf(p) ==
    LET file == disk[DirOf[p]]
    IN at[p] # "idle" =>
        /\ mem[p].id = file.id
        /\ at[p] # "recordJobs" => mem[p].steps = file.steps
        /\ at[p] = "recordJobs" =>
              \/ mem[p].steps = file.steps
              \/ mem[p].steps = [file.steps EXCEPT !["infrastructure"] = "complete"]
        /\ at[p] \in BeforeBegin => Ready(file.steps, stage[p])
        /\ at[p] \notin BeforeBegin => file.steps[stage[p]] = "started"
        /\ at[p] \in PrepareOnly \ {"createPod"} => file.steps["infrastructure"] = "none"

Owns(p) ==
    /\ Acting(p) => lock = mem[p].id
    /\ at[p] = "finish" /\ stage[p] = "prepare" => pod = mem[p].id

ProcOK(p) == StageOfStep(p) /\ MemoryOf(p) /\ Owns(p)

\* Run ids are drawn once; a stage that is not recorded was never begun.
FileOK(d) ==
    /\ disk[d].id <= runs
    /\ (disk[d].id = NoRun) <=> (disk[d].steps["prepare"] = "none")
    /\ disk[d].steps["prepare"] = "none" => \A s \in Stage : disk[d].steps[s] = "none"
    /\ \A s \in Stage : begun[d][s] <= 1 /\ (disk[d].steps[s] = "none" => begun[d][s] = 0)

UniqueIds == \A d, e \in Dir : disk[d].id = disk[e].id /\ disk[d].id # NoRun => d = e

Inv ==
    /\ Typed
    /\ \A p \in Proc : ProcOK(p)
    /\ \A d \in Dir : FileOK(d)
    /\ UniqueIds
    /\ lock <= runs
    /\ FailureKeepsLockAndPod

\* The processes other than p keep their state.
Local(p) ==
    \A q \in Proc \ {p} : at'[q] = at[q] /\ stage'[q] = stage[q] /\ mem'[q] = mem[q]

-----------------------------------------------------------------------------
\* A process that acts belongs to a run that holds the lock and is on disk.
LEMMA ActingHolds ==
    ASSUME Inv, NEW p \in Proc, Acting(p)
    PROVE  /\ lock = mem[p].id /\ lock = disk[DirOf[p]].id /\ lock # NoRun
           /\ disk[DirOf[p]].steps["prepare"] # "none"
  <1>1. /\ at[p] # "idle" /\ lock = mem[p].id /\ lock = disk[DirOf[p]].id
        /\ DirOf[p] \in Dir /\ stage[p] \in Stage
    BY DirTyped DEF Inv, ProcOK, MemoryOf, Owns, Acting, Typed, TypeOK
  <1>2. CASE at[p] \in BeforeBegin
    <2>1. stage[p] # "prepare" /\ Ready(disk[DirOf[p]].steps, stage[p])
      BY <1>1, <1>2 DEF Inv, ProcOK, StageOfStep, MemoryOf, Acting, BeforeBegin, OtherStages
    <2>2. "prepare" \in Needs(disk[DirOf[p]].steps, stage[p])
      BY <2>1 DEF Needs, Stage
    <2>3. disk[DirOf[p]].steps["prepare"] = "complete"
      BY <2>1, <2>2 DEF Ready
    <2> QED
      BY <1>1, <2>3 DEF Inv, FileOK
  <1>3. CASE at[p] \notin BeforeBegin
    <2>1. disk[DirOf[p]].steps[stage[p]] = "started"
      BY <1>1, <1>3 DEF Inv, ProcOK, MemoryOf
    <2> QED
      BY <1>1, <2>1 DEF Inv, FileOK
  <1> QED
    BY <1>2, <1>3

LEMMA OneActor ==
    ASSUME OwnDirs, Inv, NEW p \in Proc, NEW q \in Proc, Acting(p), Acting(q)
    PROVE  p = q
  <1>1. disk[DirOf[p]].id = disk[DirOf[q]].id /\ disk[DirOf[p]].id # NoRun
    BY ActingHolds
  <1> QED
    BY <1>1, DirTyped DEF OwnDirs, Inv, UniqueIds

\* A step that changes the state file of p's own run, or the lock or pod only
\* when no other process acts: the other processes notice nothing.
LEMMA OthersKept ==
    ASSUME Inv, OwnDirs, NEW p \in Proc, Local(p),
           \A d \in Dir \ {DirOf[p]} : disk'[d] = disk[d],
           NEW q \in Proc, q # p,
           Acting(q) => lock' = lock /\ pod' = pod
    PROVE  ProcOK(q)'
  <1>1. DirOf[q] \in Dir \ {DirOf[p]}
    BY DirTyped DEF OwnDirs
  <1>2. disk'[DirOf[q]] = disk[DirOf[q]] /\ at'[q] = at[q] /\ stage'[q] = stage[q] /\ mem'[q] = mem[q]
    BY <1>1 DEF Local
  <1>3. StageOfStep(q)' /\ MemoryOf(q)'
    BY <1>2 DEF Inv, ProcOK, StageOfStep, MemoryOf
  <1>4. Owns(q)'
    BY <1>2 DEF Inv, ProcOK, Owns, Acting
  <1> QED
    BY <1>3, <1>4 DEF ProcOK

\* Ids, recorded stages, the lock and the pod stay as they are.
SameRecord ==
    /\ \A d \in Dir : disk'[d].id = disk[d].id /\ disk'[d].steps = disk[d].steps
    /\ UNCHANGED <<lock, pod, begun, runs>>

LEMMA RecordKept ==
    ASSUME Inv, Typed', NEW p \in Proc, Local(p), SameRecord, ProcOK(p)'
    PROVE  Inv'
  <1>1. ASSUME NEW q \in Proc, q # p PROVE ProcOK(q)'
    <2>1. /\ at'[q] = at[q] /\ stage'[q] = stage[q] /\ mem'[q] = mem[q] /\ DirOf[q] \in Dir
          /\ disk'[DirOf[q]].id = disk[DirOf[q]].id /\ disk'[DirOf[q]].steps = disk[DirOf[q]].steps
      BY <1>1, DirTyped DEF Local, SameRecord
    <2>2. StageOfStep(q)' /\ MemoryOf(q)'
      BY <2>1 DEF Inv, ProcOK, StageOfStep, MemoryOf
    <2> QED
      BY <2>1, <2>2 DEF Inv, ProcOK, Owns, Acting, SameRecord
  <1>2. \A d \in Dir : FileOK(d)'
    BY DEF Inv, FileOK, SameRecord
  <1>3. UniqueIds' /\ lock' <= runs' /\ FailureKeepsLockAndPod'
    BY DEF Inv, UniqueIds, FailureKeepsLockAndPod, SameRecord
  <1> QED
    BY <1>1, <1>2, <1>3 DEF Inv

\* A process that begun its stage goes from one step of it to another.
LEMMA Moves ==
    ASSUME Inv, Typed', NEW p \in Proc, NEW l, Local(p), SameRecord,
           at'[p] = l, stage'[p] = stage[p],
           mem'[p].id = mem[p].id, mem'[p].steps = mem[p].steps,
           at[p] \notin BeforeBegin \cup {"idle", "recordJobs"},
           l \notin BeforeBegin \cup {"idle", "recordJobs"},
           l \in PrepareOnly => stage[p] = "prepare",
           l \in PrepareOnly \ {"createPod"} => at[p] \in PrepareOnly \ {"createPod"},
           l \in OtherStages \cup {"finish"} => stage[p] # "prepare",
           l \in VerifyOnly => stage[p] = "verify",
           Acting(p)' => Acting(p)
    PROVE  Inv'
  <1>1. DirOf[p] \in Dir
    BY DirTyped
  <1>2. StageOfStep(p)'
    BY DEF StageOfStep, BeforeBegin
  <1>3. MemoryOf(p)'
    BY <1>1 DEF Inv, ProcOK, MemoryOf, SameRecord
  <1>4. Owns(p)'
    BY DEF Inv, ProcOK, Owns, SameRecord
  <1> QED
    BY <1>2, <1>3, <1>4, RecordKept DEF ProcOK

LEMMA AdvanceKeeps == ASSUME OwnDirs, Inv, Typed', NEW p \in Proc, Advance(p) PROVE Inv'
  <1>1. CASE Preflight(p)
    <2>1. Local(p) /\ SameRecord
      BY <1>1 DEF Preflight, Goto, Local, SameRecord, Typed, TypeOK, vars, procVars, diskVars, lockVars, fluxVars, appVars, dataVars, countVars
    <2>2. ProcOK(p)'
      BY <1>1 DEF Preflight, Goto, Inv, ProcOK, StageOfStep, MemoryOf, Owns, Acting, BeforeBegin, PrepareOnly, OtherStages, VerifyOnly, Typed, TypeOK, vars, procVars, diskVars, lockVars, fluxVars, appVars, dataVars, countVars
    <2> QED
      BY <2>1, <2>2, RecordKept
  <1>2. CASE CheckLock(p)
    <2>1. Local(p) /\ SameRecord
      BY <1>2 DEF CheckLock, Goto, Local, SameRecord, Typed, TypeOK, vars, procVars, diskVars, lockVars, fluxVars, appVars, dataVars, countVars
    <2>2. ProcOK(p)'
      BY <1>2 DEF CheckLock, Goto, Inv, ProcOK, StageOfStep, MemoryOf, Owns, Acting, BeforeBegin, PrepareOnly, OtherStages, VerifyOnly, Typed, TypeOK, vars, procVars, diskVars, lockVars, fluxVars, appVars, dataVars, countVars
    <2> QED
      BY <2>1, <2>2, RecordKept
  <1>3. CASE CheckHeld(p)
    <2>1. Local(p) /\ SameRecord
      BY <1>3 DEF CheckHeld, Goto, Local, SameRecord, Typed, TypeOK, vars, procVars, diskVars, lockVars, fluxVars, appVars, dataVars, countVars
    <2>2. ProcOK(p)'
      BY <1>3 DEF CheckHeld, Goto, Inv, ProcOK, StageOfStep, MemoryOf, Owns, Acting, BeforeBegin, PrepareOnly, OtherStages, VerifyOnly, Typed, TypeOK, vars, procVars, diskVars, lockVars, fluxVars, appVars, dataVars, countVars
    <2> QED
      BY <2>1, <2>2, RecordKept
  <1>4. CASE Begin(p)
    <2> DEFINE d == DirOf[p]
               s == stage[p]
               id == IF s = "prepare" THEN runs + 1 ELSE mem[p].id
    <2>1. d \in Dir /\ s \in Stage /\ runs \in Nat /\ mem[p] \in RunState
      BY DirTyped DEF Inv, Typed, TypeOK
    <2>2. /\ at[p] = "begin" /\ at'[p] = FirstStep(s) /\ stage'[p] = s
          /\ mem'[p].id = id /\ mem'[p].steps = [mem[p].steps EXCEPT ![s] = "started"]
          /\ disk' = [disk EXCEPT ![d] = mem'[p]]
          /\ Local(p)
      BY <1>4, <2>1 DEF Begin, Goto, Checkpoint, Write, Local, Inv, Typed, TypeOK, RunState
    <2>3. /\ runs' = (IF s = "prepare" THEN runs + 1 ELSE runs)
          /\ begun' = [begun EXCEPT ![d][s] = @ + 1]
          /\ UNCHANGED <<lock, pod>>
      BY <1>4 DEF Begin, lockVars
    <2>4. disk'[d].id = id /\ disk'[d].steps = [disk[d].steps EXCEPT ![s] = "started"]
          /\ \A e \in Dir \ {d} : disk'[e] = disk[e]
      BY <2>1, <2>2 DEF Inv, ProcOK, MemoryOf, Typed, TypeOK
    <2>5. /\ mem[p].id = disk[d].id /\ Ready(disk[d].steps, s) /\ disk[d].steps[s] = "none"
          /\ disk[d].steps \in [Stage -> Status]
      BY <2>1, <2>2 DEF Inv, ProcOK, MemoryOf, BeforeBegin, Ready, Typed, TypeOK, RunState
    <2>6. s # "prepare" => /\ disk[d].steps["prepare"] = "complete" /\ Acting(p) /\ lock = disk[d].id
                           /\ disk[d].id # NoRun
      <3>1. SUFFICES ASSUME s # "prepare" PROVE disk[d].steps["prepare"] = "complete" /\ Acting(p)
        BY ActingHolds
      <3>2. "prepare" \in Needs(disk[d].steps, s)
        BY <3>1 DEF Needs, Stage
      <3> QED
        BY <2>2, <2>5, <3>1, <3>2 DEF Ready, Acting
    <2>7. s = "prepare" => disk[d].id = NoRun /\ \A r \in Stage : disk[d].steps[r] = "none"
      BY <2>1, <2>5 DEF Inv, FileOK
    <2>8. FirstStep(s) \notin BeforeBegin \cup {"idle", "finish"}
          /\ (FirstStep(s) \in PrepareOnly <=> s = "prepare") /\ FirstStep(s) \notin {"recordJobs", "createPod"}
          /\ (FirstStep(s) \in OtherStages <=> s # "prepare")
          /\ (FirstStep(s) \in VerifyOnly => s = "verify")
          /\ (s = "prepare" => FirstStep(s) = "suspendOwner")
      BY <2>1 DEF FirstStep, Stage, LogStage, BeforeBegin, PrepareOnly, OtherStages, VerifyOnly
    <2> HIDE DEF id
    <2>9. ProcOK(p)'
      <3>1. StageOfStep(p)'
        BY <2>2, <2>8 DEF StageOfStep, BeforeBegin
      <3>2. mem'[p].id = disk'[d].id /\ mem'[p].steps = disk'[d].steps /\ disk'[d].steps[s] = "started"
        BY <2>1, <2>2, <2>4, <2>5 DEF Inv, ProcOK, MemoryOf
      <3>3. s = "prepare" => disk'[d].steps["infrastructure"] = "none"
        BY <2>1, <2>4, <2>5, <2>7 DEF Stage
      <3>4. MemoryOf(p)'
        BY <2>2, <2>8, <3>2, <3>3 DEF MemoryOf
      <3>5. Owns(p)'
        BY <2>2, <2>3, <2>5, <2>6, <2>8 DEF Owns, Acting, id
      <3> QED
        BY <3>1, <3>4, <3>5 DEF ProcOK
    <2>10. \A q \in Proc : ProcOK(q)'
      BY <2>2, <2>3, <2>4, <2>9, OthersKept
    <2>11. \A e \in Dir : FileOK(e)'
      <3>1. ASSUME NEW e \in Dir, e # d PROVE FileOK(e)'
        <4>1. disk'[e] = disk[e] /\ begun'[e] = begun[e] /\ runs' >= runs
              /\ disk[e].id \in Nat /\ FileOK(e)
          BY SMTT(30), <2>1, <2>3, <2>4, <3>1 DEF Inv, Typed, TypeOK, RunState
        <4> QED
          BY <2>1, <2>3, <4>1 DEF FileOK
      <3>2. disk'[d].id <= runs' /\ disk'[d].id # NoRun /\ disk'[d].steps["prepare"] # "none"
        BY <2>1, <2>3, <2>4, <2>5, <2>6 DEF Inv, FileOK, id, NoRun, Status, Stage
      <3>3. ASSUME NEW r \in Stage
            PROVE  begun'[d][r] <= 1 /\ (disk'[d].steps[r] = "none" => begun'[d][r] = 0)
        <4>1. begun[d] \in [Stage -> Nat] /\ begun[d][s] = 0 /\ begun[d][r] <= 1
              /\ (disk[d].steps[r] = "none" => begun[d][r] = 0)
          BY <2>1, <2>5 DEF Inv, FileOK, Typed, TypeOK
        <4>2. begun'[d][r] = IF r = s THEN 1 ELSE begun[d][r]
          BY <2>1, <2>3, <4>1 DEF Inv, Typed, TypeOK
        <4>3. disk'[d].steps[r] = IF r = s THEN "started" ELSE disk[d].steps[r]
          BY <2>1, <2>4, <2>5
        <4> QED
          BY <4>1, <4>2, <4>3
      <3>4. FileOK(d)'
        BY <3>2, <3>3 DEF FileOK
      <3> QED
        BY <3>1, <3>4
    <2>12. UniqueIds'
      <3>1. ASSUME NEW e \in Dir, NEW f \in Dir, e # d, f # d,
                   disk'[e].id = disk'[f].id, disk'[e].id # NoRun
            PROVE  e = f
        BY <2>4, <3>1 DEF Inv, UniqueIds
      <3>2. ASSUME NEW e \in Dir, e # d PROVE disk'[e].id # id \/ disk'[e].id = NoRun
        <4>1. CASE s = "prepare"
          BY SMTT(30), <2>1, <2>4, <3>2, <4>1 DEF Inv, FileOK, id, Typed, TypeOK, RunState
        <4>2. CASE s # "prepare"
          BY <2>1, <2>4, <2>5, <2>6, <3>2, <4>2 DEF Inv, UniqueIds, id
        <4> QED
          BY <4>1, <4>2
      <3> QED
        BY <2>4, <3>1, <3>2 DEF UniqueIds
    <2>13. lock' <= runs'
      BY <2>1, <2>3 DEF Inv, Typed, TypeOK
    <2>14. FailureKeepsLockAndPod'
      <3>1. ASSUME NEW e \in Dir, e # d,
                   disk'[e].steps["prepare"] = "complete", disk'[e].steps["verify"] = "none"
            PROVE  lock' = disk'[e].id /\ pod' = disk'[e].id
        BY <2>3, <2>4, <3>1 DEF Inv, FailureKeepsLockAndPod
      <3>2. ASSUME disk'[d].steps["prepare"] = "complete", disk'[d].steps["verify"] = "none"
            PROVE  lock' = disk'[d].id /\ pod' = disk'[d].id
        <4>1. s # "prepare" /\ disk[d].steps["prepare"] = "complete" /\ disk[d].steps["verify"] = "none"
          BY <2>1, <2>4, <2>5, <3>2 DEF Stage
        <4> QED
          BY <2>1, <2>3, <2>4, <2>5, <4>1 DEF Inv, FailureKeepsLockAndPod, id
      <3> QED
        BY <3>1, <3>2 DEF FailureKeepsLockAndPod
    <2> QED
      BY <2>10, <2>11, <2>12, <2>13, <2>14 DEF Inv
  <1>5. CASE SuspendOwner(p)
    <2>1. Local(p) /\ SameRecord /\ stage'[p] = stage[p] /\ mem'[p].id = mem[p].id /\ mem'[p].steps = mem[p].steps
      BY <1>5 DEF SuspendOwner, Goto, Inv, Local, SameRecord, Typed, TypeOK, RunState, vars, procVars, diskVars, lockVars, fluxVars, appVars, dataVars, countVars
    <2>2. at[p] = "suspendOwner" /\ at'[p] = "suspendRelease"
      BY <1>5 DEF SuspendOwner, Goto, Inv, Typed, TypeOK
    <2>3. StageOfStep(p) /\ ScriptStage
      BY DEF Inv, ProcOK, Typed
    <2> QED
      BY <2>1, <2>2, <2>3, Moves DEF StageOfStep, Acting, BeforeBegin, PrepareOnly, OtherStages, VerifyOnly, SameRecord
  <1>6. CASE SuspendRelease(p)
    <2>1. Local(p) /\ SameRecord /\ stage'[p] = stage[p] /\ mem'[p].id = mem[p].id /\ mem'[p].steps = mem[p].steps
      BY <1>6 DEF SuspendRelease, Goto, Inv, Local, SameRecord, Typed, TypeOK, vars, procVars, diskVars, lockVars, fluxVars, appVars, dataVars, countVars
    <2>2. at[p] = "suspendRelease" /\ at'[p] = "recordNamespace"
      BY <1>6 DEF SuspendRelease, Goto, Inv, Typed, TypeOK
    <2>3. StageOfStep(p) /\ ScriptStage
      BY DEF Inv, ProcOK, Typed
    <2> QED
      BY <2>1, <2>2, <2>3, Moves DEF StageOfStep, Acting, BeforeBegin, PrepareOnly, OtherStages, VerifyOnly, SameRecord
  <1>7. CASE RecordNamespace(p)
    <2> DEFINE new == mem[p]
    <2>1. /\ at[p] = "recordNamespace" /\ at' = [at EXCEPT ![p] = "takeLock"] /\ stage' = stage
          /\ mem' = [mem EXCEPT ![p] = new] /\ disk' = [disk EXCEPT ![DirOf[p]] = new]
          /\ UNCHANGED <<lock, pod, begun, runs>>
      BY <1>7 DEF RecordNamespace, Goto, Checkpoint, Write, lockVars, countVars
    <2>2. /\ new.id = mem[p].id /\ new.steps = mem[p].steps /\ DirOf[p] \in Dir
          /\ mem[p].id = disk[DirOf[p]].id /\ mem[p].steps = disk[DirOf[p]].steps
      BY <2>1, DirTyped DEF Inv, ProcOK, MemoryOf, Typed, TypeOK, RunState
    <2> HIDE DEF new
    <2>3. Local(p) /\ SameRecord /\ stage'[p] = stage[p] /\ at'[p] = "takeLock"
          /\ mem'[p].id = mem[p].id /\ mem'[p].steps = mem[p].steps
      BY <2>1, <2>2 DEF Local, SameRecord, Inv, Typed, TypeOK
    <2>4. StageOfStep(p)
      BY DEF Inv, ProcOK
    <2> QED
      BY <2>1, <2>3, <2>4, Moves DEF StageOfStep, Acting, BeforeBegin, PrepareOnly, OtherStages, VerifyOnly
  <1>8. CASE TakeLock(p)
    <2>1. /\ at[p] = "takeLock" /\ at'[p] \in {"deleteHpa", "bootstrap"} /\ stage'[p] = stage[p]
          /\ mem'[p] = mem[p] /\ lock = NoRun /\ lock' = mem[p].id
          /\ Local(p) /\ UNCHANGED <<disk, pod, begun, runs>>
      BY <1>8 DEF TakeLock, Goto, Local, Inv, Typed, TypeOK, vars, procVars, diskVars, lockVars, fluxVars, appVars, dataVars, countVars
    <2>2. mem[p].id = disk[DirOf[p]].id /\ DirOf[p] \in Dir /\ mem[p].id <= runs
      BY <2>1, DirTyped DEF Inv, ProcOK, MemoryOf, FileOK
    <2>3. ProcOK(p)'
      BY <2>1 DEF Inv, ProcOK, StageOfStep, MemoryOf, Owns, BeforeBegin, PrepareOnly, OtherStages, VerifyOnly
    <2>4. ASSUME NEW q \in Proc, q # p PROVE ProcOK(q)'
      <3>1. ~Acting(q)
        BY <2>1, ActingHolds
      <3> QED
        BY <2>1, <2>4, <3>1, OthersKept
    <2>5. ASSUME NEW d \in Dir,
                 disk[d].steps["prepare"] = "complete", disk[d].steps["verify"] = "none"
          PROVE  FALSE
      BY <2>1, <2>5 DEF Inv, FailureKeepsLockAndPod, FileOK
    <2> QED
      BY <2>1, <2>2, <2>3, <2>4, <2>5 DEF Inv, FileOK, UniqueIds, FailureKeepsLockAndPod
  <1>9. CASE DeleteHpa(p)
    <2>1. Local(p) /\ SameRecord /\ stage'[p] = stage[p] /\ mem'[p].id = mem[p].id /\ mem'[p].steps = mem[p].steps
      BY <1>9 DEF DeleteHpa, Goto, Inv, Local, SameRecord, Typed, TypeOK, vars, procVars, diskVars, lockVars, fluxVars, appVars, dataVars, countVars
    <2>2. at[p] = "deleteHpa" /\ at'[p] = "scale"
      BY <1>9 DEF DeleteHpa, Goto, Inv, Typed, TypeOK
    <2>3. StageOfStep(p) /\ ScriptStage
      BY DEF Inv, ProcOK, Typed
    <2> QED
      BY <2>1, <2>2, <2>3, Moves DEF StageOfStep, Acting, BeforeBegin, PrepareOnly, OtherStages, VerifyOnly, SameRecord
  <1>10. CASE Scale(p)
    <2>1. Local(p) /\ SameRecord /\ stage'[p] = stage[p] /\ mem'[p].id = mem[p].id /\ mem'[p].steps = mem[p].steps
      BY <1>10 DEF Scale, Goto, Inv, Local, SameRecord, Typed, TypeOK, vars, procVars, diskVars, lockVars, fluxVars, appVars, dataVars, countVars
    <2>2. at[p] = "scale" /\ at'[p] = "drain"
      BY <1>10 DEF Scale, Goto, Inv, Typed, TypeOK
    <2>3. StageOfStep(p) /\ ScriptStage
      BY DEF Inv, ProcOK, Typed
    <2> QED
      BY <2>1, <2>2, <2>3, Moves DEF StageOfStep, Acting, BeforeBegin, PrepareOnly, OtherStages, VerifyOnly, SameRecord
  <1>11. CASE WaitDrained(p)
    <2>1. Local(p) /\ SameRecord /\ stage'[p] = stage[p] /\ mem'[p].id = mem[p].id /\ mem'[p].steps = mem[p].steps
      BY <1>11 DEF WaitDrained, Goto, Inv, Local, SameRecord, Typed, TypeOK, vars, procVars, diskVars, lockVars, fluxVars, appVars, dataVars, countVars
    <2>2. at[p] = "drain" /\ at'[p] = "bootstrap"
      BY <1>11 DEF WaitDrained, Goto, Inv, Typed, TypeOK
    <2>3. StageOfStep(p) /\ ScriptStage
      BY DEF Inv, ProcOK, Typed
    <2> QED
      BY <2>1, <2>2, <2>3, Moves DEF StageOfStep, Acting, BeforeBegin, PrepareOnly, OtherStages, VerifyOnly, SameRecord
  <1>12. CASE Bootstrap(p)
    <2>1. /\ at[p] = "bootstrap" /\ at'[p] = "recordJobs" /\ stage'[p] = stage[p]
          /\ mem'[p].id = mem[p].id
          /\ \/ mem'[p].steps = mem[p].steps
             \/ mem'[p].steps = [mem[p].steps EXCEPT !["infrastructure"] = "complete"]
          /\ Local(p) /\ SameRecord
      <3>1. /\ at[p] = "bootstrap" /\ at' = [at EXCEPT ![p] = "recordJobs"] /\ stage' = stage
            /\ SameRecord
        BY <1>12 DEF Bootstrap, Goto, SameRecord, diskVars, lockVars, countVars
      <3>2. CASE mem' = mem
        BY <3>1, <3>2 DEF Local, Inv, Typed, TypeOK
      <3>3. CASE mem' = [mem EXCEPT ![p].steps["infrastructure"] = "complete"]
        BY <3>1, <3>3 DEF Local, Inv, Typed, TypeOK, RunState
      <3> QED
        BY <1>12, <3>2, <3>3 DEF Bootstrap
    <2>2. MemoryOf(p)'
      BY <2>1, DirTyped DEF Inv, ProcOK, MemoryOf, SameRecord, BeforeBegin, PrepareOnly
    <2>3. StageOfStep(p)' /\ Owns(p)'
      BY <2>1 DEF Inv, ProcOK, StageOfStep, Owns, Acting, SameRecord, PrepareOnly, OtherStages, VerifyOnly
    <2> QED
      BY <2>1, <2>2, <2>3, RecordKept DEF ProcOK
  <1>13. CASE RecordJobs(p)
    <2> DEFINE d == DirOf[p]
    <2>1. /\ at[p] = "recordJobs" /\ at'[p] \in {"createPod", "holdInstall"} /\ stage'[p] = stage[p]
          /\ mem'[p] = mem[p] /\ disk' = [disk EXCEPT ![d] = mem[p]] /\ d \in Dir
          /\ Local(p) /\ UNCHANGED <<lock, pod, begun, runs>>
      BY <1>13, DirTyped DEF RecordJobs, Goto, Checkpoint, Write, Local, Inv, Typed, TypeOK, vars, procVars, diskVars, lockVars, fluxVars, appVars, dataVars, countVars
    <2>typed. stage[p] = "prepare" /\ disk[d].steps \in [Stage -> Status]
      BY <2>1 DEF Inv, ProcOK, StageOfStep, PrepareOnly, Typed, TypeOK, RunState
    <2>file. /\ mem[p].id = disk[d].id /\ disk[d].steps[stage[p]] = "started"
             /\ \/ mem[p].steps = disk[d].steps
                \/ mem[p].steps = [disk[d].steps EXCEPT !["infrastructure"] = "complete"]
      BY <2>1 DEF Inv, ProcOK, MemoryOf, BeforeBegin
    <2>2. /\ stage[p] = "prepare" /\ mem[p].id = disk[d].id /\ disk[d].steps["prepare"] = "started"
          /\ disk[d].steps \in [Stage -> Status]
          /\ \/ mem[p].steps = disk[d].steps
             \/ mem[p].steps = [disk[d].steps EXCEPT !["infrastructure"] = "complete"]
      BY <2>typed, <2>file
    <2>3. disk'[d].id = disk[d].id /\ disk'[d].steps = mem[p].steps
          /\ \A e \in Dir \ {d} : disk'[e] = disk[e]
      BY <2>1, <2>2 DEF Inv, Typed, TypeOK
    <2>4. /\ mem[p].steps["prepare"] = "started"
          /\ \A s \in Stage : mem[p].steps[s] = "none" => disk[d].steps[s] = "none"
      BY <2>2 DEF Stage
    <2>5. ProcOK(p)'
      BY <2>1, <2>2, <2>3, <2>4 DEF Inv, ProcOK, StageOfStep, MemoryOf, Owns, Acting, BeforeBegin, PrepareOnly, OtherStages, VerifyOnly
    <2>6. \A q \in Proc : ProcOK(q)'
      BY <2>1, <2>3, <2>5, OthersKept
    <2>7. \A e \in Dir : FileOK(e)'
      <3>1. FileOK(d)'
        BY <2>1, <2>2, <2>3, <2>4 DEF Inv, FileOK, NoRun
      <3>2. ASSUME NEW e \in Dir, e # d PROVE FileOK(e)'
        BY <2>1, <2>3, <3>2 DEF Inv, FileOK
      <3> QED
        BY <3>1, <3>2
    <2>8. UniqueIds' /\ lock' <= runs'
      BY <2>1, <2>3 DEF Inv, UniqueIds
    <2>9. FailureKeepsLockAndPod'
      BY <2>1, <2>3, <2>4 DEF Inv, FailureKeepsLockAndPod
    <2> QED
      BY <2>6, <2>7, <2>8, <2>9 DEF Inv
  <1>14. CASE HoldInstall(p)
    <2>1. Local(p) /\ SameRecord /\ stage'[p] = stage[p] /\ mem'[p].id = mem[p].id /\ mem'[p].steps = mem[p].steps
      BY <1>14 DEF HoldInstall, Goto, Inv, Local, SameRecord, Typed, TypeOK, vars, procVars, diskVars, lockVars, fluxVars, appVars, dataVars, countVars
    <2>2. at[p] = "holdInstall" /\ at'[p] = IF stage[p] = "prepare" THEN "createPod" ELSE "heldAgain"
      BY <1>14 DEF HoldInstall, Goto, Inv, Typed, TypeOK
    <2>3. StageOfStep(p) /\ ScriptStage
      BY DEF Inv, ProcOK, Typed
    <2> QED
      BY <2>1, <2>2, <2>3, Moves DEF StageOfStep, Acting, BeforeBegin, PrepareOnly, OtherStages, VerifyOnly, SameRecord
  <1>15. CASE CreatePod(p)
    <2>1. /\ at[p] = "createPod" /\ at'[p] = "finish" /\ stage'[p] = stage[p] /\ mem'[p] = mem[p]
          /\ pod' = mem[p].id /\ lock' = lock
          /\ Local(p) /\ UNCHANGED <<disk, begun, runs>>
      BY <1>15 DEF CreatePod, Goto, Local, Inv, Typed, TypeOK, vars, procVars, diskVars, lockVars, fluxVars, appVars, dataVars, countVars
    <2>2. /\ Acting(p) /\ DirOf[p] \in Dir
          /\ stage[p] = "prepare" /\ disk[DirOf[p]].steps["prepare"] = "started"
      BY <2>1, DirTyped DEF Inv, ProcOK, StageOfStep, MemoryOf, Acting, BeforeBegin, PrepareOnly, VerifyOnly
    <2>3. lock = mem[p].id /\ lock = disk[DirOf[p]].id /\ lock # NoRun
      BY <2>2, ActingHolds
    <2>4. ProcOK(p)'
      <3>1. StageOfStep(p)'
        BY <2>1, <2>2 DEF StageOfStep, PrepareOnly, OtherStages, VerifyOnly
      <3>2. MemoryOf(p)'
        <4>1. /\ mem[p].id = disk[DirOf[p]].id /\ mem[p].steps = disk[DirOf[p]].steps
              /\ disk[DirOf[p]].steps[stage[p]] = "started"
          BY <2>1, <2>2 DEF Inv, ProcOK, MemoryOf, BeforeBegin
        <4> QED
          BY <2>1, <4>1 DEF MemoryOf, BeforeBegin, PrepareOnly
      <3>3. Owns(p)'
        BY <2>1, <2>3 DEF Owns
      <3> QED
        BY <3>1, <3>2, <3>3 DEF ProcOK
    <2>5. \A q \in Proc : ProcOK(q)'
      BY <2>1, <2>2, <2>4, OneActor, OthersKept
    <2>6. ASSUME NEW d \in Dir,
                 disk[d].steps["prepare"] = "complete", disk[d].steps["verify"] = "none"
          PROVE  FALSE
      <3>1. d = DirOf[p]
        BY <2>2, <2>3, <2>6 DEF Inv, FailureKeepsLockAndPod, UniqueIds
      <3> QED
        BY <2>2, <2>6, <3>1
    <2> QED
      BY <2>1, <2>5, <2>6 DEF Inv, FileOK, UniqueIds, FailureKeepsLockAndPod, NoRun, Typed, TypeOK
  <1>16. CASE BackupHeld(p)
    <2>1. Local(p) /\ SameRecord /\ stage'[p] = stage[p] /\ mem'[p].id = mem[p].id /\ mem'[p].steps = mem[p].steps
      BY <1>16 DEF BackupHeld, Goto, Inv, Local, SameRecord, Typed, TypeOK, vars, procVars, diskVars, lockVars, fluxVars, appVars, dataVars, countVars
    <2>2. at[p] = "backupHeld" /\ at'[p] = "dump"
      BY <1>16 DEF BackupHeld, Goto, Inv, Typed, TypeOK
    <2>3. StageOfStep(p) /\ ScriptStage
      BY DEF Inv, ProcOK, Typed
    <2> QED
      BY <2>1, <2>2, <2>3, Moves DEF StageOfStep, Acting, BeforeBegin, PrepareOnly, OtherStages, VerifyOnly, SameRecord
  <1>17. CASE Dump(p)
    <2>1. Local(p) /\ SameRecord /\ stage'[p] = stage[p] /\ mem'[p].id = mem[p].id /\ mem'[p].steps = mem[p].steps
      BY <1>17 DEF Dump, Goto, Inv, Local, SameRecord, Typed, TypeOK, vars, procVars, diskVars, lockVars, fluxVars, appVars, dataVars, countVars
    <2>2. at[p] = "dump" /\ at'[p] = "freeze"
      BY <1>17 DEF Dump, Goto, Inv, Typed, TypeOK
    <2>3. StageOfStep(p) /\ ScriptStage
      BY DEF Inv, ProcOK, Typed
    <2> QED
      BY <2>1, <2>2, <2>3, Moves DEF StageOfStep, Acting, BeforeBegin, PrepareOnly, OtherStages, VerifyOnly, SameRecord
  <1>18. CASE FreezeTables(p)
    <2> DEFINE new == mem[p]
    <2>1. /\ at[p] = "freeze" /\ at' = [at EXCEPT ![p] = "verifyBackup"] /\ stage' = stage
          /\ mem' = [mem EXCEPT ![p] = new] /\ disk' = [disk EXCEPT ![DirOf[p]] = new]
          /\ UNCHANGED <<lock, pod, begun, runs>>
      BY <1>18 DEF FreezeTables, Goto, Checkpoint, Write, lockVars, countVars
    <2>2. /\ new.id = mem[p].id /\ new.steps = mem[p].steps /\ DirOf[p] \in Dir
          /\ mem[p].id = disk[DirOf[p]].id /\ mem[p].steps = disk[DirOf[p]].steps
      BY <2>1, DirTyped DEF Inv, ProcOK, MemoryOf, Typed, TypeOK, RunState
    <2> HIDE DEF new
    <2>3. Local(p) /\ SameRecord /\ stage'[p] = stage[p] /\ at'[p] = "verifyBackup"
          /\ mem'[p].id = mem[p].id /\ mem'[p].steps = mem[p].steps
      BY <2>1, <2>2 DEF Local, SameRecord, Inv, Typed, TypeOK
    <2>4. StageOfStep(p)
      BY DEF Inv, ProcOK
    <2> QED
      BY <2>1, <2>3, <2>4, Moves DEF StageOfStep, Acting, BeforeBegin, PrepareOnly, OtherStages, VerifyOnly
  <1>19. CASE VerifyBackup(p)
    <2> DEFINE new == [mem[p] EXCEPT !.verified = TRUE]
    <2>1. /\ at[p] = "verifyBackup" /\ at' = [at EXCEPT ![p] = "unfreeze"] /\ stage' = stage
          /\ mem' = [mem EXCEPT ![p] = new] /\ disk' = [disk EXCEPT ![DirOf[p]] = new]
          /\ UNCHANGED <<lock, pod, begun, runs>>
      BY <1>19 DEF VerifyBackup, Goto, Checkpoint, Write, lockVars, countVars
    <2>typed. mem[p] \in RunState /\ DirOf[p] \in Dir
      BY DirTyped DEF Inv, Typed, TypeOK
    <2>file. mem[p].id = disk[DirOf[p]].id /\ mem[p].steps = disk[DirOf[p]].steps
      BY <2>1 DEF Inv, ProcOK, MemoryOf
    <2>new. new.id = mem[p].id /\ new.steps = mem[p].steps
      BY <2>typed DEF RunState
    <2> HIDE DEF new
    <2>2. /\ new.id = mem[p].id /\ new.steps = mem[p].steps /\ DirOf[p] \in Dir
          /\ mem[p].id = disk[DirOf[p]].id /\ mem[p].steps = disk[DirOf[p]].steps
      BY <2>typed, <2>file, <2>new
    <2>3. Local(p) /\ SameRecord /\ stage'[p] = stage[p] /\ at'[p] = "unfreeze"
          /\ mem'[p].id = mem[p].id /\ mem'[p].steps = mem[p].steps
      BY <2>1, <2>2 DEF Local, SameRecord, Inv, Typed, TypeOK
    <2>4. StageOfStep(p)
      BY DEF Inv, ProcOK
    <2> QED
      BY <2>1, <2>3, <2>4, Moves DEF StageOfStep, Acting, BeforeBegin, PrepareOnly, OtherStages, VerifyOnly
  <1>20. CASE Unfreeze(p)
    <2>1. Local(p) /\ SameRecord /\ stage'[p] = stage[p] /\ mem'[p].id = mem[p].id /\ mem'[p].steps = mem[p].steps
      BY <1>20 DEF Unfreeze, Goto, Inv, Local, SameRecord, Typed, TypeOK, vars, procVars, diskVars, lockVars, fluxVars, appVars, dataVars, countVars
    <2>2. at[p] = "unfreeze" /\ at'[p] = "finish"
      BY <1>20 DEF Unfreeze, Goto, Inv, Typed, TypeOK
    <2>3. StageOfStep(p) /\ ScriptStage
      BY DEF Inv, ProcOK, Typed
    <2> QED
      BY <2>1, <2>2, <2>3, Moves DEF StageOfStep, Acting, BeforeBegin, PrepareOnly, OtherStages, VerifyOnly, SameRecord
  <1>21. CASE PatchBinary(p)
    <2>1. Local(p) /\ SameRecord /\ stage'[p] = stage[p] /\ mem'[p].id = mem[p].id /\ mem'[p].steps = mem[p].steps
      BY <1>21 DEF PatchBinary, Goto, Inv, Local, SameRecord, Typed, TypeOK, vars, procVars, diskVars, lockVars, fluxVars, appVars, dataVars, countVars
    <2>2. at[p] = "binary" /\ at'[p] = "targets"
      BY <1>21 DEF PatchBinary, Goto, Inv, Typed, TypeOK
    <2>3. StageOfStep(p) /\ ScriptStage
      BY DEF Inv, ProcOK, Typed
    <2> QED
      BY <2>1, <2>2, <2>3, Moves DEF StageOfStep, Acting, BeforeBegin, PrepareOnly, OtherStages, VerifyOnly, SameRecord
  <1>22. CASE ApplyTargets(p)
    <2>1. Local(p) /\ SameRecord /\ stage'[p] = stage[p] /\ mem'[p].id = mem[p].id /\ mem'[p].steps = mem[p].steps
      BY <1>22 DEF ApplyTargets, Goto, Inv, Local, SameRecord, Typed, TypeOK, vars, procVars, diskVars, lockVars, fluxVars, appVars, dataVars, countVars
    <2>2. at[p] = "targets" /\ at'[p] = "finish"
      BY <1>22 DEF ApplyTargets, Goto, Inv, Typed, TypeOK
    <2>3. StageOfStep(p) /\ ScriptStage
      BY DEF Inv, ProcOK, Typed
    <2> QED
      BY <2>1, <2>2, <2>3, Moves DEF StageOfStep, Acting, BeforeBegin, PrepareOnly, OtherStages, VerifyOnly, SameRecord
  <1>23. CASE RunScript(p)
    <2>1. Local(p) /\ SameRecord /\ stage'[p] = stage[p] /\ mem'[p].id = mem[p].id /\ mem'[p].steps = mem[p].steps
      BY <1>23 DEF RunScript, Goto, Inv, Local, SameRecord, Typed, TypeOK, vars, procVars, diskVars, lockVars, fluxVars, appVars, dataVars, countVars
    <2>2. at[p] = "script" /\ at'[p] = "finish"
      BY <1>23 DEF RunScript, Goto, Inv, Typed, TypeOK
    <2>3. StageOfStep(p) /\ ScriptStage
      BY DEF Inv, ProcOK, Typed
    <2> QED
      BY <2>1, <2>2, <2>3, Moves DEF StageOfStep, Acting, BeforeBegin, PrepareOnly, OtherStages, VerifyOnly, ScriptStage, LogStage, SameRecord
  <1>24. CASE LegacyCheck(p)
    <2>1. Local(p) /\ SameRecord /\ stage'[p] = stage[p] /\ mem'[p].id = mem[p].id /\ mem'[p].steps = mem[p].steps
      BY <1>24 DEF LegacyCheck, Goto, Inv, Local, SameRecord, Typed, TypeOK, vars, procVars, diskVars, lockVars, fluxVars, appVars, dataVars, countVars
    <2>2. at[p] = "legacyCheck" /\ at'[p] = "holdInstall"
      BY <1>24 DEF LegacyCheck, Goto, Inv, Typed, TypeOK
    <2>3. StageOfStep(p) /\ ScriptStage
      BY DEF Inv, ProcOK, Typed
    <2> QED
      BY <2>1, <2>2, <2>3, Moves DEF StageOfStep, Acting, BeforeBegin, PrepareOnly, OtherStages, VerifyOnly, SameRecord
  <1>25. CASE HeldAgain(p)
    <2>1. Local(p) /\ SameRecord /\ stage'[p] = stage[p] /\ mem'[p].id = mem[p].id /\ mem'[p].steps = mem[p].steps
      BY <1>25 DEF HeldAgain, Goto, Inv, Local, SameRecord, Typed, TypeOK, vars, procVars, diskVars, lockVars, fluxVars, appVars, dataVars, countVars
    <2>2. at[p] = "heldAgain" /\ at'[p] = "createJob"
      BY <1>25 DEF HeldAgain, Goto, Inv, Typed, TypeOK
    <2>3. StageOfStep(p) /\ ScriptStage
      BY DEF Inv, ProcOK, Typed
    <2> QED
      BY <2>1, <2>2, <2>3, Moves DEF StageOfStep, Acting, BeforeBegin, PrepareOnly, OtherStages, VerifyOnly, SameRecord
  <1>26. CASE CreateJob(p)
    <2>1. Local(p) /\ SameRecord /\ stage'[p] = stage[p] /\ mem'[p].id = mem[p].id /\ mem'[p].steps = mem[p].steps
      BY <1>26 DEF CreateJob, Goto, Inv, Local, SameRecord, Typed, TypeOK, vars, procVars, diskVars, lockVars, fluxVars, appVars, dataVars, countVars
    <2>2. at[p] = "createJob" /\ at'[p] = "waitJob"
      BY <1>26 DEF CreateJob, Goto, Inv, Typed, TypeOK
    <2>3. StageOfStep(p) /\ ScriptStage
      BY DEF Inv, ProcOK, Typed
    <2> QED
      BY <2>1, <2>2, <2>3, Moves DEF StageOfStep, Acting, BeforeBegin, PrepareOnly, OtherStages, VerifyOnly, SameRecord
  <1>27. CASE WaitJob(p)
    <2>1. Local(p) /\ SameRecord /\ stage'[p] = stage[p] /\ mem'[p].id = mem[p].id /\ mem'[p].steps = mem[p].steps
      BY <1>27 DEF WaitJob, Goto, Inv, Local, SameRecord, Typed, TypeOK, vars, procVars, diskVars, lockVars, fluxVars, appVars, dataVars, countVars
    <2>2. at[p] = "waitJob" /\ at'[p] \in {"migrateCheck", "createJob"}
      BY <1>27 DEF WaitJob, Goto, Inv, Typed, TypeOK
    <2>3. StageOfStep(p) /\ ScriptStage
      BY DEF Inv, ProcOK, Typed
    <2> QED
      BY <2>1, <2>2, <2>3, Moves DEF StageOfStep, Acting, BeforeBegin, PrepareOnly, OtherStages, VerifyOnly, SameRecord
  <1>28. CASE MigrateCheck(p)
    <2>1. Local(p) /\ SameRecord /\ stage'[p] = stage[p] /\ mem'[p].id = mem[p].id /\ mem'[p].steps = mem[p].steps
      BY <1>28 DEF MigrateCheck, Goto, Inv, Local, SameRecord, Typed, TypeOK, vars, procVars, diskVars, lockVars, fluxVars, appVars, dataVars, countVars
    <2>2. at[p] = "migrateCheck" /\ at'[p] = "finish"
      BY <1>28 DEF MigrateCheck, Goto, Inv, Typed, TypeOK
    <2>3. StageOfStep(p) /\ ScriptStage
      BY DEF Inv, ProcOK, Typed
    <2> QED
      BY <2>1, <2>2, <2>3, Moves DEF StageOfStep, Acting, BeforeBegin, PrepareOnly, OtherStages, VerifyOnly, SameRecord
  <1>29. CASE Install(p)
    <2>1. Local(p) /\ SameRecord /\ stage'[p] = stage[p] /\ mem'[p].id = mem[p].id /\ mem'[p].steps = mem[p].steps
      BY <1>29 DEF Install, Goto, Inv, Local, SameRecord, Typed, TypeOK, vars, procVars, diskVars, lockVars, fluxVars, appVars, dataVars, countVars
    <2>2. at[p] = "install" /\ at'[p] = "resumeRelease"
      BY <1>29 DEF Install, Goto, Inv, Typed, TypeOK
    <2>3. StageOfStep(p) /\ ScriptStage
      BY DEF Inv, ProcOK, Typed
    <2> QED
      BY <2>1, <2>2, <2>3, Moves DEF StageOfStep, Acting, BeforeBegin, PrepareOnly, OtherStages, VerifyOnly, SameRecord
  <1>30. CASE ResumeRelease(p)
    <2>1. Local(p) /\ SameRecord /\ stage'[p] = stage[p] /\ mem'[p].id = mem[p].id /\ mem'[p].steps = mem[p].steps
      BY <1>30 DEF ResumeRelease, Goto, Inv, Local, SameRecord, Typed, TypeOK, vars, procVars, diskVars, lockVars, fluxVars, appVars, dataVars, countVars
    <2>2. at[p] = "resumeRelease" /\ at'[p] = "resumeOwners"
      BY <1>30 DEF ResumeRelease, Goto, Inv, Typed, TypeOK
    <2>3. StageOfStep(p) /\ ScriptStage
      BY DEF Inv, ProcOK, Typed
    <2> QED
      BY <2>1, <2>2, <2>3, Moves DEF StageOfStep, Acting, BeforeBegin, PrepareOnly, OtherStages, VerifyOnly, SameRecord
  <1>31. CASE ResumeOwners(p)
    <2>1. Local(p) /\ SameRecord /\ stage'[p] = stage[p] /\ mem'[p].id = mem[p].id /\ mem'[p].steps = mem[p].steps
      BY <1>31 DEF ResumeOwners, Goto, Inv, Local, SameRecord, Typed, TypeOK, vars, procVars, diskVars, lockVars, fluxVars, appVars, dataVars, countVars
    <2>2. at[p] = "resumeOwners" /\ at'[p] = "rolloutStatus"
      BY <1>31 DEF ResumeOwners, Goto, Inv, Typed, TypeOK
    <2>3. StageOfStep(p) /\ ScriptStage
      BY DEF Inv, ProcOK, Typed
    <2> QED
      BY <2>1, <2>2, <2>3, Moves DEF StageOfStep, Acting, BeforeBegin, PrepareOnly, OtherStages, VerifyOnly, SameRecord
  <1>32. CASE RolloutStatus(p)
    <2>1. Local(p) /\ SameRecord /\ stage'[p] = stage[p] /\ mem'[p].id = mem[p].id /\ mem'[p].steps = mem[p].steps
      BY <1>32 DEF RolloutStatus, Goto, Inv, Local, SameRecord, Typed, TypeOK, vars, procVars, diskVars, lockVars, fluxVars, appVars, dataVars, countVars
    <2>2. at[p] = "rolloutStatus" /\ at'[p] = "finish"
      BY <1>32 DEF RolloutStatus, Goto, Inv, Typed, TypeOK
    <2>3. StageOfStep(p) /\ ScriptStage
      BY DEF Inv, ProcOK, Typed
    <2> QED
      BY <2>1, <2>2, <2>3, Moves DEF StageOfStep, Acting, BeforeBegin, PrepareOnly, OtherStages, VerifyOnly, SameRecord
  <1>33. CASE Capture(p)
    <2>1. Local(p) /\ SameRecord /\ stage'[p] = stage[p] /\ mem'[p].id = mem[p].id /\ mem'[p].steps = mem[p].steps
      BY <1>33 DEF Capture, Goto, Inv, Local, SameRecord, Typed, TypeOK, vars, procVars, diskVars, lockVars, fluxVars, appVars, dataVars, countVars
    <2>2. at[p] = "capture" /\ at'[p] = "align"
      BY <1>33 DEF Capture, Goto, Inv, Typed, TypeOK
    <2>3. StageOfStep(p) /\ ScriptStage
      BY DEF Inv, ProcOK, Typed
    <2> QED
      BY <2>1, <2>2, <2>3, Moves DEF StageOfStep, Acting, BeforeBegin, PrepareOnly, OtherStages, VerifyOnly, SameRecord
  <1>34. CASE Align(p)
    <2>1. Local(p) /\ SameRecord /\ stage'[p] = stage[p] /\ mem'[p].id = mem[p].id /\ mem'[p].steps = mem[p].steps
      BY <1>34 DEF Align, Goto, Inv, Local, SameRecord, Typed, TypeOK, vars, procVars, diskVars, lockVars, fluxVars, appVars, dataVars, countVars
    <2>2. at[p] = "align" /\ at'[p] = "deletePod"
      BY <1>34 DEF Align, Goto, Inv, Typed, TypeOK
    <2>3. StageOfStep(p) /\ ScriptStage
      BY DEF Inv, ProcOK, Typed
    <2> QED
      BY <2>1, <2>2, <2>3, Moves DEF StageOfStep, Acting, BeforeBegin, PrepareOnly, OtherStages, VerifyOnly, SameRecord
  <1>35. CASE DeletePod(p)
    <2>1. /\ at[p] = "deletePod" /\ at'[p] = "deleteLock" /\ stage'[p] = stage[p] /\ mem'[p] = mem[p]
          /\ pod' = NoRun /\ lock' = lock
          /\ Local(p) /\ UNCHANGED <<disk, begun, runs>>
      BY <1>35 DEF DeletePod, Goto, Local, Inv, Typed, TypeOK, vars, procVars, diskVars, lockVars, fluxVars, appVars, dataVars, countVars
    <2>2. /\ Acting(p) /\ DirOf[p] \in Dir
          /\ stage[p] = "verify" /\ disk[DirOf[p]].steps["verify"] = "started"
      BY <2>1, DirTyped DEF Inv, ProcOK, StageOfStep, MemoryOf, Acting, BeforeBegin, PrepareOnly, VerifyOnly
    <2>3. lock = mem[p].id /\ lock = disk[DirOf[p]].id /\ lock # NoRun
      BY <2>2, ActingHolds
    <2>4. ProcOK(p)'
      BY <2>1, <2>2, <2>3 DEF Inv, ProcOK, StageOfStep, MemoryOf, Owns, Acting, BeforeBegin, PrepareOnly, OtherStages, VerifyOnly
    <2>5. \A q \in Proc : ProcOK(q)'
      BY <2>1, <2>2, <2>4, OneActor, OthersKept
    <2>6. ASSUME NEW d \in Dir,
                 disk[d].steps["prepare"] = "complete", disk[d].steps["verify"] = "none"
          PROVE  FALSE
      <3>1. d = DirOf[p]
        BY <2>2, <2>3, <2>6 DEF Inv, FailureKeepsLockAndPod, UniqueIds
      <3> QED
        BY <2>2, <2>6, <3>1
    <2> QED
      BY <2>1, <2>5, <2>6 DEF Inv, FileOK, UniqueIds, FailureKeepsLockAndPod, NoRun, Typed, TypeOK
  <1>36. CASE DeleteLock(p)
    <2>1. /\ at[p] = "deleteLock" /\ at'[p] = "finish" /\ stage'[p] = stage[p] /\ mem'[p] = mem[p]
          /\ pod' = pod /\ lock' = NoRun
          /\ Local(p) /\ UNCHANGED <<disk, begun, runs>>
      BY <1>36 DEF DeleteLock, Goto, Local, Inv, Typed, TypeOK, vars, procVars, diskVars, lockVars, fluxVars, appVars, dataVars, countVars
    <2>2. /\ Acting(p) /\ DirOf[p] \in Dir
          /\ stage[p] = "verify" /\ disk[DirOf[p]].steps["verify"] = "started"
      BY <2>1, DirTyped DEF Inv, ProcOK, StageOfStep, MemoryOf, Acting, BeforeBegin, PrepareOnly, VerifyOnly
    <2>3. lock = mem[p].id /\ lock = disk[DirOf[p]].id /\ lock # NoRun
      BY <2>2, ActingHolds
    <2>4. ProcOK(p)'
      BY <2>1, <2>2, <2>3 DEF Inv, ProcOK, StageOfStep, MemoryOf, Owns, Acting, BeforeBegin, PrepareOnly, OtherStages, VerifyOnly
    <2>5. \A q \in Proc : ProcOK(q)'
      BY <2>1, <2>2, <2>4, OneActor, OthersKept
    <2>6. ASSUME NEW d \in Dir,
                 disk[d].steps["prepare"] = "complete", disk[d].steps["verify"] = "none"
          PROVE  FALSE
      <3>1. d = DirOf[p]
        BY <2>2, <2>3, <2>6 DEF Inv, FailureKeepsLockAndPod, UniqueIds
      <3> QED
        BY <2>2, <2>6, <3>1
    <2> QED
      BY <2>1, <2>5, <2>6 DEF Inv, FileOK, UniqueIds, FailureKeepsLockAndPod, NoRun, Typed, TypeOK
  <1>37. CASE Finish(p)
    <2> DEFINE d == DirOf[p]
    <2>1. /\ at[p] = "finish" /\ at'[p] = "idle" /\ d \in Dir /\ stage[p] \in Stage
          /\ disk'[d].id = mem[p].id /\ disk'[d].steps = [mem[p].steps EXCEPT ![stage[p]] = "complete"]
          /\ \A e \in Dir \ {d} : disk'[e] = disk[e]
          /\ Local(p) /\ UNCHANGED <<lock, pod, begun, runs>>
      BY <1>37, DirTyped DEF Finish, Write, Exit, Forget, Local, Inv, Typed, TypeOK, RunState, vars, procVars, diskVars, lockVars, fluxVars, appVars, dataVars, countVars
    <2>2. /\ mem[p].id = disk[d].id /\ mem[p].steps = disk[d].steps
          /\ disk[d].steps[stage[p]] = "started" /\ disk[d].steps \in [Stage -> Status]
      BY <2>1 DEF Inv, ProcOK, MemoryOf, BeforeBegin, Typed, TypeOK, RunState
    <2>3. ProcOK(p)'
      BY <2>1 DEF ProcOK, StageOfStep, MemoryOf, Owns, Acting, PrepareOnly, OtherStages, VerifyOnly
    <2>4. \A q \in Proc : ProcOK(q)'
      BY <2>1, <2>3, OthersKept
    <2>5. \A s \in Stage : disk'[d].steps[s] = IF s = stage[p] THEN "complete" ELSE disk[d].steps[s]
      BY <2>1, <2>2
    <2>6. "prepare" \in Stage /\ "verify" \in Stage
      BY DEF Stage
    <2>7. ASSUME NEW e \in Dir PROVE FileOK(e)'
      <3>1. CASE e = d
        BY <2>1, <2>2, <2>5, <2>6, <3>1 DEF Inv, FileOK
      <3>2. CASE e # d
        BY <2>1, <3>2 DEF Inv, FileOK
      <3> QED
        BY <3>1, <3>2
    <2>8. UniqueIds' /\ lock' <= runs'
      BY <2>1, <2>2 DEF Inv, UniqueIds
    <2>9. stage[p] = "prepare" => lock = mem[p].id /\ pod = mem[p].id
      BY <2>1 DEF Inv, ProcOK, Owns, Acting
    <2>10. FailureKeepsLockAndPod'
      BY <2>1, <2>2, <2>5, <2>6, <2>9 DEF Inv, FailureKeepsLockAndPod
    <2> QED
      BY <2>4, <2>7, <2>8, <2>10 DEF Inv
  <1> QED
    BY <1>1, <1>2, <1>3, <1>4, <1>5, <1>6, <1>7, <1>8, <1>9, <1>10, <1>11, <1>12, <1>13, <1>14, <1>15, <1>16, <1>17, <1>18, <1>19, <1>20, <1>21, <1>22, <1>23, <1>24, <1>25, <1>26, <1>27, <1>28, <1>29, <1>30, <1>31, <1>32, <1>33, <1>34, <1>35, <1>36, <1>37 DEF Advance, PrepareStep, ProtectStep, MigrateStep, ReleaseStep

\* A process that ends without a checkpoint.
LEMMA GoneKeeps ==
    ASSUME Inv, Typed', NEW p \in Proc, Gone(p),
           UNCHANGED <<disk, lock, pod, begun, runs>>
    PROVE  Inv'
  <1>1. at'[p] = "idle" /\ Local(p) /\ SameRecord
    BY DEF Gone, Exit, Forget, Local, SameRecord, Inv, Typed, TypeOK
  <1>2. ProcOK(p)'
    BY <1>1 DEF ProcOK, StageOfStep, MemoryOf, Owns, Acting, PrepareOnly, OtherStages, VerifyOnly
  <1> QED
    BY <1>1, <1>2, RecordKept

LEMMA InvokeKeeps ==
    ASSUME Inv, Typed', NEW p \in Proc, NEW s \in Stages, NEW m \in Modes, Invoke(p, s, m)
    PROVE  Inv'
  <1> DEFINE d == DirOf[p]
             st == IF disk[d].id = NoRun THEN NewState(m) ELSE disk[d]
  <1>1. /\ at'[p] = (IF s = "prepare" THEN "preflight" ELSE "lockcheck") /\ stage'[p] = s
        /\ mem'[p] = st /\ Ready(st.steps, s) /\ Local(p) /\ SameRecord /\ d \in Dir /\ s \in Stage
    BY DirTyped, DomainAssumption DEF Invoke, Local, SameRecord, Inv, Typed, TypeOK, diskVars, lockVars
  <1>2. st.id = disk[d].id /\ st.steps = disk[d].steps
    <2>1. CASE disk[d].id = NoRun
      <3>1. disk[d].steps \in [Stage -> Status] /\ "prepare" \in Stage
        BY <1>1 DEF Inv, Typed, TypeOK, RunState, Stage
      <3>2. \A r \in Stage : disk[d].steps[r] = "none"
        BY <1>1, <2>1 DEF Inv, FileOK
      <3>3. disk[d].steps = [r \in Stage |-> "none"]
        BY <3>1, <3>2
      <3> QED
        BY <2>1, <3>3 DEF NewState
    <2>2. CASE disk[d].id # NoRun
      BY <2>2
    <2> QED
      BY <2>1, <2>2
  <1> HIDE DEF st
  <1>3. MemoryOf(p)'
    BY <1>1, <1>2 DEF MemoryOf, SameRecord, BeforeBegin, PrepareOnly
  <1>4. StageOfStep(p)' /\ Owns(p)'
    BY <1>1 DEF StageOfStep, Owns, Acting, PrepareOnly, OtherStages, VerifyOnly
  <1> QED
    BY <1>1, <1>3, <1>4, RecordKept DEF ProcOK

LEMMA ClusterKeeps == ASSUME Inv, Typed', ClusterStep PROVE Inv'
  <1>1. UNCHANGED <<at, stage, mem, disk, lock, pod, begun, runs>>
    <2>1. ASSUME NEW d \in Dir, NEW i \in 1..NJobs, NEW r \in {"complete", "failed"}, JobEnds(d, i, r)
          PROVE  UNCHANGED <<at, stage, mem, disk, lock, pod, begun, runs>>
      BY <2>1 DEF JobEnds, procVars, diskVars, lockVars
    <2> QED
      BY <2>1 DEF ClusterStep, KustomizationReconciles, FluxStarts, FluxApplies, PodsTerminate,
                  AppWrites, procVars, diskVars, lockVars, countVars
  <1> QED
    BY <1>1 DEF Inv, ProcOK, StageOfStep, MemoryOf, Owns, Acting, FileOK, UniqueIds, FailureKeepsLockAndPod

LEMMA InitInv == Init => Inv
  <1> SUFFICES ASSUME Init PROVE Inv
    OBVIOUS
  <1>1. Typed
    BY InitTyped
  <1>2. \A p \in Proc : ProcOK(p)
    BY DEF Init, ProcOK, StageOfStep, MemoryOf, Owns, Acting, PrepareOnly, OtherStages, VerifyOnly
  <1>3. /\ \A d \in Dir : disk[d].id = NoRun /\ \A s \in Stage : disk[d].steps[s] = "none" /\ begun[d][s] = 0
        /\ lock = NoRun /\ runs = NoRun /\ "prepare" \in Stage
    BY DEF Init, NewState, NoRun, Stage
  <1>4. \A d \in Dir : FileOK(d)
    BY <1>3 DEF FileOK, NoRun
  <1>5. UniqueIds /\ lock <= runs /\ FailureKeepsLockAndPod
    BY <1>3 DEF UniqueIds, FailureKeepsLockAndPod, NoRun
  <1> QED
    BY <1>1, <1>2, <1>4, <1>5 DEF Inv

LEMMA NextInv == ASSUME OwnDirs, Inv, [Next]_vars PROVE Inv'
  <1>1. Typed'
    BY NextTyped DEF Inv
  <1>2. CASE UNCHANGED vars
    <2>1. UNCHANGED <<at, stage, mem, disk, lock, pod, begun, runs>>
      BY <1>2 DEF vars, procVars, diskVars, lockVars, countVars
    <2> QED
      BY <1>1, <2>1 DEF Inv, ProcOK, StageOfStep, MemoryOf, Owns, Acting, FileOK, UniqueIds, FailureKeepsLockAndPod
  <1>3. ASSUME NEW p \in Proc, Refuse(p) \/ Abort(p) \/ ScriptFails(p) PROVE Inv'
    <2>1. Gone(p) /\ UNCHANGED <<disk, lock, pod, begun, runs>>
      BY <1>3 DEF Refuse, Abort, ScriptFails, Gone, diskVars, lockVars, countVars
    <2> QED
      BY <1>1, <2>1, GoneKeeps
  <1>4. ASSUME NEW p \in Proc, Advance(p) PROVE Inv'
    BY <1>1, <1>4, AdvanceKeeps
  <1>5. CASE ClusterStep
    BY <1>1, <1>5, ClusterKeeps
  <1> QED
    BY <1>1, <1>2, <1>3, <1>4, <1>5, InvokeKeeps DEF Next

-----------------------------------------------------------------------------
LEMMA Invariance == ASSUME OwnDirs PROVE Spec => []Inv
  <1>1. Inv /\ [Next]_vars => Inv'
    BY NextInv
  <1> QED
    BY InitInv, <1>1, PTL DEF Spec

\* Between its check of posthog-upgrade-lock and the end of its stage a process
\* belongs to the run the lock names, and it is the only one: one comparison per
\* stage is enough.
THEOREM Ownership == ASSUME OwnDirs PROVE Spec => []OneRunActs
  <1>1. Inv => OneRunActs
    <2> SUFFICES ASSUME Inv, NEW p \in Proc, Acting(p)
                 PROVE  lock = mem[p].id /\ \A q \in Proc \ {p} : ~Acting(q)
      BY DEF OneRunActs
    <2>1. lock = mem[p].id
      BY ActingHolds
    <2>2. \A q \in Proc \ {p} : ~Acting(q)
      BY OneActor
    <2> QED
      BY <2>1, <2>2
  <1> QED
    BY <1>1, Invariance, PTL

\* From the end of its preparation until its verification begins the lock and
\* the migration pod are the run's own, whatever failed in between.
THEOREM FailureIsHeld == ASSUME OwnDirs PROVE Spec => []FailureKeepsLockAndPod
  <1>1. Inv => FailureKeepsLockAndPod
    BY DEF Inv
  <1> QED
    BY <1>1, Invariance, PTL

\* No stage of a run is begun twice, however often the process dies.
THEOREM NoReplay == ASSUME OwnDirs PROVE Spec => []AttemptedOnce
  <1>1. Inv => AttemptedOnce
    BY DEF Inv, FileOK, AttemptedOnce
  <1> QED
    BY <1>1, Invariance, PTL

-----------------------------------------------------------------------------
(***************************************************************************)
(* The runner, with its crashes and interleavings, implements the abstract  *)
(* staged run when every operator uses a state directory of their own.      *)
(***************************************************************************)

statusBar == [d \in Dir |-> disk[d].steps]
holderBar == { d \in Dir : lock # NoRun /\ disk[d].id = lock }

LEMMA AbstractStages ==
    /\ Promise!Stage = Stage
    /\ \A steps, s : Promise!Ready(steps, s) <=> Ready(steps, s)
  BY DEF Promise!Stage, Promise!LogStage, Promise!Ready, Promise!Needs, Promise!HeldStage,
         Stage, LogStage, Ready, Needs, HeldStage

\* The file of one run records x for one stage; the other files are as they were.
Records(d, s, x) ==
    /\ disk'[d].steps = [disk[d].steps EXCEPT ![s] = x]
    /\ \A e \in Dir \ {d} : disk'[e].steps = disk[e].steps

LEMMA RecordBar ==
    ASSUME NEW d \in Dir, NEW s \in Stage, NEW x, Records(d, s, x)
    PROVE  Promise!Record(d, s, x)
  <1>1. statusBar' = [statusBar EXCEPT ![d] = [disk[d].steps EXCEPT ![s] = x]]
    BY DEF statusBar, Records
  <1> QED
    BY <1>1 DEF Promise!Record, statusBar

LEMMA HolderBar ==
    ASSUME \A e \in Dir : disk'[e].id = disk[e].id, lock' = lock
    PROVE  holderBar' = holderBar
  BY DEF holderBar

LEMMA Stutters ==
    ASSUME \A e \in Dir : disk'[e].id = disk[e].id /\ disk'[e].steps = disk[e].steps,
           lock' = lock
    PROVE  UNCHANGED Promise!avars
  <1>1. statusBar' = statusBar
    BY DEF statusBar
  <1> QED
    BY <1>1, HolderBar DEF Promise!avars, statusBar, holderBar

\* A stage is attempted.
LEMMA BeginAttempts ==
    ASSUME Inv, NEW p \in Proc, Begin(p)
    PROVE  Promise!Attempt(DirOf[p], stage[p])
  <1> DEFINE d == DirOf[p]
             s == stage[p]
             id == IF s = "prepare" THEN runs + 1 ELSE mem[p].id
  <1>1. d \in Dir /\ s \in Stage /\ runs \in Nat /\ lock <= runs /\ lock \in Nat /\ at[p] = "begin"
    BY DirTyped DEF Inv, Typed, TypeOK, Begin
  <1>2. /\ mem[p].id = disk[d].id /\ mem[p].steps = disk[d].steps /\ Ready(disk[d].steps, s)
        /\ disk[d].id \in Nat
    BY <1>1 DEF Inv, ProcOK, MemoryOf, BeforeBegin, Typed, TypeOK, RunState
  <1>3. disk' = [disk EXCEPT ![d] = [mem[p] EXCEPT !.id = id, !.steps[s] = "started"]] /\ lock' = lock
    BY DEF Begin, Checkpoint, Write, lockVars
  <1>4. /\ disk'[d].id = id /\ disk'[d].steps = [disk[d].steps EXCEPT ![s] = "started"]
        /\ \A e \in Dir \ {d} : disk'[e] = disk[e]
    <2> DEFINE new == [mem[p] EXCEPT !.id = id, !.steps[s] = "started"]
    <2>1. new.id = id /\ new.steps = [mem[p].steps EXCEPT ![s] = "started"]
      BY DEF Inv, Typed, TypeOK, RunState
    <2> HIDE DEF new, id
    <2>2. disk' = [disk EXCEPT ![d] = new]
      BY <1>3 DEF new
    <2> QED
      BY <1>1, <1>2, <2>1, <2>2 DEF Inv, Typed, TypeOK
  <1>5. Promise!Record(d, s, "started")
    BY <1>1, <1>4, RecordBar DEF Records
  <1>6. s # "prepare" => d \in holderBar
    BY <1>1, ActingHolds DEF Acting, holderBar
  <1>7. holderBar' = holderBar
    <2>1. CASE s # "prepare"
      BY <1>2, <1>3, <1>4, <2>1, HolderBar
    <2>2. CASE s = "prepare"
      <3>1. disk[d].id = NoRun
        BY <1>1, <1>2, <2>2 DEF Inv, FileOK, Ready
      <3>2. disk'[d].id = runs + 1
        BY <1>4, <2>2
      <3> QED
        BY <1>1, <1>3, <1>4, <3>1, <3>2 DEF holderBar
    <2> QED
      BY <2>1, <2>2
  <1>8. Promise!Ready(statusBar[d], s)
    BY <1>1, <1>2, AbstractStages DEF statusBar
  <1> QED
    BY <1>5, <1>6, <1>7, <1>8 DEF Promise!Attempt, statusBar, holderBar

\* A stage is completed.
LEMMA FinishCompletes ==
    ASSUME Inv, NEW p \in Proc, Finish(p)
    PROVE  Promise!Complete(DirOf[p], stage[p])
  <1> DEFINE d == DirOf[p]
             s == stage[p]
  <1>1. d \in Dir /\ s \in Stage /\ at[p] = "finish"
    BY DirTyped DEF Inv, Typed, TypeOK, Finish
  <1>2. /\ mem[p].id = disk[d].id /\ mem[p].steps = disk[d].steps /\ disk[d].steps[s] = "started"
    BY <1>1 DEF Inv, ProcOK, MemoryOf, BeforeBegin
  <1>3. disk' = [disk EXCEPT ![d] = [mem[p] EXCEPT !.steps[s] = "complete"]] /\ lock' = lock
    BY DEF Finish, Write, lockVars
  <1>4. /\ disk'[d].id = disk[d].id /\ disk'[d].steps = [disk[d].steps EXCEPT ![s] = "complete"]
        /\ \A e \in Dir \ {d} : disk'[e] = disk[e]
    <2> DEFINE new == [mem[p] EXCEPT !.steps[s] = "complete"]
    <2>1. new.id = mem[p].id /\ new.steps = [mem[p].steps EXCEPT ![s] = "complete"]
      BY DEF Inv, Typed, TypeOK, RunState
    <2> HIDE DEF new
    <2>2. disk' = [disk EXCEPT ![d] = new]
      BY <1>3 DEF new
    <2> QED
      BY <1>1, <1>2, <2>1, <2>2 DEF Inv, Typed, TypeOK
  <1>5. Promise!Record(d, s, "complete") /\ holderBar' = holderBar
    BY <1>1, <1>3, <1>4, RecordBar, HolderBar DEF Records
  <1>6. d \in holderBar \/ s = "verify"
    BY <1>1, ActingHolds DEF Acting, holderBar
  <1> QED
    BY <1>1, <1>2, <1>5, <1>6 DEF Promise!Complete, statusBar, holderBar

\* The lock ConfigMap is created.
LEMMA TakeLockAcquires ==
    ASSUME Inv, NEW p \in Proc, TakeLock(p)
    PROVE  Promise!Acquire(DirOf[p])
  <1> DEFINE d == DirOf[p]
  <1>1. /\ d \in Dir /\ at[p] = "takeLock" /\ lock = NoRun /\ lock' = mem[p].id /\ disk' = disk
    BY DirTyped DEF TakeLock, diskVars
  <1>2. mem[p].id = disk[d].id /\ disk[d].steps["prepare"] = "started"
    BY <1>1 DEF Inv, ProcOK, StageOfStep, MemoryOf, BeforeBegin, PrepareOnly
  <1>3. disk[d].id # NoRun
    BY <1>1, <1>2 DEF Inv, FileOK
  <1>4. holderBar = {} /\ holderBar' = {d} /\ statusBar' = statusBar
    BY <1>1, <1>2, <1>3 DEF Inv, UniqueIds, holderBar, statusBar
  <1> QED
    BY <1>1, <1>2, <1>4 DEF Promise!Acquire, statusBar, holderBar

\* A fresh target's dependencies are recorded.
LEMMA RecordJobsProvisions ==
    ASSUME Inv, NEW p \in Proc, RecordJobs(p)
    PROVE  Promise!Provision(DirOf[p]) \/ UNCHANGED Promise!avars
  <1> DEFINE d == DirOf[p]
  <1>1. d \in Dir /\ at[p] = "recordJobs" /\ disk' = [disk EXCEPT ![d] = mem[p]] /\ lock' = lock
    BY DirTyped DEF RecordJobs, Checkpoint, Write, lockVars
  <1>2. /\ mem[p].id = disk[d].id /\ disk[d].steps["prepare"] = "started"
        /\ disk[d].steps["infrastructure"] = "none"
        /\ \/ mem[p].steps = disk[d].steps
           \/ mem[p].steps = [disk[d].steps EXCEPT !["infrastructure"] = "complete"]
    BY <1>1 DEF Inv, ProcOK, StageOfStep, MemoryOf, BeforeBegin, PrepareOnly
  <1>3. disk'[d] = mem[p] /\ \A e \in Dir \ {d} : disk'[e] = disk[e]
    BY <1>1 DEF Inv, Typed, TypeOK
  <1>4. d \in holderBar /\ holderBar' = holderBar
    <2>1. lock = disk[d].id /\ lock # NoRun
      BY <1>1, ActingHolds DEF Acting
    <2>2. \A e \in Dir : disk'[e].id = disk[e].id
      BY <1>2, <1>3
    <2> QED
      BY <1>1, <2>1, <2>2, HolderBar DEF holderBar
  <1>5. CASE mem[p].steps = disk[d].steps
    BY <1>1, <1>2, <1>3, <1>5, Stutters
  <1>6. CASE mem[p].steps = [disk[d].steps EXCEPT !["infrastructure"] = "complete"]
    <2>1. Promise!Record(d, "infrastructure", "complete")
      BY <1>1, <1>3, <1>6, RecordBar DEF Records, Stage
    <2> QED
      BY <1>1, <1>2, <1>4, <2>1 DEF Promise!Provision, statusBar, holderBar
  <1> QED
    BY <1>2, <1>5, <1>6

\* The lock ConfigMap is deleted.
LEMMA DeleteLockReleases ==
    ASSUME Inv, NEW p \in Proc, DeleteLock(p)
    PROVE  Promise!Release(DirOf[p])
  <1> DEFINE d == DirOf[p]
  <1>1. d \in Dir /\ at[p] = "deleteLock" /\ lock' = NoRun /\ disk' = disk
    BY DirTyped DEF DeleteLock, diskVars
  <1>2. disk[d].steps["verify"] = "started" /\ Acting(p)
    BY <1>1 DEF Inv, ProcOK, StageOfStep, MemoryOf, BeforeBegin, VerifyOnly, Acting
  <1>3. d \in holderBar
    BY <1>1, <1>2, ActingHolds DEF holderBar
  <1>4. holderBar' = {} /\ statusBar' = statusBar
    BY <1>1 DEF holderBar, statusBar
  <1> QED
    BY <1>1, <1>2, <1>3, <1>4 DEF Promise!Release, statusBar, holderBar

\* The checkpoints between the first and the last record nothing new about stages.
LEMMA CheckpointStutters ==
    ASSUME Inv, NEW p \in Proc, RecordNamespace(p) \/ FreezeTables(p) \/ VerifyBackup(p)
    PROVE  UNCHANGED Promise!avars
  <1> DEFINE d == DirOf[p]
  <1>1. /\ d \in Dir /\ at[p] \in {"recordNamespace", "freeze", "verifyBackup"} /\ lock' = lock
        /\ mem[p] \in RunState
        /\ \/ disk' = [disk EXCEPT ![d] = mem[p]]
           \/ disk' = [disk EXCEPT ![d] = [mem[p] EXCEPT !.verified = TRUE]]
    BY DirTyped DEF RecordNamespace, FreezeTables, VerifyBackup, Checkpoint, Write, lockVars,
                    Inv, Typed, TypeOK
  <1>2. mem[p].id = disk[d].id /\ mem[p].steps = disk[d].steps
    BY <1>1 DEF Inv, ProcOK, MemoryOf
  <1>3. ASSUME NEW st, st.id = mem[p].id, st.steps = mem[p].steps, disk' = [disk EXCEPT ![d] = st]
        PROVE  \A e \in Dir : disk'[e].id = disk[e].id /\ disk'[e].steps = disk[e].steps
    BY <1>1, <1>2, <1>3 DEF Inv, Typed, TypeOK
  <1>4. /\ [mem[p] EXCEPT !.verified = TRUE].id = mem[p].id
        /\ [mem[p] EXCEPT !.verified = TRUE].steps = mem[p].steps
    BY <1>1 DEF RunState
  <1> QED
    BY <1>1, <1>3, <1>4, Stutters

LEMMA AdvanceMaps ==
    ASSUME Inv, NEW p \in Proc, Advance(p)
    PROVE  [Promise!ANext]_(Promise!avars)
  <1> DEFINE d == DirOf[p]
  <1>1. d \in Dir /\ stage[p] \in Stage
    BY DirTyped DEF Inv, Typed, TypeOK
  <1>2. CASE Begin(p)
    BY <1>1, <1>2, BeginAttempts, AbstractStages DEF Promise!ANext
  <1>3. CASE Finish(p)
    BY <1>1, <1>3, FinishCompletes, AbstractStages DEF Promise!ANext
  <1>4. CASE TakeLock(p)
    BY <1>1, <1>4, TakeLockAcquires DEF Promise!ANext
  <1>5. CASE RecordJobs(p)
    BY <1>1, <1>5, RecordJobsProvisions DEF Promise!ANext
  <1>6. CASE DeleteLock(p)
    BY <1>1, <1>6, DeleteLockReleases DEF Promise!ANext
  <1>7. CASE RecordNamespace(p) \/ FreezeTables(p) \/ VerifyBackup(p)
    BY <1>7, CheckpointStutters
  <1>8. CASE \/ Preflight(p) \/ CheckLock(p) \/ CheckHeld(p)
             \/ SuspendOwner(p) \/ SuspendRelease(p) \/ DeleteHpa(p) \/ Scale(p)
             \/ WaitDrained(p) \/ Bootstrap(p) \/ HoldInstall(p) \/ CreatePod(p)
    <2>1. disk' = disk /\ lock' = lock
      BY <1>8 DEF Preflight, CheckLock, CheckHeld, SuspendOwner, SuspendRelease, DeleteHpa, Scale,
                  WaitDrained, Bootstrap, HoldInstall, CreatePod, diskVars, lockVars
    <2> QED
      BY <2>1, Stutters
  <1>9. CASE \/ BackupHeld(p) \/ Dump(p) \/ Unfreeze(p) \/ PatchBinary(p) \/ ApplyTargets(p)
             \/ RunScript(p) \/ MigrateStep(p)
    <2>1. disk' = disk /\ lock' = lock
      BY <1>9 DEF BackupHeld, Dump, Unfreeze, PatchBinary, ApplyTargets, RunScript, MigrateStep,
                  LegacyCheck, HeldAgain, CreateJob, WaitJob, MigrateCheck, diskVars, lockVars
    <2> QED
      BY <2>1, Stutters
  <1>10. CASE \/ Install(p) \/ ResumeRelease(p) \/ ResumeOwners(p) \/ RolloutStatus(p)
              \/ Capture(p) \/ Align(p) \/ DeletePod(p)
    <2>1. disk' = disk /\ lock' = lock
      BY <1>10 DEF Install, ResumeRelease, ResumeOwners, RolloutStatus, Capture, Align, DeletePod,
                   diskVars, lockVars
    <2> QED
      BY <2>1, Stutters
  <1> QED
    BY <1>2, <1>3, <1>4, <1>5, <1>6, <1>7, <1>8, <1>9, <1>10
    DEF Advance, PrepareStep, ProtectStep, ReleaseStep

LEMMA NextMaps == Inv /\ [Next]_vars => [Promise!ANext]_(Promise!avars)
  <1> SUFFICES ASSUME Inv, [Next]_vars PROVE [Promise!ANext]_(Promise!avars)
    OBVIOUS
  <1>1. CASE UNCHANGED vars
    BY <1>1, Stutters DEF vars, diskVars, lockVars
  <1>2. ASSUME NEW p \in Proc, Advance(p) PROVE [Promise!ANext]_(Promise!avars)
    BY <1>2, AdvanceMaps
  <1>3. ASSUME NEW p \in Proc,
               \/ \E s \in Stages, m \in Modes : Invoke(p, s, m)
               \/ ScriptFails(p) \/ Refuse(p) \/ Abort(p)
        PROVE  UNCHANGED Promise!avars
    <2>1. disk' = disk /\ lock' = lock
      BY <1>3 DEF Invoke, ScriptFails, Refuse, Abort, diskVars, lockVars
    <2> QED
      BY <2>1, Stutters
  <1>4. CASE ClusterStep
    <2>1. disk' = disk /\ lock' = lock
      BY <1>4 DEF ClusterStep, KustomizationReconciles, FluxStarts, FluxApplies, PodsTerminate,
                  AppWrites, JobEnds, diskVars, lockVars
    <2> QED
      BY <2>1, Stutters
  <1> QED
    BY <1>1, <1>2, <1>3, <1>4 DEF Next

LEMMA InitMaps == Init => Promise!AInit
  <1> SUFFICES ASSUME Init PROVE Promise!AInit
    OBVIOUS
  <1>1. statusBar = [d \in Dir |-> [s \in Stage |-> "none"]] /\ holderBar = {}
    BY DEF Init, NewState, statusBar, holderBar
  <1> QED
    BY <1>1, AbstractStages DEF Promise!AInit, statusBar, holderBar

\* Seen through its state files and the lock ConfigMap, every behaviour of the
\* runner is one of the abstract run: stages in order, each once, and only by
\* the run that holds the cluster.
THEOREM Refinement == ASSUME OwnDirs PROVE Spec => ImplementsStagedRun
  <1> QED
    BY InitMaps, NextMaps, Invariance, PTL DEF Spec, ImplementsStagedRun, Promise!ASpec
=============================================================================
