----------------------- MODULE ClickHouseRolloutProofs -----------------------
(***************************************************************************)
(* Why no ClickHouse binary ever loads newer settings than its own.         *)
(***************************************************************************)
EXTENDS ClickHouseRollout, TLAPS

AfterImage == {"before", "apply", "after", "waitTarget", "seeTarget", "done"}

Kinds == spec \in Spec0 /\ doing \in Spec0 /\ pod \in Spec0

\* A new image spreads from the spec to the task to the pod and never back.
ImageSpreads ==
    /\ doing.image = "new" => spec.image = "new"
    /\ pod.image = "new" => doing.image = "new"

\* Where a configuration has still to be loaded, the image is the new one
\* already; the runner goes on to the target only after it has seen that.
ConfigWaits ==
    /\ doing.config # pod.config => pod.image = "new"
    /\ spec.config # pod.config => pod.image = "new"
    /\ at \in AfterImage => pod.image = "new"

Inv == Kinds /\ ImageSpreads /\ ConfigWaits

LEMMA InitInv == Init => Inv
  BY DEF Init, Inv, Kinds, ImageSpreads, ConfigWaits, AfterImage, Spec0

LEMMA StepInv == Inv /\ [Next]_vars => Inv'
  <1> SUFFICES ASSUME Inv, [Next]_vars PROVE Inv'
    OBVIOUS
  <1> USE DEF Inv, Kinds, ImageSpreads, ConfigWaits
  <1>1. CASE Look \/ Before
    BY <1>1 DEF Look, Before, Runner, specVars, operatorVars, podVars, AfterImage
  <1>2. CASE PatchImage
    BY <1>2 DEF PatchImage, Runner, WriteSpec, operatorVars, podVars, AfterImage, Spec0, Version
  <1>3. CASE LookAgain("lookAgain", "waitImage") \/ LookAgain("after", "waitTarget")
    BY <1>3 DEF LookAgain, Runner, specVars, operatorVars, podVars, AfterImage
  <1>4. CASE ApplyTarget
    BY <1>4 DEF ApplyTarget, Runner, WriteSpec, operatorVars, podVars, AfterImage, Target, Spec0, Version
  <1>5. CASE SeeTask("waitImage", "seeImage") \/ SeeTask("waitTarget", "seeTarget")
    BY <1>5 DEF SeeTask, Otherwise, Runner, specVars, operatorVars, podVars, AfterImage
  <1>6. CASE SeePod("seeImage", "waitImage", "before", {"new"})
    BY <1>6 DEF SeePod, Otherwise, Runner, specVars, operatorVars, podVars, AfterImage
  <1>7. CASE SeePod("seeTarget", "waitTarget", "done", Version)
    BY <1>7 DEF SeePod, Otherwise, Runner, specVars, operatorVars, podVars, AfterImage
  <1>8. CASE BeginTask
    BY <1>8 DEF BeginTask, runnerVars, specVars, podVars, Spec0, Version
  <1>9. CASE MountConfig
    BY <1>9 DEF MountConfig, runnerVars, specVars, operatorVars, Spec0, Version
  <1>10. CASE ReplacePod
    BY <1>10 DEF ReplacePod, runnerVars, specVars, operatorVars, Spec0, Version
  <1>11. CASE EndTask \/ PodReady \/ PodFails
    BY <1>11 DEF EndTask, PodReady, PodFails, runnerVars, specVars, operatorVars, podVars
  <1>12. CASE UNCHANGED vars
    BY <1>12 DEF vars, runnerVars, specVars, operatorVars, podVars
  <1>13. RunnerStep => Inv'
    BY <1>1, <1>2, <1>3, <1>4, <1>5, <1>6, <1>7 DEF RunnerStep
  <1>14. ClusterStep => Inv'
    BY <1>8, <1>9, <1>10, <1>11 DEF ClusterStep
  <1> QED
    BY <1>11, <1>12, <1>13, <1>14 DEF Next

\* Only MountConfig changes the pod's configuration, and it finds the new image:
\* for any number of pod failures and of reconciliations nobody asked for, an
\* old binary is never given the new settings (lines 387-408 of the runner).
THEOREM BinaryFirst == Spec => NewConfigOnNewBinary
  <1>1. Inv /\ [Next]_vars => [pod'.config # pod.config => pod.image = "new"]_vars
    <2> SUFFICES ASSUME Inv, [Next]_vars, pod'.config # pod.config PROVE pod.image = "new"
      OBVIOUS
    <2>1. CASE MountConfig
      BY <2>1 DEF MountConfig, Inv, Kinds, ConfigWaits, Spec0
    <2>2. CASE ReplacePod
      BY <2>2 DEF ReplacePod, Inv, Kinds, Spec0
    <2>3. CASE ~MountConfig /\ ~ReplacePod
      BY <2>3 DEF Next, RunnerStep, ClusterStep, vars, podVars, Runner, Look, PatchImage,
                  LookAgain, SeeTask, SeePod, Otherwise, Before, ApplyTarget, BeginTask, EndTask,
                  PodReady, PodFails
    <2> QED
      BY <2>1, <2>2, <2>3
  <1> QED
    BY <1>1, InitInv, StepInv, PTL DEF Spec, NewConfigOnNewBinary

-----------------------------------------------------------------------------
(***************************************************************************)
(* Why the two waits suffice, although they read one thing after the other. *)
(***************************************************************************)
\* The operator has nothing to do: without rereads it stays so until the spec changes.
Settled == doing = spec /\ status = "Completed"

\* A change of the spec is either not there, or not done before another task than
\* the one known before it has begun.
Awaited(changed) ==
    IF changed THEN prev # 0 /\ (task # prev => doing = spec) ELSE Settled

StageInv ==
    /\ TypeOK /\ task # 0
    /\ status = "Completed" => pod = doing
    /\ at \in {"after", "waitTarget", "seeTarget", "done"} => spec = Target
    /\ rereads = 0 =>
        /\ at \in {"look", "patch", "seeImage", "before", "apply", "seeTarget", "done"} => Settled
        /\ at \in {"patch", "apply"} => known = generation /\ prev = task
        /\ at \in {"lookAgain", "after"} => Awaited(generation # known)
        /\ at \in {"waitImage", "waitTarget"} => Awaited(prev # 0)

LEMMA StageInit == Init => StageInv
<1> SUFFICES ASSUME Init  PROVE StageInv
  OBVIOUS
<1>1. ready \in BOOLEAN
  BY DEF Init
<1>2. TypeOK
  BY <1>1, LimitsAssumption DEF Init, TypeOK
<1> QED  BY <1>2 DEF Init, StageInv, Settled

LEMMA StepTypes == TypeOK /\ [Next]_vars => TypeOK'
<1> SUFFICES ASSUME TypeOK, [Next]_vars  PROVE TypeOK'
  OBVIOUS
<1>1. CASE Look \/ Before
  BY <1>1 DEF Look, Before, Runner, specVars, operatorVars, podVars, TypeOK
<1>2. CASE PatchImage
  BY <1>2 DEF PatchImage, Runner, WriteSpec, operatorVars, podVars, TypeOK, Spec0, Version
<1>3. CASE LookAgain("lookAgain", "waitImage") \/ LookAgain("after", "waitTarget")
  BY <1>3 DEF LookAgain, Runner, specVars, operatorVars, podVars, TypeOK
<1>4. CASE ApplyTarget
  BY <1>4 DEF ApplyTarget, Runner, WriteSpec, operatorVars, podVars, TypeOK, Target, Spec0, Version
<1>5. CASE SeeTask("waitImage", "seeImage") \/ SeeTask("waitTarget", "seeTarget")
  BY <1>5 DEF SeeTask, Otherwise, Runner, specVars, operatorVars, podVars, TypeOK
<1>6. CASE \/ SeePod("seeImage", "waitImage", "before", {"new"})
           \/ SeePod("seeTarget", "waitTarget", "done", Version)
  BY <1>6 DEF SeePod, Otherwise, Runner, specVars, operatorVars, podVars, TypeOK
<1>7. CASE BeginTask
  BY <1>7, LimitsAssumption DEF BeginTask, runnerVars, specVars, podVars, TypeOK
<1>8. CASE MountConfig \/ ReplacePod
  BY <1>8
     DEF MountConfig, ReplacePod, runnerVars, specVars, operatorVars, TypeOK, Spec0, Version
<1>9. CASE EndTask \/ PodReady
  BY <1>9 DEF EndTask, PodReady, runnerVars, specVars, operatorVars, podVars, TypeOK
<1>11. CASE PodFails
  <2>1. failures' \in 0..MaxPodFailures
    BY <1>11, LimitsAssumption DEF PodFails, TypeOK
  <2> QED  BY <1>11, <2>1 DEF PodFails, runnerVars, specVars, operatorVars, TypeOK
<1>10. CASE UNCHANGED vars
  BY <1>10 DEF vars, runnerVars, specVars, operatorVars, podVars, TypeOK
<1> QED
  BY <1>1, <1>2, <1>3, <1>4, <1>5, <1>6, <1>7, <1>8, <1>9, <1>10, <1>11
     DEF Next, RunnerStep, ClusterStep

LEMMA StageStep == StageInv /\ [Next]_vars => StageInv'
<1> SUFFICES ASSUME StageInv, [Next]_vars  PROVE StageInv'
  OBVIOUS
<1>1. TypeOK'
  BY StepTypes DEF StageInv
<1>2. /\ task \in Nat /\ generation \in Nat /\ known \in 0..generation /\ prev \in 0..task
      /\ rereads \in Nat
      /\ spec \in Spec0 /\ doing \in Spec0 /\ pod \in Spec0
  BY LimitsAssumption DEF StageInv, TypeOK
<1> DEFINE Rest ==
      /\ task # 0
      /\ status = "Completed" => pod = doing
      /\ at \in {"after", "waitTarget", "seeTarget", "done"} => spec = Target
      /\ rereads = 0 =>
          /\ at \in {"look", "patch", "seeImage", "before", "apply", "seeTarget", "done"} => Settled
          /\ at \in {"patch", "apply"} => known = generation /\ prev = task
          /\ at \in {"lookAgain", "after"} => Awaited(generation # known)
          /\ at \in {"waitImage", "waitTarget"} => Awaited(prev # 0)
<1>3. Rest
  BY DEF StageInv
<1>4. SUFFICES Rest'
  BY <1>1 DEF StageInv
<1>5. CASE Look \/ Before
  BY <1>2, <1>3, <1>5 DEF Look, Before, Runner, specVars, operatorVars, podVars, Settled
<1>6. CASE PatchImage
  BY <1>2, <1>3, <1>6
     DEF PatchImage, Runner, WriteSpec, operatorVars, podVars, Settled, Awaited
<1>7. CASE LookAgain("lookAgain", "waitImage") \/ LookAgain("after", "waitTarget")
  BY <1>2, <1>3, <1>7 DEF LookAgain, Runner, specVars, operatorVars, podVars, Settled, Awaited
<1>8. CASE ApplyTarget
  BY <1>2, <1>3, <1>8
     DEF ApplyTarget, Runner, WriteSpec, operatorVars, podVars, Settled, Awaited
<1>9. CASE SeeTask("waitImage", "seeImage") \/ SeeTask("waitTarget", "seeTarget")
  BY <1>2, <1>3, <1>9
     DEF SeeTask, Reconciled, Otherwise, Runner, specVars, operatorVars, podVars, Settled, Awaited
<1>10. CASE \/ SeePod("seeImage", "waitImage", "before", {"new"})
            \/ SeePod("seeTarget", "waitTarget", "done", Version)
  BY <1>2, <1>3, <1>10
     DEF SeePod, Otherwise, Runner, specVars, operatorVars, podVars, Settled, Awaited
\* A task that nobody asked for is counted; one that was changes the task id.
<1>11. CASE BeginTask
  BY <1>2, <1>3, <1>11 DEF BeginTask, runnerVars, specVars, podVars, Settled, Awaited
<1>12. CASE MountConfig \/ ReplacePod
  BY <1>2, <1>3, <1>12
     DEF MountConfig, ReplacePod, runnerVars, specVars, operatorVars, Settled, Awaited
<1>13. CASE EndTask \/ PodReady \/ PodFails
  BY <1>2, <1>3, <1>13
     DEF EndTask, PodReady, PodFails, runnerVars, specVars, operatorVars, podVars, Settled, Awaited
<1>14. CASE UNCHANGED vars
  BY <1>3, <1>14 DEF vars, runnerVars, specVars, operatorVars, podVars, Settled, Awaited
<1> QED
  BY <1>5, <1>6, <1>7, <1>8, <1>9, <1>10, <1>11, <1>12, <1>13, <1>14
     DEF Next, RunnerStep, ClusterStep

\* Types, for any number of failures and reconciliations: the runner knows no
\* generation and no task that there never was.
THEOREM Typing == Spec => []TypeOK
<1>1. StageInv => TypeOK
  BY DEF StageInv
<1> QED  BY <1>1, StageInit, StageStep, PTL DEF Spec

\* A stage that is over has its target running, as long as the operator reconciles
\* only what changed (lines 120-142 of the runner), although readiness and the task
\* are read one after the other and the pod may fail in between.
THEOREM StageIsTarget == Spec => []StageMeansTarget
<1>1. StageInv => StageMeansTarget
  BY DEF StageInv, StageMeansTarget, Settled
<1> QED  BY <1>1, StageInit, StageStep, PTL DEF Spec

=============================================================================
