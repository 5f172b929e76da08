-------------------------- MODULE ClickHouseRollout --------------------------
(***************************************************************************)
(* The infrastructure stage of scripts/deploy-hub-production.py against the *)
(* ClickHouse operator: first the new image under the old configuration,    *)
(* then the whole target.  The runner cannot see what the operator is       *)
(* doing, only the task id and status it writes, and the pod's readiness,   *)
(* which lag behind the spec; and it reads them one after the other.        *)
(***************************************************************************)
EXTENDS Naturals

CONSTANTS
    MaxPodFailures,    \* bound: times the pod becomes unready by itself
    MaxRereads         \* bound: reconciliations of a spec that did not change

ASSUME LimitsAssumption ==
    MaxPodFailures \in Nat /\ MaxRereads \in Nat

Version == {"old", "new"}
Spec0   == [image : Version, config : Version]
Target  == [image |-> "new", config |-> "new"]

VARIABLES
    at,             \* the runner's next step
    known, prev,    \* generation before its change; task it must not accept, or 0
    spec, generation,       \* ClickHouseInstallation: spec
    task, status, doing,    \* ClickHouseInstallation: status; the spec reconciled
    pod, ready,             \* the pod's image and configuration; its readiness
    failures, rereads       \* budgets

runnerVars   == <<at, known, prev>>
specVars     == <<spec, generation>>
operatorVars == <<task, status, doing, rereads>>
podVars      == <<pod, ready, failures>>
vars == <<runnerVars, specVars, operatorVars, podVars>>

\* prepare has seen a completed reconciliation; nobody else changes the spec.
Init ==
    /\ at = "look" /\ known = 0 /\ prev = 0
    /\ spec \in {s \in Spec0 : s.config = "new" => s.image = "new"} /\ generation = 1
    /\ task = 1 /\ status = "Completed" /\ doing = spec
    /\ pod = spec /\ ready \in BOOLEAN
    /\ failures = 0 /\ rereads = 0

Runner(l) == at' = l /\ UNCHANGED <<operatorVars, podVars>>

\* The API server counts a write as a generation when it changes the spec.
WriteSpec(s) ==
    /\ spec' = s
    /\ generation' = IF s = spec THEN generation ELSE generation + 1

(***************************************************************************)
(* The runner: two changes, each between two looks, each waited for.        *)
(***************************************************************************)
Look ==
    /\ at = "look" /\ Runner("patch")
    /\ known' = generation /\ prev' = task
    /\ UNCHANGED specVars

PatchImage ==
    /\ at = "patch" /\ Runner("lookAgain")
    /\ WriteSpec([spec EXCEPT !.image = "new"])
    /\ UNCHANGED <<known, prev>>

\* Mutants: the task completed before the change will do; a task is waited for
\* whether or not the change started one; generation and task are mixed up.
LookAgainAnyTask(l, next) ==
    /\ at = l /\ Runner(next) /\ prev' = 0 /\ UNCHANGED <<known, specVars>>

LookAgainAlways(l, next) ==
    /\ at = l /\ Runner(next) /\ UNCHANGED <<known, prev, specVars>>

LookAgainGeneration(l, next) ==
    /\ at = l /\ Runner(next) /\ prev' = generation /\ UNCHANGED <<known, specVars>>

\* An unchanged spec starts no task, so none is waited for.
LookAgain(l, next) ==
    /\ at = l /\ Runner(next)
    /\ prev' = IF generation = known THEN 0 ELSE prev
    /\ UNCHANGED <<known, specVars>>

Before ==
    /\ at = "before" /\ Runner("apply")
    /\ known' = generation /\ prev' = task
    /\ UNCHANGED specVars

ApplyTarget ==
    /\ at = "apply" /\ Runner("after")
    /\ WriteSpec(Target)
    /\ UNCHANGED <<known, prev>>

\* wait_clickhouse: one round reads the installation, then the pods; after a
\* round that saw too little the deadline may be over.
Reconciled == status = "Completed" /\ (prev = 0 \/ task # prev)

Otherwise(again) == {again, "failed"}

SeeTask(l, next) ==
    /\ at = l
    /\ \E after \in (IF Reconciled THEN {next} ELSE Otherwise(l)) : Runner(after)
    /\ UNCHANGED <<known, prev, specVars>>

\* Mutant: any ready pod will do.
SeePodAnyImage(l, again, next, image) ==
    /\ at = l
    /\ \E after \in (IF ready THEN {next} ELSE Otherwise(again)) : Runner(after)
    /\ UNCHANGED <<known, prev, specVars>>

SeePod(l, again, next, image) ==
    /\ at = l
    /\ \E after \in (IF ready /\ pod.image \in image THEN {next} ELSE Otherwise(again)) : Runner(after)
    /\ UNCHANGED <<known, prev, specVars>>

(***************************************************************************)
(* The operator and the pod.                                                *)
(***************************************************************************)
BeginTask ==
    /\ status = "Completed" /\ (doing # spec \/ rereads < MaxRereads)
    /\ rereads' = IF doing = spec THEN rereads + 1 ELSE rereads
    /\ task' = task + 1 /\ status' = "InProgress" /\ doing' = spec
    /\ UNCHANGED <<runnerVars, specVars, podVars>>

\* The configuration is mounted into the running pod before it is replaced.
MountConfig ==
    /\ status = "InProgress" /\ pod.config # doing.config
    /\ pod' = [pod EXCEPT !.config = doing.config] /\ ready' \in {ready, FALSE}
    /\ UNCHANGED <<runnerVars, specVars, operatorVars, failures>>

ReplacePod ==
    /\ status = "InProgress" /\ pod.config = doing.config /\ pod.image # doing.image
    /\ pod' = [pod EXCEPT !.image = doing.image] /\ ready' = FALSE
    /\ UNCHANGED <<runnerVars, specVars, operatorVars, failures>>

EndTask ==
    /\ status = "InProgress" /\ pod = doing /\ ready
    /\ status' = "Completed"
    /\ UNCHANGED <<runnerVars, specVars, task, doing, rereads, podVars>>

PodReady ==
    /\ ~ready /\ ready' = TRUE
    /\ UNCHANGED <<runnerVars, specVars, operatorVars, pod, failures>>

PodFails ==
    /\ ready /\ failures < MaxPodFailures
    /\ ready' = FALSE /\ failures' = failures + 1
    /\ UNCHANGED <<runnerVars, specVars, operatorVars, pod>>

-----------------------------------------------------------------------------
RunnerStep ==
    \/ Look \/ PatchImage \/ LookAgain("lookAgain", "waitImage")
    \/ SeeTask("waitImage", "seeImage") \/ SeePod("seeImage", "waitImage", "before", {"new"})
    \/ Before \/ ApplyTarget \/ LookAgain("after", "waitTarget")
    \/ SeeTask("waitTarget", "seeTarget") \/ SeePod("seeTarget", "waitTarget", "done", Version)

ClusterStep ==
    \/ BeginTask \/ MountConfig \/ ReplacePod \/ EndTask \/ PodReady

Next == RunnerStep \/ ClusterStep \/ PodFails

Spec == Init /\ [][Next]_vars

\* The runner polls, and nothing makes it time out; the operator and the kubelet
\* do their work.
FairSpec == Spec /\ WF_vars(RunnerStep /\ at' # "failed") /\ WF_vars(ClusterStep)

(***************************************************************************)
(* Properties.                                                              *)
(***************************************************************************)
TypeOK ==
    /\ at \in {"look", "patch", "lookAgain", "waitImage", "seeImage", "before",
              "apply", "after", "waitTarget", "seeTarget", "done", "failed"}
    /\ known \in 0..generation /\ prev \in 0..task /\ {generation, task} \subseteq Nat
    /\ {spec, doing, pod} \subseteq Spec0
    /\ status \in {"Completed", "InProgress"} /\ ready \in BOOLEAN
    /\ failures \in 0..MaxPodFailures /\ rereads \in 0..MaxRereads

\* "Only the ready new binary may load the new configuration": the pod's
\* configuration never changes under the old image, whatever the operator
\* reconciles when, and whenever the runner looks.
NewConfigOnNewBinary ==
    [][pod'.config # pod.config => pod.image = "new"]_vars

\* The taskID "is required to distinguish a completed new reconciliation from
\* stale readiness": as long as the operator reconciles only what changed, a
\* stage that is over has the target running.
StageMeansTarget ==
    at = "done" /\ rereads = 0 => doing = Target /\ pod = Target

\* The two waits end once the operator has done its work, also when one of the
\* changes changes nothing, unless the deadline is over before.
StageEnds == <>(at \in {"done", "failed"})
=============================================================================
