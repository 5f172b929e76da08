---------------------------- MODULE UpgradeStages ----------------------------
(***************************************************************************)
(* The stages of scripts/deploy-hub-production.py and the order it demands  *)
(* of them, shared by the abstract run (StagedRun) and the runner           *)
(* (HubDeploy).                                                             *)
(***************************************************************************)

LogStage == {"logs:snapshot", "logs:reconcile", "logs:consumers",
             "logs:drain", "logs:verify", "logs:finalize"}

Stage == {"prepare", "backup", "infrastructure", "migrate",
          "rollout", "verify"} \cup LogStage

Status == {"none", "started", "complete"}

\* Stages that run with every application writer stopped.
HeldStage == {"infrastructure", "migrate"} \cup LogStage

\* Mutants of Needs: the backup is not required; the logs move may be left
\* unfinalized; the logs move is required of every run.
NeedsNoBackup(steps, s) ==
    { r \in Stage :
        \/ r = "prepare" /\ s # "prepare"
        \/ r = "infrastructure" /\ s \in {"migrate"} \cup LogStage
        \/ r = "migrate" /\ s = "rollout"
        \/ r = "rollout" /\ s = "verify" }

NeedsNoFinalize(steps, s) ==
    NeedsNoBackup(steps, s) \cup (IF s \in HeldStage THEN {"backup"} ELSE {})

NeedsFinalizeAlways(steps, s) ==
    NeedsNoFinalize(steps, s) \cup (IF s = "rollout" THEN {"logs:finalize"} ELSE {})

\* The stages complete() insists on before stage s, given the recorded steps.
Needs(steps, s) ==
    { r \in Stage :
        \/ r = "prepare" /\ s # "prepare"
        \/ r = "backup" /\ s \in HeldStage
        \/ r = "infrastructure" /\ s \in {"migrate"} \cup LogStage
        \/ r = "migrate" /\ s = "rollout"
        \/ r = "logs:finalize" /\ s = "rollout" /\ steps["logs:reconcile"] # "none"
        \/ r = "rollout" /\ s = "verify" }

\* A stage is attempted at most once, after everything it needs.
Ready(steps, s) ==
    /\ steps[s] = "none"
    /\ \A r \in Needs(steps, s) : steps[r] = "complete"
=============================================================================
