------------------------------ MODULE StagedRun ------------------------------
(***************************************************************************)
(* What the runner promises, without processes, crashes or commands: runs   *)
(* advance through the stages in order, each stage is attempted once and    *)
(* completed at most once, and only the run that holds the cluster attempts *)
(* or completes anything after it began to prepare.                         *)
(***************************************************************************)
EXTENDS UpgradeStages

CONSTANT Run

VARIABLES status, holder      \* holder: {} or the one run that owns the cluster

avars == <<status, holder>>

AInit ==
    /\ status = [r \in Run |-> [s \in Stage |-> "none"]]
    /\ holder = {}

Record(r, s, x) == status' = [status EXCEPT ![r][s] = x]

Attempt(r, s) ==
    /\ Ready(status[r], s)
    /\ s = "prepare" \/ r \in holder
    /\ Record(r, s, "started") /\ UNCHANGED holder

Acquire(r) ==
    /\ status[r]["prepare"] = "started" /\ holder = {}
    /\ holder' = {r} /\ UNCHANGED status

\* A fresh target gets its infrastructure while it is prepared.
Provision(r) ==
    /\ r \in holder /\ status[r]["prepare"] = "started"
    /\ status[r]["infrastructure"] = "none"
    /\ Record(r, "infrastructure", "complete") /\ UNCHANGED holder

Release(r) ==
    /\ r \in holder /\ status[r]["verify"] = "started"
    /\ holder' = {} /\ UNCHANGED status

Complete(r, s) ==
    /\ status[r][s] = "started"
    /\ r \in holder \/ s = "verify"
    /\ Record(r, s, "complete") /\ UNCHANGED holder

ANext ==
    \E r \in Run :
        \/ Acquire(r) \/ Provision(r) \/ Release(r)
        \/ \E s \in Stage : Attempt(r, s) \/ Complete(r, s)

ASpec == AInit /\ [][ANext]_avars
=============================================================================
