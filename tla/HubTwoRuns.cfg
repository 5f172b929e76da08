SPECIFICATION FairSpec
CONSTANTS
    d1 = d1
    d2 = d2
    t1 = t1
    t2 = t2
    Dir = {d1, d2}
    Proc = {t1, t2}
    DirOf <- TwoDirs
    Stages <- MainStages
    Modes = {"fresh", "upgrade"}
    Releases = {"absent", "live"}
    Legacy = {"none"}
    HasOwner = TRUE
    FluxBusy = TRUE
    NJobs = 2
    MigrateJob = 2
    MaxInvocations = 12
    MaxAborts = 2
INVARIANTS
    OneRunActs
    FailureKeepsLockAndPod
PROPERTIES
    SomeRunVerified
CHECK_DEADLOCK FALSE
