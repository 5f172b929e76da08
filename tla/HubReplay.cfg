SPECIFICATION Spec
CONSTANTS
    d1 = d1
    d2 = d2
    t1 = t1
    t2 = t2
    Dir = {d1}
    Proc = {t1, t2}
    DirOf <- SharedDir
    Stages <- MainStages
    Modes = {"upgrade"}
    Releases = {"live"}
    Legacy = {"none"}
    HasOwner = TRUE
    FluxBusy = FALSE
    NJobs = 2
    MigrateJob = 2
    MaxInvocations = 8
    MaxAborts = 0
INVARIANTS
    LockedStageOnce
CHECK_DEADLOCK FALSE
