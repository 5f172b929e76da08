SPECIFICATION Spec
CONSTANTS
    d1 = d1
    d2 = d2
    t1 = t1
    t2 = t2
    Dir = {d1, d2}
    Proc = {t1, t2}
    DirOf <- TwoDirs
    Stages <- MainStages
    Modes = {"upgrade"}
    Releases = {"live"}
    Legacy = {"none"}
    HasOwner = TRUE
    FluxBusy = FALSE
    NJobs = 2
    MigrateJob = 2
    MaxInvocations = 12
    MaxAborts = 0
INVARIANTS
    PrepareSuspendsFlux
CHECK_DEADLOCK FALSE
