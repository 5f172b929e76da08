SPECIFICATION Spec
CONSTANTS
    d1 = d1
    d2 = d2
    t1 = t1
    t2 = t2
    Dir = {d1}
    Proc = {t1}
    DirOf <- OneDir
    Stages <- Stage
    Modes = {"fresh", "upgrade"}
    Releases = {"absent", "live"}
    Legacy = {"none", "default"}
    HasOwner = TRUE
    FluxBusy = TRUE
    NJobs = 3
    MigrateJob = 2
    MaxInvocations = 12
    MaxAborts = 2
INVARIANTS
    TypeOK
    WritersHeldDuringJobs
    RolloutResumesFlux
    RolloutAfterLogsFinalized
    AttemptedOnce
PROPERTIES
    BackupCoversMigration
    BackupCoversTargets
    ImplementsStagedRun
CHECK_DEADLOCK FALSE
