SPECIFICATION FairSpec
CONSTANTS
    MaxCrashes = 2
    MaxDeaths = 2
    MaxAttempts = 4
INVARIANTS
    TypeOK
    RecordedBuildsEnded
    FailuresCostTwo
PROPERTIES
    JobEnds
CHECK_DEADLOCK FALSE
