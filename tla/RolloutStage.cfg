SPECIFICATION FairSpec
CONSTANTS
    MaxPodFailures = 2
    MaxRereads = 3
INVARIANTS
    TypeOK
    StageMeansTarget
PROPERTIES
    NewConfigOnNewBinary
    StageEnds
CHECK_DEADLOCK FALSE
