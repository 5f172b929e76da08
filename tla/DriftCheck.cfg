SPECIFICATION MCSpec
CONSTANTS
    r1 = r1
    r2 = r2
    Run = {r1, r2}
    Generated = {"generated"}
    Stored = {"object", "seaweed"}
    Derived = {"database"}
    Fixed = {"redis"}
    Pinned = {}
    Twin <- Twins
    MaxStarts = 2
    MaxUpsets = 1
    Defaults <- Chart
    Desired <- Profile
    Trees <- AllTrees
    StoreKey = "object"
    Dicts <- AllDicts
    Paths <- ShortPaths
    Depth <- DepthOf
    Compared <- AllCompared
    MaxEdits = 2
SYMMETRY Rivals
INVARIANTS
    TypeOK
    TwinsAgree
    ReadyMeansComplete
    CleanMeansAligned
    AlignedShowsNoDrift
    BootstrapSatisfiesCheck
    MergeOverlays
PROPERTIES
    NoRotation
    ForeignSecretKept
CHECK_DEADLOCK FALSE
