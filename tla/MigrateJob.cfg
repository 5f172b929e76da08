SPECIFICATION FairSpec
CONSTANTS
    Node <- Nodes
    Squash <- Squashes
    Replaces <- ReplacesOf
    Parents <- ParentsOf
    Label <- LabelOf
    Late <- LateNodes
    Initial = "posthog.0001"
    Cutoff = "posthog.1340"
    Moves <- MoveList
    MoveSquash = {"cohorts.squash", "experiments.squash"}
    App = {"cohorts", "experiments"}
    AppOf <- AppOfMove
    Creates <- CreatesFor
    Alters <- AltersFor
    Id = {1, 2, 3}
    Pair <- Pairs
    Config = {"c"}
    ConfigOf <- ConfigOfPair
    Null = "null"
    Backfill = "ee.0058"
    Constraint = "ee.0060"
    Histories <- HistoriesFound
    MaxKills = 2
INVARIANTS
    TypeOK
    HistoryConsistent
    HistoryFitsTables
    OldestClaims
PROPERTIES
    RecordsKept
    JobCompletes
CHECK_DEADLOCK FALSE
