SPECIFICATION Spec
CONSTANTS
    b1 = b1
    b2 = b2
    v1 = v1
    k1 = k1
    a1 = a1
    a2 = a2
    p1 = p1
    p2 = p2
    Base = {b1, b2}
    View = {v1}
    Kafka = {k1}
    Alias = {a1, a2}
    Bindings = {{}}
    Proc = {p1, p2}
    Disconnects = TRUE
    Writers = TRUE
    MaxQueue = 1
    MaxUpsets = 1
    MaxDeaths = 1
INVARIANTS
    TypeOK
    JournalTruthful
PROPERTIES
    NoQueuedBlockLost
    QueuesHeldUntilMigrated
SYMMETRY Interchangeable
CHECK_DEADLOCK FALSE
