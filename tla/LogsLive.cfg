SPECIFICATION FairSpec
CONSTANTS
    b1 = b1
    b2 = b2
    v1 = v1
    k1 = k1
    a1 = a1
    a2 = a2
    p1 = p1
    p2 = p2
    Base = {b1, b2}
    View = {v1}
    Kafka = {k1}
    Alias = {a1, a2}
    Bindings = {{}, {a1}, {a2}}
    Proc = {p1}
    Disconnects = FALSE
    Writers = FALSE
    MaxQueue = 1
    MaxUpsets = 1
    MaxDeaths = 0
INVARIANTS
    ForeignQueuesKept
PROPERTIES
    RepairCompletes
CHECK_DEADLOCK FALSE
