SPECIFICATION Spec
CONSTANTS
    b1 = b1
    b2 = b2
    v1 = v1
    k1 = k1
    a1 = a1
    a2 = a2
    p1 = p1
    p2 = p2
    Base = {b1, b2}
    View = {v1}
    Kafka = {k1}
    Alias = {a1, a2}
    Bindings = {{}}
    Proc = {p1, p2}
    Disconnects = TRUE
    Writers = FALSE
    MaxQueue = 1
    MaxUpsets = 0
    MaxDeaths = 0
INVARIANTS
    CheckpointsOutlive
CHECK_DEADLOCK FALSE
