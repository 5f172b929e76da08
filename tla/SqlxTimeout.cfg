SPECIFICATION Spec
CONSTANTS
    MaxCrashes = 0
    MaxDeaths = 0
    MaxAttempts = 2
INVARIANTS
    PersonIndexRecreated
CHECK_DEADLOCK FALSE
