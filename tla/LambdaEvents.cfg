SPECIFICATION Spec
CONSTANTS
    Events = {e1}
    MaxVersions = 2
    MaxRetries = 1
    MaxSends = 4
    MaxTakes = 4
    MaxFaults = 1
INVARIANTS TypeOK EventKept NoExtraAttempts OnePoller
PROPERTIES EventuallyConcluded DeleteCleansUp
CHECK_DEADLOCK FALSE
