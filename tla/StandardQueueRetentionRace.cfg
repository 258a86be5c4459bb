SPECIFICATION Spec
CONSTANTS
    c1 = c1
    c2 = c2
    Consumers <- TwoConsumers
    MaxMessages = 2
    BatchSize = 1
    MaxReceiveCount = 0
    MaxReceives = 1
    Retention = TRUE
INVARIANTS
    OnlyExpiredRemoved
CHECK_DEADLOCK FALSE
