SPECIFICATION Spec
CONSTANTS
    c1 = c1
    c2 = c2
    Consumers <- TwoConsumers
    MaxMessages = 2
    BatchSize = 2
    MaxReceiveCount = 1
    MaxReceives = 2
    Retention = TRUE
SYMMETRY ConsumerSymmetry
INVARIANTS
    TypeOK
    SinglePlace
    NoLoss
    ReceiveLimit
CHECK_DEADLOCK FALSE
