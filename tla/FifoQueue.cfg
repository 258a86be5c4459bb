SPECIFICATION Spec
CONSTANTS
    c1 = c1
    c2 = c2
    g1 = g1
    g2 = g2
    NoGroup = NoGroup
    Groups <- TwoGroups
    MaxMessages = 2
    Consumers <- TwoConsumers
    BatchSize = 2
    MaxReceiveCount = 1
    MaxReceives = 3
    MaxPurges = 1
    Delay = FALSE
    Retention = FALSE
    StaleHandles = TRUE
    DlqMayVanish = FALSE
SYMMETRY Symmetry
INVARIANTS
    TypeOK
    FirstDeliveryInOrder
    NoStrandedGroup
