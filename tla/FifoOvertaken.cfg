SPECIFICATION Spec
CONSTANTS
    c1 = c1
    c2 = c2
    g1 = g1
    g2 = g2
    NoGroup = NoGroup
    Groups <- OneGroup
    MaxMessages = 2
    Consumers <- TwoConsumers
    BatchSize = 2
    MaxReceiveCount = 0
    MaxReceives = 2
    MaxPurges = 0
    Delay = FALSE
    Retention = FALSE
    StaleHandles = FALSE
    DlqMayVanish = FALSE
PROPERTIES
    GroupExclusive
