SPECIFICATION FairSpec
CONSTANTS
    c1 = c1
    c2 = c2
    g1 = g1
    g2 = g2
    NoGroup = NoGroup
    Groups <- OneGroup
    MaxMessages = 2
    Consumers <- OneConsumer
    BatchSize = 2
    MaxReceiveCount = 1
    MaxReceives = 2
    MaxPurges = 0
    Delay = TRUE
    Retention = TRUE
    StaleHandles = FALSE
    DlqMayVanish = TRUE
PROPERTIES
    EventuallyOffered
