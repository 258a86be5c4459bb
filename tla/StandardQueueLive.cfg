SPECIFICATION FairSpec
CONSTANTS
    c1 = c1
    c2 = c2
    Consumers <- TwoConsumers
    MaxMessages = 1
    BatchSize = 1
    MaxReceiveCount = 2
    MaxReceives = 3
    Retention = FALSE
INVARIANTS
    NoDeliveryAfterDelete
    LatestHandleWorks
PROPERTIES
    KeepsContract
    EventuallyVisibleAgain
CHECK_DEADLOCK FALSE
