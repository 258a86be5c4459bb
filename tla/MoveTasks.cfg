SPECIFICATION Spec
CONSTANTS
    m1 = m1
    m2 = m2
    q1 = q1
    t1 = t1
    t2 = t2
    Messages <- TwoMessages
    Tasks <- TwoTasks
    Destination <- OneDestination
    Targets <- OneTarget
    SourceQueue = dlq
    NoQueue = NoQueue
    NoMessage = NoMessage
    Origin <- OneOrigin
    Refusable = {m2}
    MaxReceiveCount = 2
    MaxReceives = 1
CONSTRAINT TasksToCome
INVARIANTS TypeOK OneMover MovedOrKept MovedOnce CancelIsPrompt
PROPERTIES TaskEnds
CHECK_DEADLOCK FALSE
