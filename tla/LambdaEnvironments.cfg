SPECIFICATION FairSpec
CONSTANTS
    i1 = i1
    i2 = i2
    u1 = u1
    u2 = u2
    NoInvocation = NoInvocation
    Invocations <- TwoInvocations
    MaxEnvs = 2
    MaxPosts = 2
    MaxProvisioned = 0
    Updates <- NoUpdate
    SlowStart = TRUE
CONSTRAINT FirstStarted
INVARIANTS
    TypeOK
    ExclusiveUse
    KeepaliveNeverInterrupts
    OwnAnswer
PROPERTIES
    InvocationEnds
    ContainersStop
CHECK_DEADLOCK FALSE
