SPECIFICATION Spec
CONSTANTS
    i1 = i1
    i2 = i2
    u1 = u1
    u2 = u2
    NoInvocation = NoInvocation
    Invocations <- OneInvocation
    MaxEnvs = 2
    MaxPosts = 2
    MaxProvisioned = 1
    Updates <- TwoUpdates
    SlowStart = TRUE
SYMMETRY UpdateSymmetry
INVARIANTS
    ProvisionedStaysInService
CHECK_DEADLOCK FALSE
