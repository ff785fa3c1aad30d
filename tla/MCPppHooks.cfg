SPECIFICATION HooksFairSpec
CONSTANTS
    c1 = c1
    c2 = c2
    p1 = p1
    p2 = p2
    p3 = p3
    None = None
    Calls <- OneCall
    Procs <- TwoProcs
    PoolSize = 2
    ReopenPty = TRUE
PROPERTIES
    RetiredTokenPowerless
    HungUpIsReleased
