SPECIFICATION Spec
CONSTANTS
    c1 = c1
    c2 = c2
    p1 = p1
    p2 = p2
    p3 = p3
    None = None
    Calls <- MCCalls
    Procs <- MCProcs
    PoolSize = 2
    ReopenPty = TRUE
SYMMETRY Symmetry
INVARIANTS
    TypeOK
    LeasesAreKept
    EndsAreScheduled
PROPERTIES
    ExitReleasesOnlyEndedCall
    PoolSpec
