SPECIFICATION FairSpec
CONSTANTS
    c1 = c1
    c2 = c2
    l1 = l1
    l2 = l2
    None = None
    Calls <- MCCalls
    Lines <- MCLines
    PoolSize = 2
    MaxLimit = 2
INVARIANTS
    TypeOK
    PortsAreRight
    NoOrphanLine
    AnswersAgree
PROPERTIES
    AcceptedWhenReady
    PoolSpec
    AnsweredUnlessEnded
    PortReturns
