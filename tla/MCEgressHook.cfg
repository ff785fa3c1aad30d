SPECIFICATION FairSpec
CONSTANTS
    c1 = c1
    c2 = c2
    k1 = k1
    k2 = k2
    k3 = k3
    eth0 = eth0
    eth1 = eth1
    Global = Global
    None = None
    Calls <- MCCalls
    Links <- MCLinks
    CallOf <- MCCallOf
    Ifs <- MCIfs
    OutIf <- MCOutIf
    Rules = 2
    Faults <- MCFaults
    MaxCopies = 2
INVARIANTS
    BaselineKept
    ActiveIsServed
    ProgressKept
    CleanAtRest
PROPERTIES
    FilteredBeforeForwarding
    TeardownCompletes
