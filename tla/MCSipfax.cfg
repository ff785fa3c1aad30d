SPECIFICATION FairSpec
CONSTANTS
    c1 = c1
    c2 = c2
    l1 = l1
    l2 = l2
    p1 = p1
    p2 = p2
    None = None
    Calls <- MCCalls
    Lines <- MCLines
    Procs <- MCProcs
    Ports = 2
    Addresses = 1
    MaxLimit = 2
    ReopenPty = FALSE
INVARIANTS
    SidesAgree
    AddressesAreOwn
PROPERTIES
    HangupFreesAddress
