SPECIFICATION Spec
CONSTANTS
    MaxCalls = 2
    MaxProcs = 2
    None = None
    Settings <- MCSettings
    Factory <- MCFactory
    Profiles <- MCProfiles
    MaxReboots = 1
CONSTRAINT FewMishaps
INVARIANTS
    BridgeIsIntact
    CallKeepsProfile
    RegistrationFollowsCall
PROPERTIES
    NoActivationInCall
CHECK_DEADLOCK FALSE
