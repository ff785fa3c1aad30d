SPECIFICATION MeasurementsSpec
CONSTANTS
    None = None
    SeqRange = 8
    StampRange = 32
    Samples = 2
    First = 5
    Late = 2
    Burst = 2
    MaxSent = 4
    MaxSeen = 3
    MaxErasure = 4
    QueueMax = 1
    Registrations <- MCRegistrations
    Ports <- MCPorts
    Nothing = Nothing
    Wellformed <- MCWellformed
    Damage <- MCDamage
    MaxDamage = 2
    RecordSizes <- MCSizes
    Malformed = Malformed
    Headers <- MCHeaders
    MaxPackets = 2
    MaxSize = 120
    Contents <- MCContents
    Repeats <- MCRepeats
    Hits <- MCHits
    Symbols <- MCSymbols
    Joins <- MCJoins
    Lanes = 2
    Span = 6
    Strengths = {1, 2, 3}
    MaxCandidates = 4
    Apart = 2
    Missing = Missing
    Requests = {1, 2}
    Attempts = {"a", "b"}
    MaxUpload = 2
    MaxErrors = 1
    Unset = Unset
    SeqNumbers = 8
    Timestamps = 32
    FrameSizes = {1, 2}
    MaxFrames = 3
    Delay = 2
    Limit = 1
    Early = 1
    MaxTime = 7
INVARIANTS
    LossIsReported
    CleanAuditIsTrue
    ModemHearsTheStream
    RedundancyIsTrue
    CapturesAreRead
    NothingConfused
    SignalsAreRead
    TrainingIsRead
    VerifiesExactly
    AudioArrives
CHECK_DEADLOCK FALSE
