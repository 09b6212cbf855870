SPECIFICATION Spec
CONSTANTS
    HeaderBytes = 2
    Conns = {1, 2, 3}
    Attempts = {1, 2}
    Casts <- MCCasts
    CrashCasts <- MCCrashCasts
    ReplySize <- MCReplySize
    MaxConnections = 2
    MaxRequests = 2
    MinBound = 1
    DefaultBound = 2
    OptionBound = 2
    Window = 1
    MaxEpoch = 2
    MaxCrashes = 1
CHECK_DEADLOCK FALSE
INVARIANTS TypeOK ConnectionsAreBounded StreamsAreFaithful ResultsAreTrue EpochAcksAreOrdered FinishedIsFinal
PROPERTIES ServerStops
