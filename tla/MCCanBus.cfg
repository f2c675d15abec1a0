SPECIFICATION BSpec
CONSTANTS
    Depth = 2
    MaxFrames = 5
    MaxTime = 6
    Wrap = 100
    Rates <- MCRates
    Allowed <- MCAllowed
    Workable <- MCWorkable
    Default = 500
    MaxNodes = 4
    MaxBoots = 2
    TxDepth = 2
    MaxRequests = 5
    Second = 2
    HalfDay = 3
    Base = 3
    Latency = 1
    Starts <- MCStarts
    Locals <- MCLocals
    MaxUploads = 2
INVARIANTS
    BusSound
    CountersAddUp
    NothingLeftBehind
    OneRefusalIsSurvived
    SentAsAsked
    TodFollowsTheBike
    OffsetIdentifiesTheClock
PROPERTIES
    IsChannel
CHECK_DEADLOCK FALSE
