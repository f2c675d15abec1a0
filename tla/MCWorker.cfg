SPECIFICATION WSpec
CONSTANTS
    a = a
    b = b
    c = c
    mqtt = mqtt
    http = http
    first = first
    second = second
    on = on
    off = off
    None = None
    MaxTime = 2
    Wrap = 100
    Ids = {a, b, c}
    Hash <- MCHash
    Capacity = 2
    Bytes = {1, 2}
    Payloads <- MCPayloads
    Traffic <- MCTraffic
    Masks <- MCMasks
    MinGap = 1
    Heartbeat = 2
    RingSize = 2
    MarkRing = 2
    Markers = {mqtt, http}
    MaxFrames = 3
    MaxMarks = 3
    FrameIds = {a, b}
    NibbleBits = 1
    WordBits = 4
    MaxData = 2
    Documents <- MCDocuments
    Carried <- MCCarried
    MaxLoads = 2
SYMMETRY MCSymmetry
INVARIANTS
    RecordsSound
    EveryFrameCounted
    BrokerSeesChanges
    BrokerSeesHeartbeat
    DumpIsComplete
    NothingLost
PROPERTIES
    DitherIsSilent
