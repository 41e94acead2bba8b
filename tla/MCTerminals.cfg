\* Two clients, a queue of one and a cap the startup terminals just fit; a
\* program that closes its sequences and updates before it leaves the alternate
\* screen; a socket with queues of one.
CONSTANTS
    Clients = {tui, phone}
    tui = tui
    phone = phone
    MaxPtys = 2
    Configured = 2
    QueueDepth = 1
    MaxCreates = 2
    MaxStarts = 2
    MaxChunks = 4
    Cap = 1
    OwedLimit = 1
    LeavesOpen = FALSE
    ChannelDepth = 1
    HubDepth = 1
    FlushFrames = 2
    WireSize = 1
    PingAfter = 1
    SilenceLimit = 2
    Traffic <- MCTraffic
SPECIFICATION MCSpec
CHECK_DEADLOCK FALSE
INVARIANTS
    CapHolds
    ReservedAccounted
    BatchUnique
    RecordRight
PROPERTIES
    StartupHappens
    TailSettles
    SocketEnds
