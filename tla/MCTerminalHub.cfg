\* A page that connects once while panes come, go, are zoomed and reordered, or
\* twice, over the panes it kept, with one change of layout; a socket with
\* queues of one, a wire of one and batches of two; a router of two inboxes.
CONSTANTS
    Pages = {p1}
    p1 = p1
    MaxPaneIds = 2
    MaxOutput = 1
    MaxLayout = 2
    MaxConnects = 2
    MaxTurns = 3
    Depth = 4
    ChannelDepth = 1
    HubDepth = 1
    FlushFrames = 2
    WireSize = 1
    PingAfter = 1
    SilenceLimit = 2
    Traffic <- MCTraffic
    NumInboxes = 2
    RouterPanes = {1, 2}
    ByteLimit = 4
    MessageLimit = 3
    DrainMessages = 2
    DrainBytes = 2
    LargestFrame = 2
    MaxFrames = 4
SPECIFICATION MCSpec
CHECK_DEADLOCK FALSE
INVARIANTS
    PagesConverge
    SocketExact
    RouterExact
PROPERTIES
    NewPaneNotHidden
