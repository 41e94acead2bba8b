\* A channel of two and a budget of one event per window: backlog,
\* backpressure, and a child that dies before what it left behind falls
\* silent. Two messages or three bytes of input: either limit can refuse.
CONSTANTS
    Capacity = 2
    Budget = 1
    DrainWindow = 1
    Grace = 1
    Depth = 1
    PluginDepth = 2
    PluginBudget = 1
    Pace = 1
    Workloads <- SafetyWorkloads
    ByteLimit = 3
    MessageLimit = 2
    MaxSent = 3
SPECIFICATION PTSpec
INVARIANTS
    NoLostWakeup
    CountersExact
    InOrder
PROPERTIES
    NothingQueuedIsCut
CHECK_DEADLOCK FALSE
