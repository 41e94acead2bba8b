\* Each part behind the screens on its own small instance.
CONSTANTS
    SCPaths = {1, 2, 3, 4}
    SCBase <- MCBase
    SCOrders <- MCOrders
    SCPrefs = {0, 2, 4}
    MaxProjects = 3
    Callers = {1, 2}
    SCScripts <- MCCalls
    ATPaths = {1, 2}
    ATStart <- MCStart
    ATClients = {1, 2}
    QueueDepth = 3
    MaxAttached = 2
    ATScripts <- MCAttaches
    Dialogs = {1, 2}
    Retained = 2
    MaxKeys = 7
    MaxPolls = 2
    LoginThreads = {1, 2}
    Lifetimes = {1, 9}
    Never = 9
    MaxSessions = 2
    MaxLogins = 3
    MaxClock = 1
    MaxStarts = 1
    Commands = {2, 3}
    Settings <- MCSettings
    PreAttachCap = 1
    AttachedCap = 1
    MaxKills = 1
    Scenes <- MCScenes
    MaxResumeAttempts = 1
    ResumeConfirm = 2
    MinWait = 1
    MaxWait = 2
    BackoffBase = 1
    BackoffMax = 2
    JumpTolerance = 2
    MaxGeneration = 3
    Helpers = {1, 2}
    MaxNotes = 2
    MaxResults = 1
    MaxTtl = 2
    Ttls = {0, 1, 2}
    MSScripts <- MCMemories
SPECIFICATION MCSpec
CHECK_DEADLOCK FALSE
INVARIANTS
    CatalogRight
    ClientsConverge
    CloneRight
    TokensRight
    DaemonRight
    RecoveryRight
    MemoryRight
