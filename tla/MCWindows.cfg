\* Each part of the screen on its own small instance.
CONSTANTS
    Lanes = {0, 1, 2}
    Paths = {1, 2}
    CommitFiles <- MCFiles
    TreeRows <- MCRows
    PageSize = 2
    Threshold = 1
    Scripts <- MCScripts
    TreePaths = {1, 2, 3, 4}
    ParentOf <- MCParent
    TreeDirs = {1, 2}
    MaxDepth = 2
    MaxTreeKeys = 4
    MaxTreeEdits = 2
    MaxErrors = 1
    PVPanes = {1, 2, 3}
    ShownNormal = 1
    ShownFull = 2
    SavedViews <- MCSaved
    PVScripts <- MCPanes
    Tabs = {1, 2}
    FileSets <- MCFileSets
    FreshFor = 1
    HotWindow = 3
    MaxClock = 5
    FLScripts <- MCFrames
    Repos = {1, 2}
    KRScripts <- MCInputs
SPECIFICATION MCSpec
CHECK_DEADLOCK FALSE
INVARIANTS
    RestsRight
    TreeCurrent
    ScreenAgrees
    FrameCurrent
    KeysRight
