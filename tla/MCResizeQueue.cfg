\* Two viewers: A -> B -> A with a resize in flight over two connections, and a
\* third connection, whose verdicts may be lost, while none is.
CONSTANTS
    Viewers = {tab, tui}
    NoViewer = NoViewer
    tab = tab
    tui = tui
    Panes = {1}
    Sizes = {"small", "large"}
    FirstSize = "small"
    Grace = 1
    MaxConnections = 3
    MaxGeneration = 3
    Contenders = 2
    MayFill = {2}
SPECIFICATION RQFairSpec
CHECK_DEADLOCK FALSE
INVARIANTS
    PresenceConsistent
    OwnerAccounted
    VerdictCurrent
    NoResizeAfterPurge
PROPERTIES
    ArrivalIsPassive
    SizingReachesSomeone
    ResizeUnderOneTenure
