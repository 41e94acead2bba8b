\* Two repositories with up to two panes.
CONSTANTS
    PVPanes = {1, 2}
    ShownNormal = 1
    ShownFull = 2
    Repos = {1, 2}
    KRScripts <- MCInputs
SPECIFICATION MCSpec
CHECK_DEADLOCK FALSE
INVARIANTS
    EscClears
