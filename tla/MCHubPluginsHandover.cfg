\* A plugin table re-applied around a relaunch and a quiet pane.
CONSTANTS
    resume = resume
    signal = signal
    Names = {resume}
    NoName = NoName
    NoSpec = NoSpec
    OptedIn = {resume}
    Specs = {1, 2}
    Tables <- PluginTables
    MaxOpened = 2
    MaxPaneIds = 2
    Cap = 1
    TTL = 2
    Window = 1
    MaxSends = 0
    MaxRelaunches = 1
    MinIdle = 0
SPECIFICATION Spec
INVARIANTS
    EveryPaneHandedOver
