\* Two plugins that compete for two panes, and one terminal that is relaunched
\* twice.
CONSTANTS
    resume = resume
    signal = signal
    Names = {resume, signal}
    NoName = NoName
    NoSpec = NoSpec
    OptedIn = {resume}
    Specs = {1, 2}
    Tables <- PluginTables
    MaxPaneIds = 3
    MaxOpened = 2
    Cap = 2
    TTL = 1
    Window = 1
    MaxSends = 1
    MaxRelaunches = 1
    MinIdle = 1
SPECIFICATION FairSpec
INVARIANTS
    PluginsRight
PROPERTIES
    HoldsEnd
