\* The same limits under fairness, with shorter workloads.
CONSTANTS
    Capacity = 1
    Budget = 1
    DrainWindow = 1
    Grace = 1
    Depth = 1
    PluginDepth = 2
    PluginBudget = 1
    Pace = 1
    Workloads <- LiveWorkloads
    ByteLimit = 1
    MessageLimit = 1
    MaxSent = 1
SPECIFICATION PTFairSpec
PROPERTIES
    PaneSettles
CHECK_DEADLOCK FALSE
