\* The switch back to the normal screen is split over two reads.
CONSTANTS
    MaxChunks = 4
    Cap = 1
    OwedLimit = 1
    LeavesOpen = TRUE
SPECIFICATION PRSpec
CHECK_DEADLOCK FALSE
INVARIANTS
    SinceOnlySuperseded
