\* The threads that read repositories, each on its own small instance.
CONSTANTS
    c1 = c1
    c2 = c2
    Clients = {c1, c2}
    Sites <- MCSites
    p1 = p1
    p2 = p2
    p3 = p3
    r1 = r1
    r2 = r2
    Projects = {p1, p2, p3}
    Mine = p1
    Repo <- MCRepo
    LaneCount = 2
    MaxInFlight = 1
    MaxProjects = 2
    Loads <- MCLoads
SPECIFICATION MCSpec
CHECK_DEADLOCK FALSE
INVARIANTS
    NothingUnread
PROPERTIES
    StatusSettles
    LoadsImplementLanes
