\* One client observes and moves; a second comes and goes; when it has gone and
\* the first stands still, a third comes and stays.
CONSTANTS
    Clients = {c1, c2, c3}
    Observers = {c1}
    ObserversStay = FALSE
    Late = {c3}
    MaxId = 3
    MaxPaths = 1
    Places = {0, 2}
    Origin = 0
    FarClip = 1
SPECIFICATION MCFairSpec
PROPERTIES
    GhostsLeave
    NeighboursAppear
CHECK_DEADLOCK FALSE
