\* One observer among three clients, one of which leaves.
CONSTANTS
    Clients = {c1, c2, c3}
    Observers = {c1}
    ObserversStay = TRUE
    Late = {}
    MaxId = 3
    MaxPaths = 0
    Places = {0}
    Origin = 0
    FarClip = 1
SPECIFICATION MCSpec
PROPERTY UnregisteredAreCreated
CHECK_DEADLOCK FALSE
