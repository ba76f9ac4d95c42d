CONSTANTS
    Clients = {c1, c2, c3}
    Observers = {c1}
    ObserversStay = TRUE
    Late = {}
    MaxId = 3
    MaxPaths = 0
    Places = {0}
    Origin = 0
    FarClip = 1
SPECIFICATION MCSpec
SYMMETRY BystanderSymmetry
INVARIANTS
    TypeOK
    OnePoll
    PollNotLost
    OwnIsSession
    DestroysAreDead
    ThreeCopies
PROPERTY LiveStaysShown
PROPERTY ImplementsWorldView
CHECK_DEADLOCK FALSE
