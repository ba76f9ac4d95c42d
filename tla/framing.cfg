\* Every pair of ends, three packets with bodies of one or two words.
CONSTANTS
    Sizes = {1, 2}
    MaxSent = 3
SPECIFICATION MCFairSpec
INVARIANTS
    TypeOK
    TornByCut
PROPERTIES
    ImplementsChannel
    AllHandled
CHECK_DEADLOCK FALSE
