\* Two copies of an avatar, and a walker who takes a step, two or none.
CONSTANTS
    Nodes = 3
    MaxSteps = 2
    MaxPaths = 1
    Copies = 2
SPECIFICATION FairSpec
INVARIANTS
    TypeOK
    InOrder
    ThreePaths
PROPERTIES
    BackToTheStart
    ComesToRest
