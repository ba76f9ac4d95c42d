\* One page, any number of rows at its login, one failure; New may be pressed
\* again before its answer.
CONSTANTS
    MaxRows = 4
    MaxNew = 2
    FirstRows = {0}
    PageSize = 1
    Word = 256
    News = {n1, n2}
    MaxFailures = 1
SPECIFICATION MCFairSpec
INVARIANTS
    TypeOK
    MoreLeavesNoGap
    OneMore
    NewIsNews
    NothingHangs
PROPERTIES
    NewLoadsNews
    AllOlderShown
    PollCatchesUp
CHECK_DEADLOCK FALSE
