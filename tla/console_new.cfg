\* A row is inserted between two statements of a request of New.
CONSTANTS
    MaxRows = 4
    MaxNew = 4
    FirstRows = {1}
    PageSize = 10
    Word = 256
    News = {n1}
    MaxFailures = 0
SPECIFICATION MCSpec
PROPERTY NewLoadsToUpper
CHECK_DEADLOCK FALSE
