\* More than a page of rows between two statements of the first request.
CONSTANTS
    MaxRows = 22
    MaxNew = 22
    FirstRows = {11}
    PageSize = 10
    Word = 256
    News = {}
    MaxFailures = 0
SPECIFICATION Spec
INVARIANT HiddenAtEnd
CHECK_DEADLOCK FALSE
