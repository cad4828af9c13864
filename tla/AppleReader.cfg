SPECIFICATION ReaderSpec
CONSTANTS
    Sizes = {1, 2, 3}
    FirstSize = 1
    MaxGeneration = 5
    MaxViewports = 3
INVARIANTS
    GeometryAgrees
PROPERTIES
    RequestedAgain
\* The session ends when the server sends its tables again, and when the parts disagree.
CHECK_DEADLOCK FALSE
