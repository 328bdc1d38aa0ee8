CONSTANTS
    Id = {0, 1, 2, 3}
    Name <- MCName
    Line = {"M1", "M2"}
    NoLine = NoLine
    Position = {"p1", "p2"}
    NoPosition = NoPosition
    Hosts <- MCHosts
    Unreadable = Unreadable
    Blank = Blank
    Malformed = Malformed
    MaxLevels = 3
    NoPath = NoPath
SPECIFICATION Spec
INVARIANTS
    ServesTables
    NoParallelEdges
PROPERTIES
    StartsIffReadable
CHECK_DEADLOCK FALSE
