CONSTANTS
    Id <- MCId
    Name <- MCName
    Line = {"l1", "l2", "l3"}
    NoLine = ""
    Position = {"p"}
    NoPosition = NoPosition
    Graphs <- MCGraphs
    Requests <- MCRequests
    DefaultLimit = 3
    MaxLimit = 8
    LengthStep = 3
SPECIFICATION Spec
INVARIANTS
    GroupsRight
    RankedRight
CHECK_DEADLOCK FALSE
