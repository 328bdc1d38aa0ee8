CONSTANTS
    Id <- MCId
    Name = {"n"}
    Line = {"l1", "l2"}
    NoLine = ""
    Position = {}
    NoPosition = NoPosition
    Calls <- MCCalls
    MaxHops <- MCMaxHops
SPECIFICATION FairRideSpec
INVARIANTS
    HasParent
    SettledFirst
    SegmentsMatchPath
    NoFasterRide
    AnswerIsRide
    SearchInv
PROPERTIES
    ImplementsPathfinder
CHECK_DEADLOCK FALSE
