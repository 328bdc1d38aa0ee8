CONSTANTS
    Id <- MCId
    Name = {"n"}
    Line = {"l1", "l2"}
    NoLine = ""
    Position <- MCPosition
    NoPosition = NoPosition
    Calls <- AllOrNoneCalls
    TravelTime <- MCTravelTime
    MaxHops <- MCMaxHops
SPECIFICATION FairRideSpec
CHECK_DEADLOCK FALSE
INVARIANTS
    HasParent
    GuidedIsShortest
PROPERTIES
    ImplementsPathfinder
    DegradesToDijkstra
