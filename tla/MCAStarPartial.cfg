CONSTANTS
    Id <- MCId
    Name = {"n"}
    Line = {"l1", "l2"}
    NoLine = ""
    Position <- MCPosition
    NoPosition = NoPosition
    Calls <- PartialCalls
    TravelTime <- MCTravelTime
    MaxHops = 0
SPECIFICATION FairRideSpec
CHECK_DEADLOCK FALSE
INVARIANT OptimalWhenAdmissible
