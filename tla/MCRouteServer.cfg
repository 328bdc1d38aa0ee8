CONSTANTS
    Worker = {w1, w2}
    StationId = {1, 2, 3}
    Known = {1, 2}
    Algorithm = {"dijkstra", "astar"}
    Found <- MCFound
    Capacity = 1
    MaxRequests = 3
    NoRequest = NoRequest
    NoValue = NoValue
SPECIFICATION CountedSpec
INVARIANTS
    TypeOK
    CacheIsTrue
    LookupsAccounted
    ReportNotBackwards
PROPERTIES
    ImplementsService
CHECK_DEADLOCK FALSE
