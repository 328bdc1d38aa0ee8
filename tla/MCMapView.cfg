CONSTANTS
    Station = {s1, s2}
    Algorithm = {"dijkstra", "astar"}
    DefaultAlgorithm = "astar"
    None = None
    MaxRecent = 2
    MaxSearches = 3
SPECIFICATION MapSpec
INVARIANTS
    TypeOK
    LoadingIffAwaited
    LastRequestWins
    OneOutcome
    RecentsInStep
    DrawnIsCurrent
    OneAnimation
PROPERTIES
    SearchEnds
