CONSTANTS
    Id <- MCId
    Files <- MCFiles
    None = None
    MaxSearches = 2
SPECIFICATION Spec
INVARIANTS
    ShortestTravel
    DirectionsComplete
CHECK_DEADLOCK FALSE
