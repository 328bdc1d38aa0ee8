CONSTANTS
    Box = {departure, arrival}
    Long = {"ch", "na"}
    Short = {""}
    Picked = Picked
    Nothing = Nothing
    Effect = Effect
    MaxEvents = 3
SPECIFICATION SuggestSpec
PROPERTIES
    SuggestionsEnd
CHECK_DEADLOCK FALSE
