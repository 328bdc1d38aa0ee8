CONSTANTS
    departure = departure
    arrival = arrival
    Box = {departure, arrival}
    Template <- MCTemplate
    Long = {"ch", "na"}
    Short = {""}
    Picked = Picked
    Nothing = Nothing
    Effect = Effect
    MaxEvents = 4
    MaxRecognisers = 2
SPECIFICATION PanelSpec
INVARIANTS
    NoIdleButton
    OneRecogniser
PROPERTIES
    ButtonRests
    LastQueryWins
CHECK_DEADLOCK FALSE
