CONSTANTS
    Key = {k1, k2, k3, k4}
    Value = {v1, v2}
    NoValue = NoValue
    Capacity = 3
    MaxLookups = 5
    MaxUses = 7
SPECIFICATION UsedSpec
SYMMETRY Symmetry
INVARIANTS
    TypeOK
    Coherent
    Bounded
PROPERTIES
    EvictsLeastRecent
    ImplementsContract
CHECK_DEADLOCK FALSE
