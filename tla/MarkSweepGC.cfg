CONSTANTS
    NCells = 3
    Frequency = 1
    MaxAllocs = 4
    MaxScopes = 2
    NoRef = NoRef
    PyNone = PyNone
SPECIFICATION Spec
CHECK_DEADLOCK FALSE
INVARIANTS TypeOK TriColour RootsNotBlack ReachableIsOccupied OnlyReachableSurvives WeakrefsOfOccupied ReferentAliveIfNotFreed PausedInScope
PROPERTIES AllocationReturns
