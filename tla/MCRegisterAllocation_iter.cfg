CONSTANTS
    NRegs = 4
    Programs <- MCPrograms
    Shapes = {"for", "forwhile"}
    FreeKinds = {"plain", "call"}
    MaxArgs = 2
SPECIFICATION Spec
INVARIANT IteratorNotClobbered
CHECK_DEADLOCK FALSE
