CONSTANTS
    NRegs = 4
    Programs <- MCPrograms
    Shapes = {"line", "cond", "for", "forwhile"}
    FreeKinds = {"plain", "call", "yield"}
    MaxArgs = 2
SPECIFICATION Spec
INVARIANTS TypeOK NeverWokenTwice RegistersNotShared OperandsIntact
CHECK_DEADLOCK FALSE
