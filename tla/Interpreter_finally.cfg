CONSTANTS
    FrameIds = {1, 2, 3, 4}
    Gens = {g1}
    LocalCounts = {1}
    GenLocals = {0}
    Pushes = {0}
    StackSize = 2
    MaxFrames = 3
    MaxBlocks = 2
    MaxExc = 3
SPECIFICATION Spec
INVARIANT FinallyAlwaysReached
CHECK_DEADLOCK FALSE
