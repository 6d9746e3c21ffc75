CONSTANTS
    FrameIds = {1, 2, 3, 4}
    Gens = {g1}
    LocalCounts = {0, 1}
    GenLocals = {0}
    Pushes = {0, 1}
    StackSize = 4
    MaxFrames = 3
    MaxBlocks = 1
    MaxExc = 2
SPECIFICATION Spec
INVARIANTS CalleesAbove MakerMayResume
CHECK_DEADLOCK FALSE
