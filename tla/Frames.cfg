SPECIFICATION FramesSpec
CONSTANTS
    BUFF_SIZE = 3
    Pages <- MCPages
    MAX_FRAMES = 7
INVARIANTS Exclusion PagesAccounted FramesInOrder CountersAreTrue FaultNeedsLoss
PROPERTIES FramesAreShown MainGetsIn
CHECK_DEADLOCK FALSE
