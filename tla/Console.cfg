SPECIFICATION ConsoleSpec
CONSTANTS
    NUM_COLUMNS = 3
    NUM_ROWS = 2
    INIT_ROW = 1
    PAGE_SIZE = 16
    ADDRESSES = 128
    USER_FIRST_PAGE = 1
    NUM_PAG_CODE = 1
    NUM_PAG_DATA = 1
    TOTAL_PAGES = 5
    WORD = 2
    TAM_BUFFER = 4
    Memory <- MCMemory
    FaultMessage <- MCFaultMessage
    Buffers <- MCBuffers
    Sizes <- MCSizes
PROPERTIES WritesWholeBuffer DumpShowsMatrix FaultsAreExact
CHECK_DEADLOCK FALSE
