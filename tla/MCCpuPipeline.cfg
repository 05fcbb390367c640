SPECIFICATION Spec
CONSTANTS
    INSTRS_PER_BLOCK = 4
    NUM_REGS = 3
    WordMod = 32
    MEM_SIZE = 16
    SEC_HDR_WORDS = 4
    TextStart = 4
    TextEnd = 12
    DataStart = 12
    DataEnd = 16
    kMarsTextBaseWord = 16
    kMarsDataBaseByte = 24
    JunkWord = 31
    InitialData <- MCInitialData
    Images <- MCImages
    StartBlock = 1
    MapMul = 1
    MapAdd = 1
    ICACHE_LINES = 1
    DCACHE_LINES = 2
    num_cycles = 18
INVARIANTS NeverStuck
PROPERTIES ImplementsIsa
CHECK_DEADLOCK FALSE
