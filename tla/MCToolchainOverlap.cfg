SPECIFICATION Spec
CHECK_DEADLOCK FALSE
CONSTANTS
    INSTRS_PER_BLOCK = 2
    SEC_HDR_WORDS = 2
    MEM_SIZE = 24
    kTextBaseByte = 1024
    kDataBaseByte = 2048
    AddrMod = 4096
    HalfMod = 64
    BranchMax = 3
    MapSeed <- MCMapSeed
    MapDraw <- MCMapDraw
    WORD_BITS = 1
    HideAttempts = 3
    HideDraw <- MCHideDraw
    AppKeys = {"k1", "k2"}
    EpochOptions = {0, 2}
    WordCounts = {0, 1, 8, 20, 24}
    EffAddrs = {2048, 2060, 1, 12, 2050}
    Lines <- MCLines
    Scenarios <- MCOverlap
INVARIANT
    ReloadableAfterRun
