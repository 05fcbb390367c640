SPECIFICATION Spec
CONSTANTS
    D = 2
    Used = {0, 1}
    Words <- MCWords
    KeySets = {"k", "l"}
    CtrMax = 2
    Rounds = 2
    CmacCycles = 2
    MaxOps = 1
    MaxEvents = 3
INVARIANTS TreeUsesItsSubkey
