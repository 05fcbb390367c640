SPECIFICATION Spec
CONSTANTS
    D = 2
    Used = {0, 1, 2}
    Words <- MCWords
    KeySets = {"k", "l"}
    CtrMax = 2
    Rounds = 2
    CmacCycles = 2
    MaxOps = 3
    MaxEvents = 2
INVARIANTS ReadsAreFresh KeystreamOnce NoFalseTamper
PROPERTIES RequestAnswered
