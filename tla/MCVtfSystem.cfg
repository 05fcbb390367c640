SPECIFICATION Spec
CONSTANTS
    Layers <- MCLayers
    LayerRole <- MCLayerRole
    Requesters <- MCRequesters
    SeqWidth = 2
    SeqMod = 4
    FaultHarden = TRUE
    TopLayer = "t1"
    Addrs = {"a0"}
    ZeroLayer = "t0"
    ZeroAddr = "a0"
    Words = {0, 1}
    Roots = {"root"}
    NoRoot = "none"
    MaxEpoch = 1
    Requests <- MCRequests
    Events = {"none", "physical", "mismatch"}
    CmacCycles = 2
    MaxRequests = 2
    MaxUpsets = 0
INVARIANTS TypeOK NoFalseAlarm
PROPERTIES ImplementsTrustedMemory RequestAnswered LocksForCause
