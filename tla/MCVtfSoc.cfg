SPECIFICATION SocSpec
CONSTANTS
    Layers <- MCLayers
    LayerRole <- MCLayerRole
    Requesters <- MCRequesters
    SeqWidth = 2
    SeqMod = 4
    FaultHarden = FALSE
    TopLayer = "t1"
    Addrs = {"a0"}
    ZeroLayer = "t0"
    ZeroAddr = "a0"
    Words = {0, 1}
    Roots = {"root"}
    NoRoot = "none"
    MaxEpoch = 1
    Requests = {}
    Events = {"none", "thermal"}
    CmacCycles = 1
    MaxRequests = 2
    MaxUpsets = 0
    Accesses <- MCAccesses
    NoAccess = NoAccess
INVARIANTS CpuToldTheTruth BenignTrafficIsServed
PROPERTIES AccessAnswered
