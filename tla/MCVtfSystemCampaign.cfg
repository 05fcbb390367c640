SPECIFICATION Spec
CONSTANTS
    Layers <- MCLayers
    LayerRole <- MCLayerRole
    Requesters <- MCRequesters
    SeqWidth = 2
    SeqMod = 4
    FaultHarden = TRUE
    TopLayer = "t1"
    Addrs = {"a0"}
    ZeroLayer = "t0"
    ZeroAddr = "a0"
    Words = {0, 1}
    Roots = {"root"}
    NoRoot = "none"
    MaxEpoch = 0
    Requests <- MCCampaign
    Events = {"none"}
    CmacCycles = 2
    MaxRequests = 2
    MaxUpsets = 1
PROPERTIES ImplementsTrustedMemory RequestAnswered
