SPECIFICATION Spec
CONSTANTS
    Layers <- MCLayers
    LayerRole <- MCLayerRole
    Requesters = {"CPU_FETCH", "SECURITY"}
    SeqWidth = 2
    SeqMod = 4
    MaxTempMc = 90000
    FaultHarden = TRUE
    Epochs = {0, 1}
    Temperatures <- MCTemperatures
    MaxServed = 5
    MaxUpsets = 1
INVARIANTS TypeOK LockdownSticky ConsumedInOrder
PROPERTIES LockdownFreezes
