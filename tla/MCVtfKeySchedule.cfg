SPECIFICATION Spec
CONSTANTS
    NumRequesters = 2
    Rounds = 2
    Roots = {"rootA", "rootB"}
    NoRoot = "none"
    MaxEpoch = 2
    MaxZeroizes = 2
INVARIANTS TypeOK KeysMatchRootAndEpoch ZeroizeLeavesNothing
PROPERTIES KeysBecomeReady ImplementsKeyStore
