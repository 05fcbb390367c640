SPECIFICATION Spec
CONSTANTS
    MAX_LAYERS = 4
    MAX_WORDS = 4
    INSTRS_PER_BLOCK = 2
    Values = {"a"}
    Roots = {"r1", "r2"}
    HidePositions = {0}
    Targets <- MCTargets
    RoleChanges <- MCRoleChanges
    Temperatures <- MCTemperatures
    SENTINEL_COUNT = 1
    MaxEpoch = 2
    Scenarios <- MCScenarios
CHECK_DEADLOCK FALSE
INVARIANTS
    EncryptionIsTransparent
    HiddenKeySurvives
    InOrderExactlyOnce
    AcknowledgedMeansExecuted
    KeysFollowRootAndEpoch
    KeyTierStaysWiped
    NoFalseAlarm
