SPECIFICATION Spec
CONSTANTS
    SubGhz = {2, 3, 4, 5}
    HighFrequency = {8, 9}
    Digits = 2
    Radix = 3
    Fraction = 2
    U32Max = 11
    BANDWIDTHS = {2, 3}
    BANDWIDTHS_2G4 = {5}
    BandwidthSteps = {1, 2, 3, 5}
    SfMin = 1
    SfMax = 2
    SfSteps = {1, 2}
    CrMin = 5
    CrMax = 5
    LpMin = 1
    LpMax = 2
    HpMin = 1
    HpMax = 4
    HfMin = 1
    HfMax = 2
    VbatAbove = 2
    ModuleMax = 3
    ModuleMax2G4 = 1
    Second = 3
    SymbolMax = 5
    DEFAULT <- MCDEFAULT
    LANDING_2G4 <- MCLANDING
    HostFrames <- MCFrames
    StoredConfigs <- MCStored
    None = None
    MaxChanges = 2
    MaxFaults = 1
PROPERTY
    OneParameterIsStored
CHECK_DEADLOCK FALSE
