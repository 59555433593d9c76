CONSTANTS
    MaxCluster = 6
    ClusterUnits = 2
    NumFats = 2
    RootCluster = 2
    MaxChain = 5
    SizeMod = 64
    None = None
    MaxTorn = 0
    Images <- MCOldEntry
    Paths <- MCFewPaths
    Contents <- MCContents
SPECIFICATION Spec
PROPERTY NothingReappears
