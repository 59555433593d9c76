CONSTANTS
    MaxCluster = 8
    ClusterUnits = 2
    NumFats = 2
    RootCluster = 2
    MaxChain = 2
    SizeMod = 64
    None = None
    MaxTorn = 0
    Images <- MCImages
    Paths <- MCFewPaths
    Contents <- MCLongContents
SPECIFICATION Spec
INVARIANT ReadsWholeSize
