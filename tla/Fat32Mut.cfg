CONSTANTS
    MaxCluster = 6
    ClusterUnits = 2
    NumFats = 2
    RootCluster = 2
    MaxChain = 2
    SizeMod = 64
    None = None
    MaxTorn = 0
    Images <- MCImages
    Paths <- MCPaths
    Contents <- MCContents
SPECIFICATION Spec
INVARIANTS TypeOK MirrorsAgree NoCrossLinks NoLostClusters SizesFit UniqueNames ReadsBack Sound
PROPERTIES DirsStay OthersUntouched
