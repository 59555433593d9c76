CONSTANTS
    MaxCluster = 6
    ClusterUnits = 2
    NumFats = 1
    RootCluster = 2
    MaxChain = 5
    SizeMod = 64
    None = None
    MaxPuts = 4
    Programs = {"shell", "cli"}
    Images <- MCImages
    Paths <- MCPaths
    Words <- MCWords
    Contents <- MCContents
SPECIFICATION Spec
INVARIANTS TypeOK CurrentDirStays TreeKept CutIsHeld
PROPERTIES SavedReadsBack ImplementsStore
