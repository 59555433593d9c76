CONSTANTS
    Geometries <- MCGeometries
    Values <- MCValues
    Bytes = {1}
    BOOT = 4
    SLOT = 2
    U32 = 256
SPECIFICATION Spec
INVARIANTS TypeOK EverythingInPlace EntriesReadBack
PROPERTY ImplementsVolume
CHECK_DEADLOCK FALSE
