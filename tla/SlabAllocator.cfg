CONSTANTS
    WORD = 20
    CHUNK_SIZE = 4
    SIZE_CLASSES <- MCSizeClasses
    Layouts <- MCLayouts
    Heaps <- MCHeaps
    Junk <- MCJunk
SPECIFICATION Spec
INVARIANTS NoOverlap WellPlaced NoLostBlock IInv
PROPERTY ImplementsGlobalAlloc
