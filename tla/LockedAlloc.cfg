CONSTANTS
    WORD = 10
    CHUNK_SIZE = 2
    SIZE_CLASSES <- MCSizeClasses
    Layouts <- MCLayouts
    Heaps <- MCHeaps
    Junk <- MCJunk
    Threads = {t1, t2}
SPECIFICATION LockedSpec
INVARIANTS ThreadsTypeOK MutualExclusion NoOverlap NoLostBlock LockedInv
PROPERTY CallersSeeGlobalAlloc
SYMMETRY Interchangeable
