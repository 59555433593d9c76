CONSTANTS
    WORD = 10
    CHUNK_SIZE = 2
    SIZE_CLASSES <- MCSizeClasses
    Layouts <- MCFewLayouts
    Heaps <- MCSmallHeaps
    Junk = {}
    Threads = {t1, t2, t3}
SPECIFICATION FairSpec
PROPERTIES HolderLeaves WaiterServed
