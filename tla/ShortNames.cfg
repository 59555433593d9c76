CONSTANTS
    BASE = 2
    EXT = 1
    Slots = 2
    Paths <- MCPaths
SPECIFICATION Spec
INVARIANTS TypeOK OneNamePerFile ReadsWhatItWrites WrittenIsFound
