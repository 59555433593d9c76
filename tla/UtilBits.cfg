CONSTANT WORD = 32
SPECIFICATION Spec
INVARIANTS PowersOfTwo MaskIsRemainder RoundsUp
