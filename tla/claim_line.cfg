SPECIFICATION Spec
CONSTANTS
    MaxLen = 6
    Sz = 8
    CellSz = 3
    Char <- MCChar
INVARIANT LineFits
