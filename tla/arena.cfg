SPECIFICATION Spec
CONSTANTS
    PAGE_SIZE = 64
    Header = 16
    Alignment = 16
    MaxBlocks = 7
    Request <- MCRequest
INVARIANT TypeOK
INVARIANT BlocksFit
INVARIANT NeverStops
PROPERTY NewPageIfFull
PROPERTY ImplementsHeap
