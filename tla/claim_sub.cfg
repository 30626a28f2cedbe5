SPECIFICATION Spec
CONSTANTS
    A = A
    B = B
    NaN = NaN
    NoDoc = NoDoc
    EmptyStr = ""
    Str <- MCStr
    IntMax <- MCIntMax
    Scalar <- MCScalar
    Percent <- MCPercent
    Doc <- MCDoc
    Node <- MCNode
    Shape <- MCShape
    Contents <- ErrorContents
    ArgLists <- MCArgLists
    Resolve <- MCResolve
INVARIANT SubIsReferencedError
