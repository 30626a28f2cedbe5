SPECIFICATION Spec
CONSTANTS
    A = A
    B = B
    NaN = NaN
    NoDoc = NoDoc
    EmptyStr = ""
    Str <- MCStr
    IntMax <- MCIntMax
    Scalar <- MCScalar
    Percent <- MCPercent
    Doc <- MCDoc
    Node <- MCNode
    Shape <- MCShape
    Contents <- AboveContents
    ArgLists <- MCArgLists
    Resolve <- MCResolve
PROPERTY RelativeIsError
