SPECIFICATION Spec
CONSTANTS
    A = A
    B = B
    NaN = NaN
    NoDoc = NoDoc
    EmptyStr = ""
    Str <- MCStr
    IntMax <- MCIntMax
    Scalar <- MCScalar
    Percent <- MCPercent
    Doc <- MCDoc
    Node <- MCNode
    Shape <- MCShape
    Contents <- CoreContents
    ArgLists <- MCArgLists
    Resolve <- MCResolve
INVARIANTS CallsInv ReadsFinal OutputFinal OnlyLoaded NoAbort ErrorsPropagate CyclesAreErrors
PROPERTIES FinalStable EndsWithOutput ImplementsDataflow
