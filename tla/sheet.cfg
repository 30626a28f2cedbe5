SPECIFICATION Spec
CONSTANTS
    InitCols = 1
    InitRows = 1
    MaxDim = 6
    MaxLines = 4
    MaxMacros = 1
    MinWidth = 2
    DefaultPrcsn = 2
    Bar = "|"
    IntMax = 99
    Stopped = "stop"
    DefaultColumn <- MCDefaultColumn
    BlankCell <- MCBlankCell
    NextPow2 <- MCNextPow2
    Digits <- MCDigits
    Lines <- MCLines
    Body <- MCBody
INVARIANT TypeOK
INVARIANT TextKept
INVARIANT SectionsAsMeant
INVARIANT StopsAsMeant
 
INVARIANT PointsAligned
INVARIANT SecondTheSame
INVARIANT RoomIsLeast
PROPERTY ImplementsGrid
