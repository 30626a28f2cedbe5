SPECIFICATION Spec
CONSTANTS
    MaxLen = 5
    ExprFuncMap <- MCFuncs
    CellRef = {"A0"}
    Number = {"1"}
    Str = {"x"}
    Xeno = {"{f:"}
    Words <- MCWords
    Longer <- MCLonger
INVARIANT AcceptsAsMeant
INVARIANT TreeAsMeant
INVARIANT StopsAsMeant
