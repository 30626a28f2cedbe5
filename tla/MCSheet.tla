------------------------------- MODULE MCSheet -------------------------------
(***************************************************************************)
(* Instances of SheetMeaning for TLC: files of a few lines, from a set     *)
(* with a line or two of every kind.  The table starts at one cell and     *)
(* grows with each new row and column.                                     *)
(***************************************************************************)
EXTENDS SheetMeaning, FiniteSetsExt

P == INSTANCE Pow2

MCNextPow2(n) == P!NextPow2_u(8, n)
MCDefaultColumn == [width |-> 4, sep |-> "  "]
MCBlankCell == [fmt |-> [align |-> "LEFT", prcsn |-> 0, set |-> {}],
                type |-> "NULL", text |-> ""]
MCDigits(text) == IF text = "n" THEN 1 ELSE 3

-----------------------------------------------------------------------------
Row(cells)  == [type |-> "ROW", words |-> cells]
Number      == [type |-> "PRETYPED", text |-> "n", number |-> TRUE]
Text        == [type |-> "PRETYPED", text |-> "t", number |-> FALSE]
Quoted      == [type |-> "STRING", text |-> "q", number |-> FALSE]
Formula     == [type |-> "EXPR", text |-> "e", number |-> FALSE]

NoRef       == [ok |-> FALSE, col |-> 0, row |-> 0]
W(text)     == [text |-> text, align |-> "NONE", width |-> None, prcsn |-> None,
                digits |-> None, ref |-> NoRef]
FmtArg(text, align, width, prcsn) ==
    [W(text) EXCEPT !.align = align, !.width = width, !.prcsn = prcsn]
Count(text, n)      == [W(text) EXCEPT !.width = n, !.digits = n]
RefArg(text, c, r)  == [W(text) EXCEPT !.ref = [ok |-> TRUE, col |-> c, row |-> r]]
Command(words)      == [type |-> "COMMAND", words |-> words]

MCLines ==
    {[type |-> "EMPTY", words |-> << >>], [type |-> "COMMENT", words |-> << >>],
     Row(<<Number>>), Row(<<Formula, Number>>), Row(<<Quoted, Text>>),
     Command(<<W("prcsn"), Count("1", 1)>>),
     Command(<<W("prcsn"), W("-"), Count("256", 256)>>),
     Command(<<W("prcsn"), Count("3", 3), W("reset"), W("x")>>),
     Command(<<W("fmt"), FmtArg("r3.1", "RIGHT", 3, 1)>>),
     Command(<<W("fmt"), W("-"), FmtArg("l1.3", "LEFT", 1, 3)>>),
     Command(<<W("sep"), W("|"), W("-"), W("x")>>),
     Command(<<W("summary"), RefArg("@^", -2, -1)>>),
     Command(<<W("define"), W("m"), W("1")>>)}

MCBody == {"body", "null", "stop"}

-----------------------------------------------------------------------------
(* NextPow2_u is the least power of two at every argument of 8 bits, and   *)
(* at those of 16 bits next to a power of two; 1 at 0 and where the width  *)
(* has no such power (src/util.c:8).  TLC evaluates this first.            *)
ASSUME Pow2Least ==
    /\ \A n \in 0..255 : P!NextPow2_u(8, n) = P!LeastPow2(8, n)
    /\ \A n \in UNION {{2^k - 1, 2^k, 2^k + 1} : k \in 0..15} :
        P!NextPow2_u(16, n) = P!LeastPow2(16, n)

(* The table grows no further than it has to: what is allocated is the     *)
(* least power of two that holds what is used, however many steps of       *)
(* growth led to it (src/mem.c:443).                                       *)
RoomIsLeast ==
    \/ table = EmptyTable
    \/ /\ table.tcols = P!LeastPow2(8, Larger(table.cols, InitCols))
       /\ table.trows = P!LeastPow2(8, Larger(table.rows, InitRows))
=============================================================================
