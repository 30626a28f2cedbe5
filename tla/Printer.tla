------------------------------- MODULE Printer -------------------------------
(***************************************************************************)
(* PrintDocument (src/main.c) on a document the loader made: the formats   *)
(* of each column are completed from its top cell, then every row is       *)
(* printed.  In between the document is evaluated, which is modelled by    *)
(* what it leaves in the cells; a document named twice on the command line *)
(* is evaluated and printed twice.                                         *)
(*                                                                         *)
(* A printed cell is the fields printf is given: the alignment and width   *)
(* of the text, the precision of a number, the blanks after it.            *)
(***************************************************************************)
EXTENDS Loader

CONSTANT Digits(_)      \* the digits before the decimal point of a number

VARIABLES
    printed,    \* the rows printed so far
    before      \* the rows of the first time, once there is a second

vars == <<lines, pos, state, rowIdx, fmtRowIdx, table, meta, pc, printed, before>>
outVars == <<printed, before>>
docVars == <<lines, pos, state, rowIdx, fmtRowIdx, meta>>

Init == LoaderInit /\ printed = << >> /\ before = << >>

-----------------------------------------------------------------------------
(* Unevaluated slip: an error is an expression to try again. *)
UnevaluatedAgain(cell) == cell.type \in {"EXPR", "ERROR"}
Unevaluated(cell) == cell.type = "EXPR"

(* EvaluateDocument leaves no expression in the cells it uses.             *)
Evaluate ==
    /\ pc = "LOADED" /\ pc' = "EVALUATED"
    /\ LET exprs == {p \in Used(table) : Unevaluated(GetCell(table, p[1], p[2]))} IN
       \E type \in [exprs -> {"NUMBER", "STRING", "ERROR"}] :
        table' = [table EXCEPT !.cells = [i \in DOMAIN @ |->
            LET p == <<i \div table.trows, i % table.trows>> IN
            IF p \in exprs THEN [@[i] EXCEPT !.type = type[p]] ELSE @[i]]]
    /\ UNCHANGED <<docVars, outVars>>

Completed(cell, fmt) == [cell EXCEPT !.fmt = MergeHeader(cell.fmt, fmt)]

(* The first double loop.                                                  *)
CompleteFormats ==
    /\ pc = "EVALUATED" /\ pc' = "PRINT"
    /\ table' = [table EXCEPT !.cells = [i \in DOMAIN @ |->
            LET col == i \div table.trows
                fmt == MergeHeader(GetCell(table, col, 0).fmt, DefaultHeader)
            IN  IF <<col, i % table.trows>> \in Used(table)
                THEN Completed(@[i], fmt) ELSE @[i]]]
    /\ UNCHANGED <<docVars, outVars>>

(* A number of less precision than the top of its column is printed so     *)
(* that its decimal point is below the others: NumberWidth is what is left *)
(* of the width when the missing decimals, and the point if there is none, *)
(* are taken off.                                                          *)
Shortened(col, row) == GetCell(table, col, row).fmt.prcsn < GetCell(table, col, 0).fmt.prcsn

(* NumberWidth slip: no place is kept for the missing point. *)
NumberWidthNoPoint(col, row) ==
    LET width == table.columns[col].width IN
    IF Shortened(col, row)
    THEN width - GetCell(table, col, 0).fmt.prcsn + GetCell(table, col, row).fmt.prcsn
    ELSE width
NumberWidth(col, row) ==
    LET width == table.columns[col].width
        top   == GetCell(table, col, 0).fmt.prcsn
        prcsn == GetCell(table, col, row).fmt.prcsn
    IN  IF ~Shortened(col, row) THEN width
        ELSE IF prcsn > 0 THEN width - top + prcsn ELSE width - top - 1

(* TooNarrow slip: the width is asserted of every number. *)
TooNarrowAlways(col, row) ==
    /\ GetCell(table, col, row).type = "NUMBER"
    /\ table.columns[col].width <= GetCell(table, col, 0).fmt.prcsn
TooNarrow(col, row) ==
    /\ GetCell(table, col, row).type = "NUMBER" /\ Shortened(col, row)
    /\ table.columns[col].width <= GetCell(table, col, 0).fmt.prcsn

Underlined(col, row) ==
    \/ row + 1 \in {meta.firstBodyRow, meta.firstFootRow}
    \/ meta.summarized /\ meta.summary = <<col, row>>

Field(col, row) ==
    LET cell == GetCell(table, col, row)
        num  == cell.type = "NUMBER"
        full == table.columns[col].width
        left == IF num THEN NumberWidth(col, row) ELSE full
    IN  [type  |-> cell.type, text |-> cell.text,
         sep   |-> table.columns[col].sep, underline |-> Underlined(col, row),
         align |-> IF num THEN "RIGHT" ELSE cell.fmt.align,
         width |-> left, pad |-> full - left,
         prcsn |-> IF num THEN cell.fmt.prcsn ELSE 0]

PrintRow ==
    /\ pc = "PRINT" /\ Len(printed) < table.rows
    /\ LET row == Len(printed) IN
       IF \E col \in 0..(table.cols - 1) : TooNarrow(col, row)
       THEN pc' = "ABORTED" /\ UNCHANGED printed
       ELSE /\ printed' = Append(printed, [col \in 0..(table.cols - 1) |-> Field(col, row)])
            /\ UNCHANGED pc
    /\ UNCHANGED <<docVars, table, before>>

EndPrint ==
    /\ pc = "PRINT" /\ Len(printed) = table.rows /\ pc' = "PRINTED"
    /\ UNCHANGED <<docVars, table, outVars>>

(* The file is named again: MakeDocument finds the document. *)
Again ==
    /\ pc = "PRINTED" /\ before = << >> /\ printed # << >>
    /\ pc' = "LOADED" /\ before' = printed /\ printed' = << >>
    /\ UNCHANGED <<docVars, table>>

Exit ==
    /\ pc \in {"PRINTED", "ABORTED"}
    /\ UNCHANGED vars

Next ==
    \/ LoaderNext /\ UNCHANGED outVars
    \/ Evaluate \/ CompleteFormats \/ PrintRow \/ EndPrint \/ Again \/ Exit

Spec == Init /\ [][Next]_vars
=============================================================================
