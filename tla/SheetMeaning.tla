---------------------------- MODULE SheetMeaning ----------------------------
(***************************************************************************)
(* What the lines of a file mean, told from the lines alone, and the       *)
(* properties that compare it with the document that is loaded from them   *)
(* and with what is printed of it.                                         *)
(***************************************************************************)
EXTENDS Printer, FiniteSets

Loading == pc \in {"READ", "ROW", "COMMAND"}
Loaded  == pc \in {"LOADED", "EVALUATED", "PRINT", "PRINTED"}

-----------------------------------------------------------------------------
(* The meaning of the lines.                                               *)

LineNos == 1..Len(lines)
First(S) == CHOOSE i \in S : \A j \in S : i <= j
Last(S)  == CHOOSE i \in S : \A j \in S : i >= j

(* How many rows the lines before line i hold: the number of the next one. *)
RowsBefore(i) == Cardinality({j \in 1..(i - 1) : lines[j].type = "ROW"})
LineOfRow(r)  == {i \in LineNos : lines[i].type = "ROW" /\ RowsBefore(i) = r}

(* The words that are read already: all but the rest of the last line. *)
ReadWords(i) == IF i = Len(lines) THEN pos ELSE Len(lines[i].words)

(* The argument k of a command is its word k + 1; argument c + 1 is about  *)
(* the column c.                                                           *)
IsCommand(i, name) ==
    /\ lines[i].type = "COMMAND" /\ lines[i].words # << >>
    /\ lines[i].words[1].text = name
HasArg(i, k) == k + 1 <= Len(lines[i].words)
Arg(i, k)    == lines[i].words[k + 1]
ArgsBefore(i, k) == {Arg(i, j).text : j \in 1..k}

(* The prcsn lines that name the cell in column c of row r, before a word  *)
(* reset; the word `-` names it too.                                       *)
Direct(c, r) ==
    {i \in LineNos :
        /\ IsCommand(i, "prcsn") /\ RowsBefore(i) = r
        /\ HasArg(i, c + 1) /\ "reset" \notin ArgsBefore(i, c + 1)}

(* The row whose precisions row r takes where it has none: that of the     *)
(* last prcsn line before it, unless a blank line or a reset came since.   *)
Scope(r) ==
    LET prcsns == {i \in LineNos : IsCommand(i, "prcsn")}
        blanks == {i \in LineNos : lines[i].type = "EMPTY"}
        turns  == {i \in prcsns \cup blanks : \E l \in LineOfRow(r) : i < l}
    IN  IF turns = {} \/ Last(turns) \in blanks
           \/ "reset" \in ArgsBefore(Last(turns), Len(lines[Last(turns)].words) - 1)
        THEN {} ELSE {RowsBefore(Last(turns))}

(* The fmt lines that format column c: the first one counts for alignment  *)
(* and precision, the last one with a width for the width.                 *)
Formats(c) ==
    {i \in LineNos : IsCommand(i, "fmt") /\ HasArg(i, c + 1) /\ Arg(i, c + 1).text # "-"}

MeantPrcsn(c, r) ==
    LET sources == <<Direct(c, r), UNION {Direct(c, k) : k \in Scope(r)}, Direct(c, 0)>>
        by      == {k \in 1..3 : sources[k] # {}}
    IN  IF by # {} THEN PrcsnOf(Arg(Last(sources[First(by)]), c + 1))
        ELSE IF Formats(c) # {} THEN FmtOf(Arg(First(Formats(c)), c + 1)).prcsn
        ELSE DefaultPrcsn

MeantAlign(c) ==
    IF Formats(c) = {} THEN DefaultHeader.align
    ELSE FmtOf(Arg(First(Formats(c)), c + 1)).align

MeantColumn(c) ==
    LET widths == {i \in Formats(c) : Arg(i, c + 1).width # None}
        bars   == {i \in LineNos : IsCommand(i, "sep") /\ c > 0 /\ HasArg(i, c)
                                   /\ Arg(i, c).text = "|"}
    IN  [width |-> IF widths = {} THEN DefaultColumn.width
                   ELSE Larger(Arg(Last(widths), c + 1).width, MinWidth),
         sep   |-> IF bars = {} THEN DefaultColumn.sep ELSE Bar]

(* The blank lines after the first row end the head, and then the body:    *)
(* the first of them ends the head, the last of the others the body.       *)
Ends == {i \in LineNos : lines[i].type = "EMPTY" /\ RowsBefore(i) > 0}
MeantBody == IF Ends = {} THEN 0 ELSE RowsBefore(First(Ends))
MeantFoot == IF Cardinality(Ends) < 2 THEN IntMax ELSE RowsBefore(Last(Ends))

-----------------------------------------------------------------------------
(* Invariants.                                                             *)

(* The document is one the evaluator may work on: its used area is in the  *)
(* table, the arrays have the size of the table, the macros fit, and the   *)
(* bounds are rows.  main.c:2551 asserts the first; Sheets assumes it all. *)
TypeOK ==
    /\ table.cols \in 0..table.tcols /\ table.rows \in 0..table.trows
    /\ DOMAIN table.columns = 0..(table.tcols - 1)
    /\ DOMAIN table.cells = 0..(table.tcols * table.trows - 1)
    /\ \A i \in DOMAIN table.cells : table.cells[i].fmt \in Fmt
    /\ rowIdx \in 0..MaxLines /\ fmtRowIdx \in -1..rowIdx
    /\ Len(meta.macros) <= MaxMacros
    /\ meta.summary \in Nat \X Nat
    /\ pc \in {"READ", "ROW", "COMMAND", "LOADED", "EVALUATED", "PRINT", "PRINTED", "ABORTED"}

(* However the table has grown, by rows, by columns, or by a command ahead *)
(* of the row it names, every cell that was read is in its place in the    *)
(* used area, and every other place is blank (ReserveDocumentSpace,        *)
(* LINE_ROW).                                                              *)
TextKept ==
    Loading =>
        /\ \A i \in {j \in LineNos : lines[j].type = "ROW"} :
            (0..(ReadWords(i) - 1)) \X {RowsBefore(i)} \subseteq Used(table)
        /\ \A p \in (0..(table.tcols - 1)) \X (0..(table.trows - 1)) :
            LET cell  == GetCell(table, p[1], p[2])
                words == {lines[i].words[p[1] + 1] :
                            i \in {j \in LineOfRow(p[2]) : p[1] < ReadWords(j)}}
            IN  IF words = {} THEN cell.type = "NULL" /\ cell.text = BlankCell.text
                ELSE \A w \in words : cell.type = CellType(w) /\ cell.text = w.text

(* Head, body and foot are in this order and begin where the blank lines   *)
(* say; a blank line before the first row says nothing.                    *)
SectionsAsMeant ==
    Loaded =>
        /\ meta.firstBodyRow = MeantBody /\ meta.firstFootRow = MeantFoot
        /\ meta.firstBodyRow <= meta.firstFootRow /\ meta.firstBodyRow <= rowIdx

(* The program stops for a reason the file gives: a separator other than   *)
(* `-` and `|`, a summary cell above the first row or in the foot, a macro *)
(* the parser stops at, a column that is narrower than its precision.  The *)
(* assertions of the table and of the format row never fail.               *)
StopsAsMeant ==
    pc = "ABORTED" =>
        \/ printed = << >> /\ state = "SEP" /\ Word.text \notin {"-", "|"}
        \/ printed = << >> /\ state = "SUMMARY" /\ Word.ref.ok /\ Word.ref.row < 0
        \/ printed = << >> /\ state = "DEFINE" /\ Len(meta.macros) < MaxMacros
        \/ \E c \in 0..(table.cols - 1) :
            MeantColumn(c).width <= MeantPrcsn(c, 0) /\ MeantPrcsn(c, Len(printed)) < MeantPrcsn(c, 0)

(* Every row is printed in the columns, with the alignments, precisions    *)
(* and lines that the commands before and after it ask for, whatever was   *)
(* inherited through MergeHeader on the way.                               *)
PrintedAsMeant ==
    \A r \in 1..Len(printed) : \A c \in DOMAIN printed[r] :
        LET f == printed[r][c] IN
        /\ f.sep = MeantColumn(c).sep
        /\ f.width + f.pad = MeantColumn(c).width
        /\ IF f.type = "NUMBER" THEN f.prcsn = MeantPrcsn(c, r - 1)
           ELSE f.align = MeantAlign(c)
        /\ f.underline <=> \/ r \in {MeantBody, MeantFoot}
                           \/ meta.summarized /\ meta.summary = <<c, r - 1>>

(* The decimal points of a column are below each other: all numbers of no  *)
(* more precision than the top cell, as far as they fit their width.       *)
Decimals(f) == IF f.prcsn = 0 THEN 0 ELSE f.prcsn + 1
PointsAligned ==
    \A r1, r2 \in 1..Len(printed) : \A c \in DOMAIN printed[1] :
        LET lines_up(f) == /\ f.type = "NUMBER" /\ f.prcsn <= MeantPrcsn(c, 0)
                           /\ Digits(f.text) + Decimals(f) <= f.width
            f1 == printed[r1][c]
            f2 == printed[r2][c]
        IN  lines_up(f1) /\ lines_up(f2) /\ MeantPrcsn(c, 0) > 0 =>
                f1.width - Decimals(f1) = f2.width - Decimals(f2)

(* A document that is named twice is printed the same twice, though the    *)
(* first time completed the formats of its cells and evaluated them.       *)
SecondTheSame == pc = "PRINTED" /\ before # << >> => printed = before

-----------------------------------------------------------------------------
(* The loader keeps what a document is to its readers: each of its steps   *)
(* is a step of Grid, growth none (src/mem.c, ReserveDocumentSpace).       *)
CellOf(p) == IF CellExists(table, p[1], p[2]) THEN GetCell(table, p[1], p[2]) ELSE BlankCell
ColumnOf(c) == IF c \in DOMAIN table.columns THEN table.columns[c] ELSE DefaultColumn
Dims == 0..(MaxDim - 1)

AsGrid == INSTANCE Grid WITH
    Col <- Dims, Row <- Dims, Blank <- BlankCell, Default <- DefaultColumn,
    cell <- [p \in Dims \X Dims |-> CellOf(p)],
    column <- [c \in Dims |-> ColumnOf(c)]

ImplementsGrid == AsGrid!GridSpec
=============================================================================
