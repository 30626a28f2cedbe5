------------------------------- MODULE Loader -------------------------------
(***************************************************************************)
(* The loading of a file by MakeDocument (src/main.c): its loop over the   *)
(* lines of the file, the cells of a row, the words of a command.          *)
(*                                                                         *)
(* A step reads a line, a cell or a word.  The text of a line is split     *)
(* beforehand: a row is a sequence of cells, a command a sequence of       *)
(* words, and a word carries what each of the scanners makes of it.        *)
(* Failing assertions, unreachable() and not_implemented stop the program. *)
(***************************************************************************)
EXTENDS Table, Sequences

CONSTANTS
    Lines,          \* the lines a file may have
    MaxLines,       \* a file has no more lines than this
    Body,           \* what ParseExpr may make of a macro's text
    Stopped,        \* in Body: one of its assertions fails
    MaxMacros,      \* MACRO_MAX_COUNT
    MinWidth,       \* MIN_COLUMN_WIDTH
    DefaultPrcsn,   \* DEFAULT_CELL_PRECISION
    Bar,            \* the separator of `sep |`
    IntMax          \* INT32_MAX

None == -1          \* a number the word does not have

(* A cell of a row: number holds if Str2f64 reads all of a text that is    *)
(* not empty.                                                              *)
CellText == [type : {"PRETYPED", "EXPR", "STRING"}, text : STRING, number : BOOLEAN]

(* The codes of a parsed reference. *)
PREV == -1
THIS == -2
NEXT == -3

(* A word of a command, and what it is as an argument: of fmt (alignment,  *)
(* width, precision), of prcsn (digits), of summary (ref: its column is    *)
(* letters or `@`).                                                        *)
Alignment == {"LEFT", "RIGHT"}
CommandWord == [text : STRING, align : Alignment \cup {"NONE"}, width : Int, prcsn : Int,
                digits : Int, ref : [ok : BOOLEAN, col : Nat \cup {THIS}, row : Int]]

ASSUME LinesAssumption ==
    /\ MaxLines \in 0..MaxDim /\ MaxMacros \in Nat /\ IntMax \in Nat /\ IntMax >= MaxDim
    /\ \A l \in Lines :
        /\ l.type \in {"EMPTY", "COMMENT", "ROW", "COMMAND"}
        /\ l.words \in Seq(IF l.type = "ROW" THEN CellText ELSE CommandWord)
        /\ Len(l.words) <= MaxDim

-----------------------------------------------------------------------------
(* Formats.  set is the SetMask: which of the two fields are set.          *)

Fmt == [align : Alignment, prcsn : 0..255, set : SUBSET {"ALIGN", "PRCSN"}]
DefaultHeader == [align |-> "LEFT", prcsn |-> DefaultPrcsn, set |-> {"ALIGN", "PRCSN"}]

(* A new cell is all zeroes: it has no type, no text, and nothing is set.  *)
ASSUME DefaultsAssumption ==
    /\ DefaultPrcsn \in 0..255 /\ MinWidth \in Nat
    /\ BlankCell \in [fmt : {f \in Fmt : f.set = {}}, type : {"NULL"}, text : STRING]
    /\ DefaultColumn \in [width : Nat, sep : STRING] /\ Bar \in STRING

(* MergeHeader slip: a set field does not stay. *)
MergeHeaderOver(dst, src) ==
    [align |-> IF "ALIGN" \in src.set THEN src.align ELSE dst.align,
     prcsn |-> IF "PRCSN" \in src.set THEN src.prcsn ELSE dst.prcsn,
     set   |-> dst.set \cup src.set]

MergeHeader(dst, src) ==
    [align |-> IF "ALIGN" \in dst.set THEN dst.align ELSE src.align,
     prcsn |-> IF "PRCSN" \in dst.set THEN dst.prcsn ELSE src.prcsn,
     set   |-> dst.set \cup src.set]

(* What SetAsNumber, SetAsString and SetAsExpr leave in a cell. *)
CellType(w) ==
    IF w.type # "PRETYPED" THEN w.type ELSE IF w.number THEN "NUMBER" ELSE "STRING"
Filled(cell, w) == [cell EXCEPT !.type = CellType(w), !.text = w.text]

(* The header that a word of fmt asks for. *)
FmtOf(w) ==
    [align |-> IF w.align = "NONE" THEN DefaultHeader.align ELSE w.align,
     prcsn |-> IF w.prcsn = None THEN DefaultPrcsn ELSE w.prcsn % 256,
     set   |-> DefaultHeader.set]

(* The precision that a word of prcsn asks for, in a u8. *)
PrcsnOf(w) == IF w.digits = None THEN DefaultPrcsn ELSE w.digits % 256

-----------------------------------------------------------------------------
VARIABLES
    lines,      \* the lines read so far; the last one may be in progress
    pos,        \* how many of its words are done: ColIdx of a row, ArgPos
    state,      \* the command it is
    rowIdx,     \* RowIdx: the row that is read next
    fmtRowIdx,  \* FmtRowIdx: the row whose formats the rows inherit, or -1
    table,      \* the document's table, Cols and Rows
    meta,       \* its bounds, its summary cell, its macros
    pc          \* what the program does next

loadVars == <<lines, pos, state, rowIdx, fmtRowIdx, table, meta, pc>>

NoMeta == [firstBodyRow |-> 0, firstFootRow |-> IntMax,
           summarized |-> FALSE, summary |-> <<0, 0>>, macros |-> << >>]

LoaderInit ==
    /\ lines = << >> /\ pos = 0 /\ state = "FIRST"
    /\ rowIdx = 0 /\ fmtRowIdx = -1
    /\ table = EmptyTable /\ meta = NoMeta
    /\ pc = "READ"

Line == lines[Len(lines)]
More == pos < Len(Line.words)
Word == Line.words[pos + 1]
WordOf(type) == pc = type /\ More
Argument(s)  == WordOf("COMMAND") /\ state = s
Done         == pos' = pos + 1 /\ UNCHANGED <<lines, rowIdx, pc>>
Stop         == pc' = "ABORTED" /\ UNCHANGED <<lines, pos, state, rowIdx, fmtRowIdx, table, meta>>

(* SectionEnd slip: blank lines in a row are one. *)
SectionEndOnce(m) ==
    IF m.firstBodyRow \in {0, rowIdx} THEN [m EXCEPT !.firstBodyRow = rowIdx]
    ELSE [m EXCEPT !.firstFootRow = rowIdx]
(* What an empty line makes of the bounds. *)
SectionEnd(m) ==
    IF m.firstBodyRow = 0 THEN [m EXCEPT !.firstBodyRow = rowIdx]
    ELSE [m EXCEPT !.firstFootRow = rowIdx]

(* ReadLine and the switch on what it found. *)
Read(l) ==
    /\ pc = "READ" /\ Len(lines) < MaxLines
    /\ lines' = Append(lines, l) /\ pos' = 0 /\ state' = "FIRST"
    /\ UNCHANGED <<rowIdx, table>>

EmptyLine(l) ==
    /\ l.type = "EMPTY" /\ Read(l)
    /\ meta' = SectionEnd(meta)
    /\ fmtRowIdx' = -1
    /\ UNCHANGED pc

CommentLine(l) == l.type = "COMMENT" /\ Read(l) /\ UNCHANGED <<meta, fmtRowIdx, pc>>

WordsLine(l) ==
    /\ l.type \in {"ROW", "COMMAND"} /\ Read(l)
    /\ pc' = l.type
    /\ UNCHANGED <<meta, fmtRowIdx>>

EndOfFile ==
    /\ pc = "READ" /\ pc' = "LOADED"
    /\ UNCHANGED <<lines, pos, state, rowIdx, fmtRowIdx, table, meta>>

-----------------------------------------------------------------------------
(* LINE_ROW.                                                               *)

RowCell ==
    /\ WordOf("ROW")
    /\ LET t        == ReserveCell(table, pos, rowIdx)
           cell     == Filled(GetCell(t, pos, rowIdx), Word)
           inherits == fmtRowIdx >= 0 /\ fmtRowIdx # rowIdx
       IN  IF inherits /\ ~CellExists(t, pos, fmtRowIdx) THEN Stop
           ELSE /\ table' = PutCell(t, pos, rowIdx,
                        IF inherits
                        THEN [cell EXCEPT !.fmt = MergeHeader(@, GetCell(t, pos, fmtRowIdx).fmt)]
                        ELSE cell)
                /\ Done /\ UNCHANGED <<state, fmtRowIdx, meta>>

EndRow ==
    /\ pc = "ROW" /\ ~More
    /\ rowIdx' = rowIdx + 1 /\ pc' = "READ"
    /\ UNCHANGED <<lines, pos, state, fmtRowIdx, table, meta>>

-----------------------------------------------------------------------------
(* LINE_COMMAND.                                                           *)

Commands == [sep |-> "SEP", fmt |-> "FMT", prcsn |-> "PRCSN",
             summary |-> "SUMMARY", define |-> "DEFINE"]

CommandName ==
    /\ Argument("FIRST")
    /\ state' = IF Word.text \in DOMAIN Commands THEN Commands[Word.text] ELSE "ERROR"
    /\ fmtRowIdx' = IF Word.text = "prcsn" THEN rowIdx ELSE fmtRowIdx
    /\ Done /\ UNCHANGED <<table, meta>>

SepWord ==
    /\ Argument("SEP")
    /\ \/ Word.text = "-" /\ Done /\ UNCHANGED <<state, fmtRowIdx, table, meta>>
       \/ /\ Word.text = "|"
          /\ LET t == ReserveColumn(table, pos)
             IN  table' = PutColumn(t, pos, [t.columns[pos] EXCEPT !.sep = Bar])
          /\ Done /\ UNCHANGED <<state, fmtRowIdx, meta>>
       \/ Word.text \notin {"-", "|"} /\ Stop

FmtWord ==
    /\ Argument("FMT")
    /\ LET col == pos - 1
           t   == ReserveColumn(table, col)
           t2  == IF Word.width = None THEN t
                  ELSE PutColumn(t, col,
                        [t.columns[col] EXCEPT !.width = Larger(Word.width, MinWidth)])
           t3  == ReserveCell(t2, col, 0)
       IN  table' = IF Word.text = "-" THEN t
                    ELSE PutCell(t3, col, 0,
                        [GetCell(t3, col, 0) EXCEPT !.fmt = MergeHeader(@, FmtOf(Word))])
    /\ Done /\ UNCHANGED <<state, fmtRowIdx, meta>>

(* Every word but reset sets its column, the word `-` too.  The row is the *)
(* next one, which need not be in the table yet.                           *)
PrcsnWord ==
    /\ Argument("PRCSN")
    /\ IF Word.text = "reset"
       THEN fmtRowIdx' = -1 /\ state' = "ERROR" /\ UNCHANGED table
       ELSE /\ LET t == ReserveCell(table, pos - 1, fmtRowIdx)
               IN  table' = PutCell(t, pos - 1, fmtRowIdx,
                        [GetCell(t, pos - 1, fmtRowIdx) EXCEPT
                            !.fmt.prcsn = PrcsnOf(Word),
                            !.fmt.set   = @ \cup {"PRCSN"}])
            /\ UNCHANGED <<state, fmtRowIdx>>
    /\ Done /\ UNCHANGED meta

AbsoluteDim(dim, this) ==
    IF dim = PREV THEN this - 1
    ELSE IF dim = NEXT THEN this + 1
    ELSE IF dim = THIS THEN this ELSE dim

SummaryWord ==
    /\ Argument("SUMMARY")
    /\ LET col == AbsoluteDim(Word.ref.col, 0)
           row == AbsoluteDim(Word.ref.row, rowIdx)
       IN  IF Word.ref.ok /\ (col < 0 \/ row < 0) THEN Stop
           ELSE /\ meta' = IF Word.ref.ok
                           THEN [meta EXCEPT !.summarized = TRUE, !.summary = <<col, row>>]
                           ELSE meta
                /\ state' = "ERROR"
                /\ Done /\ UNCHANGED <<fmtRowIdx, table>>

(* NoMacroLeft slip: one macro too many. *)
NoMacroLeftLate == Len(meta.macros) > MaxMacros
NoMacroLeft == Len(meta.macros) >= MaxMacros

(* The rest of the line is the body; its words are then read as well, and  *)
(* passed over.                                                            *)
DefineWord ==
    /\ Argument("DEFINE")
    /\ \E body \in Body :
        IF NoMacroLeft
        THEN Done /\ state' = "ERROR" /\ UNCHANGED <<fmtRowIdx, table, meta>>
        ELSE IF body = Stopped THEN Stop
        ELSE /\ meta' = [meta EXCEPT !.macros = Append(@, [name |-> Word.text, body |-> body])]
             /\ Done /\ state' = "ERROR" /\ UNCHANGED <<fmtRowIdx, table>>

ExtraWord == Argument("ERROR") /\ Done /\ UNCHANGED <<state, fmtRowIdx, table, meta>>

EndCommand ==
    /\ pc = "COMMAND" /\ ~More /\ pc' = "READ"
    /\ UNCHANGED <<lines, pos, state, rowIdx, fmtRowIdx, table, meta>>

LoaderNext ==
    \/ \E l \in Lines : EmptyLine(l) \/ CommentLine(l) \/ WordsLine(l)
    \/ RowCell \/ EndRow
    \/ CommandName \/ SepWord \/ FmtWord \/ PrcsnWord \/ SummaryWord \/ DefineWord
    \/ ExtraWord \/ EndCommand \/ EndOfFile
=============================================================================
