---------------------------- MODULE PrinterProofs ----------------------------
(***************************************************************************)
(* That what is printed is what the commands of the file ask for, that the *)
(* program stops for reasons the file gives only, and that a second time   *)
(* prints the same: for any lines, any least size of a table and any way   *)
(* its room is rounded up.                                                 *)
(***************************************************************************)
EXTENDS LoaderProofs

-----------------------------------------------------------------------------
(* What is printed is what the table holds, and a document that was        *)
(* printed once has nothing left to evaluate or to complete.               *)

Finished(t) ==
    \A c, r \in Nat : c < t.cols /\ r < t.rows =>
        CellAt(t, c, r).type # "EXPR" /\ CellAt(t, c, r).fmt.set = {"ALIGN", "PRCSN"}
Evaluated(t) == \A c, r \in Nat : CellAt(t, c, r).type # "EXPR"

RowOf(r)   == [col \in 0..(table.cols - 1) |-> Field(col, r)]
RowsTo(n)  == [i \in 1..n |-> RowOf(i - 1)]

PrintInv ==
    /\ Loading => printed = << >> /\ before = << >>
    /\ pc \in {"LOADED", "EVALUATED"} => printed = << >>
    /\ pc = "EVALUATED" => Evaluated(table)
    /\ pc \in {"PRINT", "PRINTED"} \/ before # << >> => Evaluated(table) /\ Finished(table)
    /\ \E n \in 0..table.rows : printed = RowsTo(n) /\ Len(printed) = n
    /\ pc = "PRINTED" => Len(printed) = table.rows
    /\ before # << >> => before = RowsTo(table.rows)

(* No row is printed at first.                                             *)
LEMMA NoRows == RowsTo(0) = << >> /\ Len(<< >>) = 0
  <1>1. 1..0 = {}
    OBVIOUS
  <1> QED BY <1>1 DEF RowsTo

(* A field depends on what a reader finds, not on the room of the table.   *)
LEMMA FieldSame ==
    ASSUME IsTable(table), IsTable(table'), table'.cols = table.cols, table'.rows = table.rows,
           SameCells(table', table), SameColumns(table', table), meta' = meta,
           NEW c \in 0..(table.cols - 1), NEW r \in 0..(table.rows - 1)
    PROVE  Field(c, r)' = Field(c, r)
  <1>1. 0 \in 0..(table.rows - 1) /\ 0 \in Nat /\ c \in Nat /\ r \in Nat
    BY DEF IsTable
  <1>2. /\ GetCell(table', c, r) = GetCell(table, c, r)
        /\ GetCell(table', c, 0) = GetCell(table, c, 0)
    BY <1>1, UsedCell DEF SameCells
  <1>3. table'.columns[c] = table.columns[c]
    <2>1. c \in 0..(table.tcols - 1) /\ c \in 0..(table'.tcols - 1)
      BY DEF IsTable
    <2> QED BY <1>1, <2>1 DEF SameColumns, ColumnAt
  <1> QED BY <1>2, <1>3 DEF Field, NumberWidth, Shortened, Underlined

(* So do the rows that are printed.                                        *)
LEMMA RowsSame ==
    ASSUME IsTable(table), IsTable(table'), table'.cols = table.cols, table'.rows = table.rows,
           SameCells(table', table), SameColumns(table', table), meta' = meta,
           NEW n \in 0..table.rows
    PROVE  RowsTo(n)' = RowsTo(n)
  <1>1. ASSUME NEW i \in 1..n PROVE RowOf(i - 1)' = RowOf(i - 1)
    <2>1. i - 1 \in 0..(table.rows - 1)
      BY DEF IsTable
    <2>2. \A c \in 0..(table.cols - 1) : Field(c, i - 1)' = Field(c, i - 1)
      BY <2>1, FieldSame
    <2> QED BY <2>2 DEF RowOf
  <1> QED BY <1>1 DEF RowsTo

(* Outside the used area a reader finds nothing.                           *)
LEMMA BlankOutside ==
    ASSUME NEW t, IsTable(t), NEW c \in Nat, NEW r \in Nat, ~(c < t.cols /\ r < t.rows)
    PROVE  CellAt(t, c, r) = BlankCell /\ BlankCell.type = "NULL"
  <1>1. BlankCell.type = "NULL"
    BY DefaultsAssumption
  <1> QED BY <1>1 DEF CellAt, CellExists, IsTable

(* A full format takes nothing more, and what merges one is full.          *)
LEMMA MergeFull ==
    ASSUME NEW d \in Fmt, NEW s \in Fmt
    PROVE  /\ d.set = {"ALIGN", "PRCSN"} => MergeHeader(d, s) = d
           /\ s.set = {"ALIGN", "PRCSN"} => MergeHeader(d, s).set = {"ALIGN", "PRCSN"}
  <1>1. /\ d = [align |-> d.align, prcsn |-> d.prcsn, set |-> d.set]
        /\ d.set \in SUBSET {"ALIGN", "PRCSN"} /\ s.set \in SUBSET {"ALIGN", "PRCSN"}
    BY DEF Fmt
  <1> QED BY <1>1 DEF MergeHeader

(* The second evaluation finds no expression: what was printed stays what  *)
(* the table holds.                                                        *)
LEMMA EvaluatePrints == ASSUME IInv, IInv', PrintInv, Evaluate PROVE PrintInv'
  <1>1. /\ pc = "LOADED" /\ pc' = "EVALUATED" /\ printed' = printed /\ before' = before /\ meta' = meta
        /\ printed = << >>
    BY DEF Evaluate, docVars, outVars, PrintInv
  <1>2. /\ table'.cols = table.cols /\ table'.rows = table.rows /\ SameColumns(table', table)
        /\ \A c, r \in Nat :
            \/ CellAt(table, c, r).type # "EXPR" /\ CellAt(table', c, r) = CellAt(table, c, r)
            \/ /\ CellAt(table, c, r).type = "EXPR"
               /\ \E type \in Results : CellAt(table', c, r) = [CellAt(table, c, r) EXCEPT !.type = type]
    BY EvaluateFacts
  <1>3. IsTable(table) /\ IsTable(table') /\ table.rows \in Nat
    BY DEF IInv, IsTable
  <1>4. Evaluated(table')
    <2> SUFFICES ASSUME NEW c \in Nat, NEW r \in Nat PROVE CellAt(table', c, r).type # "EXPR"
      BY DEF Evaluated
    <2>1. CellAt(table, c, r) \in Cell
      BY <1>3, CellAtType
    <2>2. CASE CellAt(table, c, r).type # "EXPR"
      BY <1>2, <2>2
    <2>3. CASE CellAt(table, c, r).type = "EXPR"
      <3>1. PICK type \in Results : CellAt(table', c, r) = [CellAt(table, c, r) EXCEPT !.type = type]
        BY <1>2, <2>3
      <3> QED BY <2>1, <3>1 DEF Cell, Results
    <2> QED BY <2>2, <2>3
  <1>5. ASSUME before # << >>
        PROVE  Finished(table') /\ before' = RowsTo(table.rows)'
    <2>1. Evaluated(table) /\ Finished(table) /\ before = RowsTo(table.rows)
      BY <1>5 DEF PrintInv
    <2>2. SameCells(table', table)
      BY <1>2, <2>1 DEF SameCells, Evaluated
    <2>3. Finished(table')
      BY <1>2, <2>1, <2>2 DEF Finished, SameCells
    <2>4. RowsTo(table.rows)' = RowsTo(table.rows)
      <3>1. table.rows \in 0..table.rows
        BY <1>3
      <3>2. \A m \in 0..table.rows : RowsTo(m)' = RowsTo(m)
        BY <1>1, <1>2, <1>3, <2>2, RowsSame
      <3> QED BY <1>2, <3>1, <3>2 DEF RowsTo
    <2> QED BY <1>1, <2>1, <2>3, <2>4
  <1>6. RowsTo(0)' = << >> /\ Len(<< >>) = 0 /\ 0 \in 0..table'.rows
    <2>1. 1..0 = {}
      OBVIOUS
    <2> QED BY <1>2, <1>3, <2>1, NoRows DEF RowsTo
  <1> QED BY <1>1, <1>4, <1>5, <1>6 DEF PrintInv, Loading

(* Completing changes the format of a used cell only, and leaves one that  *)
(* is complete as it is.                                                   *)
LEMMA CompletedCell ==
    ASSUME IInv, CompleteFormats, NEW c \in Nat, NEW r \in Nat, c < table.cols, r < table.rows
    PROVE  /\ CellAt(table', c, r).type = CellAt(table, c, r).type
           /\ CellAt(table', c, r).fmt = CompletedFmt(table, c, r)
           /\ CellAt(table', c, r).fmt.set = {"ALIGN", "PRCSN"}
           /\ CellAt(table, c, r).fmt.set = {"ALIGN", "PRCSN"}
                => CellAt(table', c, r) = CellAt(table, c, r)
  <1> DEFINE old == CellAt(table, c, r)
             f == CompletedFmt(table, c, r)
  <1>1. CellAt(table', c, r) = [old EXCEPT !.fmt = f]
    BY CompleteFacts
  <1>2. old \in Cell /\ CellAt(table, c, 0) \in Cell
    BY CellAtType DEF IInv
  <1>3. DefaultHeader \in Fmt /\ DefaultHeader.set = {"ALIGN", "PRCSN"}
    BY HeaderTypes DEF DefaultHeader
  <1> DEFINE top == MergeHeader(CellAt(table, c, 0).fmt, DefaultHeader)
  <1>4. top \in Fmt /\ top.set = {"ALIGN", "PRCSN"}
    BY <1>2, <1>3, HeaderTypes, MergeFull DEF Cell
  <1>5. f = MergeHeader(old.fmt, top)
    BY DEF CompletedFmt
  <1> HIDE DEF old, f, top
  <1>6. f.set = {"ALIGN", "PRCSN"} /\ (old.fmt.set = {"ALIGN", "PRCSN"} => f = old.fmt)
    BY <1>2, <1>4, <1>5, MergeFull DEF Cell
  <1>7. old = [fmt |-> old.fmt, type |-> old.type, text |-> old.text]
    BY <1>2 DEF Cell
  <1>8. [old EXCEPT !.fmt = f] = [fmt |-> f, type |-> old.type, text |-> old.text]
    BY <1>7
  <1>9. /\ CellAt(table', c, r).type = old.type /\ CellAt(table', c, r).fmt = f
        /\ old.fmt.set = {"ALIGN", "PRCSN"} => CellAt(table', c, r) = old
    BY <1>1, <1>6, <1>7, <1>8
  <1> QED BY <1>6, <1>9 DEF old, f

(* The second completion finds every format full.                          *)
LEMMA CompletePrints == ASSUME IInv, IInv', PrintInv, CompleteFormats PROVE PrintInv'
  <1>1. /\ pc = "EVALUATED" /\ pc' = "PRINT" /\ printed' = printed /\ before' = before /\ meta' = meta
        /\ printed = << >> /\ Evaluated(table)
    BY DEF CompleteFormats, docVars, outVars, PrintInv
  <1>2. /\ table'.cols = table.cols /\ table'.rows = table.rows /\ SameColumns(table', table)
        /\ \A c, r \in Nat :
            CellAt(table', c, r) =
                IF c < table.cols /\ r < table.rows
                THEN [CellAt(table, c, r) EXCEPT !.fmt = CompletedFmt(table, c, r)]
                ELSE CellAt(table, c, r)
    BY CompleteFacts
  <1>3. IsTable(table) /\ IsTable(table') /\ table.rows \in Nat
    BY DEF IInv, IsTable
  <1>4. ASSUME NEW c \in Nat, NEW r \in Nat, c < table.cols, r < table.rows
        PROVE  /\ CellAt(table', c, r).type = CellAt(table, c, r).type
               /\ CellAt(table', c, r).fmt.set = {"ALIGN", "PRCSN"}
               /\ CellAt(table, c, r).fmt.set = {"ALIGN", "PRCSN"}
                    => CellAt(table', c, r) = CellAt(table, c, r)
    BY <1>4, CompletedCell
  <1>5. Finished(table')
    BY <1>1, <1>2, <1>4 DEF Finished, Evaluated
  <1>6. Evaluated(table')
    BY <1>1, <1>2, <1>4 DEF Evaluated
  <1>7. ASSUME before # << >> PROVE before' = RowsTo(table.rows)'
    <2>1. Finished(table) /\ before = RowsTo(table.rows)
      BY <1>7 DEF PrintInv
    <2>2. SameCells(table', table)
      BY <1>2, <1>4, <2>1 DEF SameCells, Finished
    <2>3. \A m \in 0..table.rows : RowsTo(m)' = RowsTo(m)
      BY <1>1, <1>2, <1>3, <2>2, RowsSame
    <2>4. table.rows \in 0..table.rows
      BY <1>3
    <2> QED BY <1>1, <1>2, <2>1, <2>3, <2>4 DEF RowsTo
  <1>8. RowsTo(0)' = << >> /\ Len(<< >>) = 0 /\ 0 \in 0..table'.rows
    <2>1. 1..0 = {}
      OBVIOUS
    <2> QED BY <1>2, <1>3, <2>1, NoRows DEF RowsTo
  <1> QED BY <1>1, <1>5, <1>6, <1>7, <1>8 DEF PrintInv, Loading

(* The rows so far, and one more.                                          *)
LEMMA RowsGrow ==
    ASSUME NEW n \in Nat, printed = RowsTo(n), Len(printed) = n,
           printed' = Append(printed, RowOf(n))
    PROVE  printed' = RowsTo(n + 1) /\ Len(printed') = n + 1
  <1> DEFINE S == {RowOf(i - 1) : i \in 1..(n + 1)}
  <1>1. \A i \in 1..(n + 1) : RowOf(i - 1) \in S
    OBVIOUS
  <1>2. RowOf(n) \in S
    <2>1. n + 1 \in 1..(n + 1) /\ n + 1 - 1 = n
      OBVIOUS
    <2> QED BY <2>1
  <1> HIDE DEF S
  <1>3. printed \in [1..n -> S]
    BY <1>1 DEF RowsTo
  <1>4. printed \in Seq(S)
    BY <1>3
  <1>5. /\ printed' \in Seq(S) /\ Len(printed') = n + 1
        /\ \A i \in 1..n : printed'[i] = printed[i]
        /\ printed'[n + 1] = RowOf(n)
    BY <1>2, <1>4, AppendProperties
  <1>6. ASSUME NEW i \in 1..(n + 1) PROVE printed'[i] = RowOf(i - 1)
    <2>1. CASE i \in 1..n
      BY <1>5, <2>1 DEF RowsTo
    <2>2. CASE i = n + 1
      BY <1>5, <2>2
    <2> QED BY <2>1, <2>2
  <1>7. printed' \in [1..(n + 1) -> S]
    BY <1>5, LenProperties
  <1> QED BY <1>5, <1>6, <1>7 DEF RowsTo

(* PrintInv is an invariant: at first nothing is printed.                  *)
LEMMA PrintInvInit == Init => PrintInv
  <1> SUFFICES ASSUME Init PROVE PrintInv
    OBVIOUS
  <1>1. printed = << >> /\ before = << >> /\ pc = "READ" /\ table.rows = 0
    BY DEF Init, LoaderInit, EmptyTable
  <1>2. 0 \in 0..table.rows /\ printed = RowsTo(0) /\ Len(printed) = 0
    BY <1>1, NoRows
  <1> QED BY <1>1, <1>2 DEF PrintInv

(* PrintInv is kept by every step.                                         *)
LEMMA PrintInvNext == IInv /\ IInv' /\ PrintInv /\ [Next]_vars => PrintInv'
  <1> SUFFICES ASSUME IInv, IInv', PrintInv, [Next]_vars PROVE PrintInv'
    OBVIOUS
  <1>1. table.rows \in Nat /\ table'.rows \in Nat
    BY DEF IInv, IsTable
  <1>2. CASE LoaderNext /\ UNCHANGED outVars
    <2>1. Loading /\ pc' \in {"READ", "ROW", "COMMAND", "LOADED", "ABORTED"}
      <3>1. pc \in {"READ", "ROW", "COMMAND"}
        BY <1>2 DEF LoaderNext, EmptyLine, CommentLine, WordsLine, Read, RowCell, EndRow, CommandName,
                    SepWord, FmtWord, PrcsnWord, SummaryWord, DefineWord, ExtraWord, EndCommand,
                    EndOfFile, Argument, WordOf
      <3>2. \/ pc' \in {"READ", "ROW", "COMMAND", "LOADED", "ABORTED"}
        BY <1>2, <3>1 DEF LoaderNext, EmptyLine, CommentLine, WordsLine, Read, RowCell, EndRow,
                    CommandName, SepWord, FmtWord, PrcsnWord, SummaryWord, DefineWord, ExtraWord,
                    EndCommand, EndOfFile, Argument, WordOf, Done, Stop
      <3> QED BY <3>1, <3>2 DEF Loading
    <2>2. printed' = << >> /\ before' = << >>
      BY <1>2, <2>1 DEF PrintInv, outVars
    <2>3. RowsTo(0)' = << >> /\ Len(<< >>) = 0 /\ 0 \in 0..table'.rows
      <3>1. 1..0 = {}
        OBVIOUS
      <3> QED BY <1>1, <3>1, NoRows DEF RowsTo
    <2> QED BY <2>1, <2>2, <2>3 DEF PrintInv
  <1>3. CASE Evaluate
    BY <1>3, EvaluatePrints
  <1>4. CASE CompleteFormats
    BY <1>4, CompletePrints
  <1>5. ASSUME table' = table, meta' = meta
        PROVE  \A n \in Nat : RowsTo(n)' = RowsTo(n)
    BY <1>5 DEF RowsTo, RowOf, Field, NumberWidth, Shortened, Underlined
  <1>6. CASE PrintRow
    <2>1. /\ pc = "PRINT" /\ Len(printed) < table.rows /\ table' = table /\ meta' = meta /\ before' = before
          /\ \/ pc' = "ABORTED" /\ printed' = printed
             \/ pc' = "PRINT" /\ printed' = Append(printed, RowOf(Len(printed)))
      BY <1>6 DEF PrintRow, docVars, RowOf
    <2>2. PICK n \in 0..table.rows : printed = RowsTo(n) /\ Len(printed) = n
      BY DEF PrintInv
    <2>3. \E k \in 0..table.rows : printed' = RowsTo(k) /\ Len(printed') = k
      <3>1. CASE printed' = printed
        BY <2>2, <3>1
      <3>2. CASE printed' = Append(printed, RowOf(Len(printed)))
        <4>1. printed' = RowsTo(n + 1) /\ Len(printed') = n + 1
          BY <2>2, <3>2, RowsGrow
        <4>2. n + 1 \in 0..table.rows
          BY <1>1, <2>1, <2>2
        <4> QED BY <4>1, <4>2
      <3> QED BY <2>1, <3>1, <3>2
    <2>4. \E k \in 0..table'.rows : printed' = RowsTo(k)' /\ Len(printed') = k
      BY <1>1, <1>5, <2>1, <2>3
    <2>5. RowsTo(table.rows)' = RowsTo(table.rows)
      BY <1>1, <1>5, <2>1 DEF RowsTo
    <2> QED BY <2>1, <2>4, <2>5 DEF PrintInv, Loading
  <1>7. CASE EndPrint \/ Exit \/ UNCHANGED vars
    <2>1. /\ table' = table /\ meta' = meta /\ before' = before /\ printed' = printed
          /\ pc' = pc \/ (pc = "PRINT" /\ pc' = "PRINTED" /\ Len(printed) = table.rows)
      BY <1>7 DEF EndPrint, Exit, docVars, outVars, vars
    <2>2. \E k \in 0..table.rows : printed = RowsTo(k) /\ Len(printed) = k
      BY DEF PrintInv
    <2>3. \E k \in 0..table'.rows : printed' = RowsTo(k)' /\ Len(printed') = k
      BY <1>1, <1>5, <2>1, <2>2
    <2>4. RowsTo(table.rows)' = RowsTo(table.rows)
      BY <1>1, <1>5, <2>1 DEF RowsTo
    <2> QED BY <2>1, <2>3, <2>4 DEF PrintInv, Loading
  <1>8. CASE Again
    <2>1. /\ pc = "PRINTED" /\ before = << >> /\ printed # << >> /\ table' = table /\ meta' = meta
          /\ pc' = "LOADED" /\ before' = printed /\ printed' = << >>
      BY <1>8 DEF Again, docVars
    <2>2. printed = RowsTo(table.rows) /\ Evaluated(table) /\ Finished(table)
      BY <2>1 DEF PrintInv
    <2>3. RowsTo(table.rows)' = RowsTo(table.rows)
      BY <1>1, <1>5, <2>1 DEF RowsTo
    <2>4. RowsTo(0)' = << >> /\ Len(<< >>) = 0 /\ 0 \in 0..table'.rows
      <3>1. 1..0 = {}
        OBVIOUS
      <3> QED BY <1>1, <3>1, NoRows DEF RowsTo
    <2> QED BY <2>1, <2>2, <2>3, <2>4 DEF PrintInv, Loading
  <1> QED BY <1>2, <1>3, <1>4, <1>6, <1>7, <1>8 DEF Next

(* Every behaviour keeps it.                                               *)
LEMMA AlwaysPrintInv == Spec => []PrintInv
  BY PrintInvInit, PrintInvNext, AlwaysIInv, PTL DEF Spec

(* A document that is named twice is printed the same twice, though the    *)
(* first time completed the formats of its cells and evaluated them: the   *)
(* second time finds no expression and every format set.                   *)
THEOREM PrintsTheSameTwice == Spec => []SecondTheSame
  <1>1. PrintInv => SecondTheSame
    BY DEF PrintInv, SecondTheSame
  <1> QED BY <1>1, AlwaysPrintInv, PTL

-----------------------------------------------------------------------------
(* What the commands ask for, in the words that are read so far: s are the *)
(* lines and p is how many words of the last one are done.                 *)

WordAt(s, i, k) == s[i].words[k + 1]

(* The commands of a name whose word k + 1 is read. *)
Given(s, p, name, k) ==
    {i \in 1..Len(s) : /\ s[i].type = "COMMAND" /\ k < WordsRead(s, p, i)
                       /\ s[i].words[1].text = name}
NoReset(s, i, k) == \A j \in 1..k : WordAt(s, i, j).text # "reset"

FormatsOf(s, p, c) == {i \in Given(s, p, "fmt", c + 1) : WordAt(s, i, c + 1).text # "-"}
WidthsOf(s, p, c)  == {i \in FormatsOf(s, p, c) : WordAt(s, i, c + 1).width # None}
BarsOf(s, p, c)    == {i \in Given(s, p, "sep", c) : c > 0 /\ WordAt(s, i, c).text = "|"}
DirectOf(s, p, c, r) ==
    {i \in Given(s, p, "prcsn", c + 1) : RowNo(s, i) = r /\ NoReset(s, i, c + 1)}

(* Where it was last said, before line n, which row the rows inherit from. *)
TurnsOf(s, p, n) ==
    {i \in 1..(n - 1) : i \in Given(s, p, "prcsn", 0) \/ s[i].type = "EMPTY"}
ScopeOf(s, p, n) ==
    LET turns == TurnsOf(s, p, n) IN
    IF turns = {} \/ s[Last(turns)].type = "EMPTY"
       \/ ~NoReset(s, Last(turns), WordsRead(s, p, Last(turns)) - 1)
    THEN {} ELSE {RowNo(s, Last(turns))}

(* What is asked for, if anything is: the precision of a cell, the format, *)
(* the width, the separator of a column, and the row a cell inherits from. *)
AskedPrcsn(s, p, c, r) ==
    {PrcsnOf(WordAt(s, i, c + 1)) : i \in {i \in DirectOf(s, p, c, r) : i = Last(DirectOf(s, p, c, r))}}
AskedFmt(s, p, c) ==
    {FmtOf(WordAt(s, i, c + 1)) : i \in {i \in FormatsOf(s, p, c) : i = First(FormatsOf(s, p, c))}}
AskedWidth(s, p, c) ==
    {WordAt(s, i, c + 1).width : i \in {i \in WidthsOf(s, p, c) : i = Last(WidthsOf(s, p, c))}}
CellLine(s, p, c, r, i) == RowLine(s, i) /\ RowNo(s, i) = r /\ c < WordsRead(s, p, i)
Donors(s, p, c, r) == UNION {ScopeOf(s, p, i) : i \in {i \in 1..Len(s) : CellLine(s, p, c, r, i)}}

-----------------------------------------------------------------------------
(* One word more, one line more.                                           *)

(* A word that is read makes its line one of those that give it.           *)
LEMMA GivenWord ==
    ASSUME NEW s \in Seq(Lines), s # << >>, NEW p \in Nat, NEW k \in Nat, NEW name
    PROVE  /\ Given(s, p + 1, name, k) =
                IF k = p /\ s[Len(s)].type = "COMMAND" /\ s[Len(s)].words[1].text = name
                THEN Given(s, p, name, k) \cup {Len(s)} ELSE Given(s, p, name, k)
           /\ k >= p => \A i \in Given(s, p, name, k) : i < Len(s)
           /\ Given(s, p, name, k) \in SUBSET Nat
           /\ \A i \in Given(s, p, name, k) : i <= Len(s)
  <1>1. Len(s) \in Nat /\ Len(s) > 0
    BY EmptySeq, LenProperties
  <1>2. \A i \in 1..Len(s) : i # Len(s) => WordsRead(s, p + 1, i) = WordsRead(s, p, i)
    BY DEF WordsRead
  <1>3. WordsRead(s, p + 1, Len(s)) = p + 1 /\ WordsRead(s, p, Len(s)) = p
    BY DEF WordsRead
  <1>4. ASSUME k >= p, NEW i \in Given(s, p, name, k) PROVE i < Len(s)
    <2>1. i \in 1..Len(s) /\ k < WordsRead(s, p, i)
      BY <1>4 DEF Given
    <2>2. i # Len(s)
      BY <1>3, <1>4, <2>1
    <2> QED BY <1>1, <2>1, <2>2
  <1>5. Given(s, p, name, k) \in SUBSET Nat /\ \A i \in Given(s, p, name, k) : i <= Len(s)
    BY <1>1 DEF Given
  <1>6. ASSUME NEW i \in 1..Len(s)
        PROVE  i \in Given(s, p + 1, name, k) <=>
                    \/ i \in Given(s, p, name, k)
                    \/ i = Len(s) /\ k = p /\ s[i].type = "COMMAND" /\ s[i].words[1].text = name
    <2>1. CASE i # Len(s)
      BY <1>2, <2>1 DEF Given
    <2>2. CASE i = Len(s)
      <3>1. k < p + 1 <=> k < p \/ k = p
        OBVIOUS
      <3> QED BY <1>3, <2>2, <3>1 DEF Given
    <2> QED BY <2>1, <2>2
  <1>7. Given(s, p + 1, name, k) \in SUBSET (1..Len(s)) /\ Given(s, p, name, k) \in SUBSET (1..Len(s))
    BY DEF Given
  <1>8. Len(s) \in 1..Len(s)
    BY <1>1
  <1>9. Given(s, p + 1, name, k) =
                IF k = p /\ s[Len(s)].type = "COMMAND" /\ s[Len(s)].words[1].text = name
                THEN Given(s, p, name, k) \cup {Len(s)} ELSE Given(s, p, name, k)
    BY <1>6, <1>7, <1>8
  <1> QED BY <1>4, <1>5, <1>9

(* The last line is read to its end. *)
Whole(s, p) == s # << >> /\ s[Len(s)].type \in {"ROW", "COMMAND"} => p = Len(s[Len(s)].words)

(* s goes on to g: its lines are still there, in the same rows, and those  *)
(* of them that have words were read to the end.                           *)
Extends(g, s, p) ==
    /\ Len(g) = Len(s) + 1 /\ Len(s) \in Nat
    /\ \A i \in 1..Len(s) : g[i] = s[i] /\ RowNo(g, i) = RowNo(s, i)
    /\ \A i \in 1..Len(s) : s[i].type \in {"ROW", "COMMAND"} => WordsRead(g, 0, i) = WordsRead(s, p, i)
    /\ WordsRead(g, 0, Len(g)) = 0

(* Reading a line extends the lines.                                       *)
LEMMA LineExtends ==
    ASSUME IInv, RowInv, Whole(lines, pos), NEW l \in Lines, Read(l)
    PROVE  Extends(lines', lines, pos)
  <1>1. /\ Len(lines') = Len(lines) + 1 /\ Len(lines) \in Nat
        /\ \A i \in 1..Len(lines) : lines'[i] = lines[i]
        /\ \A i \in 1..(Len(lines) + 1) : RowNo(lines', i) = RowNo(lines, i)
    BY ReadFacts, ReadLines
  <1>2. ASSUME NEW i \in 1..Len(lines), lines[i].type \in {"ROW", "COMMAND"}
        PROVE  WordsRead(lines', 0, i) = WordsRead(lines, pos, i)
    <2>1. lines # << >>
      BY <1>2, EmptySeq
    <2> QED BY <1>1, <1>2, <2>1 DEF WordsRead, Whole
  <1>3. WordsRead(lines', 0, Len(lines')) = 0
    BY DEF WordsRead
  <1>4. \A i \in 1..Len(lines) : RowNo(lines', i) = RowNo(lines, i)
    BY <1>1
  <1> QED BY <1>1, <1>2, <1>3, <1>4 DEF Extends

(* A new line, none of whose words is read, gives nothing yet.             *)
LEMMA GivenLine ==
    ASSUME NEW s, NEW g, NEW p, Extends(g, s, p), NEW k \in Nat, NEW name
    PROVE  /\ Given(g, 0, name, k) = Given(s, p, name, k)
           /\ Given(s, p, name, k) \in SUBSET (1..Len(s))
  <1>1. Given(g, 0, name, k) \in SUBSET (1..Len(g)) /\ Given(s, p, name, k) \in SUBSET (1..Len(s))
    BY DEF Given
  <1>2. Len(g) \notin Given(g, 0, name, k)
    BY DEF Given, Extends
  <1>3. \A i \in 1..Len(s) : i \in 1..Len(g) /\ (i \in Given(g, 0, name, k) <=> i \in Given(s, p, name, k))
    BY DEF Given, Extends
  <1>4. \A i \in 1..Len(g) : i \in 1..Len(s) \/ i = Len(g)
    BY DEF Extends
  <1> QED BY <1>1, <1>2, <1>3, <1>4

(* A new line asks for nothing until its words are read.                   *)
LEMMA AskedLine ==
    ASSUME NEW s, NEW g, NEW p, Extends(g, s, p), NEW c \in Nat
    PROVE  /\ AskedFmt(g, 0, c) = AskedFmt(s, p, c)
           /\ AskedWidth(g, 0, c) = AskedWidth(s, p, c)
           /\ BarsOf(g, 0, c) = BarsOf(s, p, c)
           /\ \A r \in Nat : AskedPrcsn(g, 0, c, r) = AskedPrcsn(s, p, c, r)
  <1>1. \A i \in 1..Len(s) : g[i] = s[i] /\ RowNo(g, i) = RowNo(s, i)
    BY DEF Extends
  <1>2. \A name : \A k \in Nat : Given(g, 0, name, k) = Given(s, p, name, k)
                                 /\ Given(s, p, name, k) \in SUBSET (1..Len(s))
    BY GivenLine
  <1>3. c + 1 \in Nat
    OBVIOUS
  <1>4. FormatsOf(g, 0, c) = FormatsOf(s, p, c) /\ FormatsOf(s, p, c) \in SUBSET (1..Len(s))
    BY <1>1, <1>2, <1>3 DEF FormatsOf, WordAt
  <1>5. WidthsOf(g, 0, c) = WidthsOf(s, p, c) /\ WidthsOf(s, p, c) \in SUBSET (1..Len(s))
    BY <1>1, <1>4 DEF WidthsOf, WordAt
  <1>6. BarsOf(g, 0, c) = BarsOf(s, p, c)
    BY <1>1, <1>2 DEF BarsOf, WordAt
  <1>7. ASSUME NEW r \in Nat PROVE AskedPrcsn(g, 0, c, r) = AskedPrcsn(s, p, c, r)
    <2>1. DirectOf(g, 0, c, r) = DirectOf(s, p, c, r) /\ DirectOf(s, p, c, r) \in SUBSET (1..Len(s))
      BY <1>1, <1>2, <1>3 DEF DirectOf, NoReset, WordAt
    <2> QED BY <1>1, <2>1 DEF AskedPrcsn, WordAt
  <1>8. AskedFmt(g, 0, c) = AskedFmt(s, p, c)
    BY <1>1, <1>4 DEF AskedFmt, WordAt
  <1>9. AskedWidth(g, 0, c) = AskedWidth(s, p, c)
    BY <1>1, <1>5 DEF AskedWidth, WordAt
  <1> QED BY <1>6, <1>7, <1>8, <1>9

(* The turns are line numbers, before the line they are turns for.         *)
LEMMA TurnsFacts ==
    ASSUME NEW s, NEW p, NEW n \in Nat, TurnsOf(s, p, n) # {}
    PROVE  LET last == Last(TurnsOf(s, p, n)) IN
           /\ last \in TurnsOf(s, p, n) /\ last \in 1..(n - 1)
           /\ s[last].type # "EMPTY" => last \in Given(s, p, "prcsn", 0)
  <1> DEFINE T == TurnsOf(s, p, n)
  <1>1. T \in SUBSET Nat /\ \A j \in T : j <= n /\ j \in 1..(n - 1)
    BY DEF TurnsOf
  <1>2. Last(T) \in T
    <2> HIDE DEF T
    <2> QED BY <1>1, LastFacts DEF T
  <1> QED BY <1>1, <1>2 DEF TurnsOf

(* A new line leaves the scope of the lines that were there.               *)
LEMMA ScopeLine ==
    ASSUME NEW s, NEW g, NEW p, Extends(g, s, p), NEW n \in 1..(Len(s) + 1)
    PROVE  ScopeOf(g, 0, n) = ScopeOf(s, p, n)
  <1>1. /\ \A i \in 1..Len(s) : g[i] = s[i] /\ RowNo(g, i) = RowNo(s, i)
        /\ \A i \in 1..Len(s) : s[i].type \in {"ROW", "COMMAND"} => WordsRead(g, 0, i) = WordsRead(s, p, i)
        /\ n \in Nat /\ \A i \in 1..(n - 1) : i \in 1..Len(s)
    BY DEF Extends
  <1>2. Given(g, 0, "prcsn", 0) = Given(s, p, "prcsn", 0)
    BY GivenLine
  <1>3. TurnsOf(g, 0, n) = TurnsOf(s, p, n)
    BY <1>1, <1>2 DEF TurnsOf
  <1> DEFINE last == Last(TurnsOf(s, p, n))
  <1>4. CASE TurnsOf(s, p, n) = {}
    BY <1>3, <1>4 DEF ScopeOf
  <1>5. CASE TurnsOf(s, p, n) # {}
    <2>1. last \in 1..Len(s) /\ (s[last].type # "EMPTY" => last \in Given(s, p, "prcsn", 0))
      BY <1>1, <1>5, TurnsFacts
    <2>2. s[last].type # "EMPTY" => s[last].type = "COMMAND"
      BY <2>1 DEF Given
    <2> HIDE DEF last
    <2>3. g[last] = s[last] /\ RowNo(g, last) = RowNo(s, last)
      BY <1>1, <2>1
    <2>4. s[last].type # "EMPTY" => WordsRead(g, 0, last) = WordsRead(s, p, last)
      BY <1>1, <2>1, <2>2
    <2>5. \A k : NoReset(g, last, k) <=> NoReset(s, last, k)
      BY <2>3 DEF NoReset, WordAt
    <2> USE DEF last
    <2> QED BY <1>3, <2>3, <2>4, <2>5 DEF ScopeOf
  <1> QED BY <1>4, <1>5

(* And the rows that the cells inherit from.                               *)
LEMMA DonorsLine ==
    ASSUME NEW s, NEW g, NEW p, Extends(g, s, p), NEW c \in Nat, NEW r \in Nat
    PROVE  Donors(g, 0, c, r) = Donors(s, p, c, r)
  <1>1. \A i \in 1..Len(s) : i \in 1..Len(g) /\ (CellLine(g, 0, c, r, i) <=> CellLine(s, p, c, r, i))
    BY DEF CellLine, RowLine, Extends
  <1>2. ~CellLine(g, 0, c, r, Len(g)) /\ \A i \in 1..Len(g) : i \in 1..Len(s) \/ i = Len(g)
    BY DEF CellLine, Extends
  <1>3. {i \in 1..Len(g) : CellLine(g, 0, c, r, i)} = {i \in 1..Len(s) : CellLine(s, p, c, r, i)}
    BY <1>1, <1>2
  <1>4. \A i \in 1..Len(s) : i \in 1..(Len(s) + 1)
    BY DEF Extends
  <1>5. \A i \in {i \in 1..Len(s) : CellLine(s, p, c, r, i)} : ScopeOf(g, 0, i) = ScopeOf(s, p, i)
    BY <1>4, ScopeLine
  <1> QED BY <1>3, <1>5 DEF Donors

(* The first and the last line of a set, once a later line joins it.       *)
LEMMA AddLast ==
    ASSUME NEW S \in SUBSET Nat, NEW n \in Nat, \A i \in S : i < n
    PROVE  /\ {i \in S \cup {n} : i = Last(S \cup {n})} = {n}
           /\ {i \in S \cup {n} : i = First(S \cup {n})} =
                IF S = {} THEN {n} ELSE {i \in S : i = First(S)}
  <1> DEFINE T == S \cup {n}
  <1>1. T \in SUBSET Nat /\ n \in T /\ \A j \in T : n >= j
    OBVIOUS
  <1> HIDE DEF T
  <1>2. Last(T) = n
    BY <1>1, LastIs
  <1>3. CASE S = {}
    <2>1. T = {n}
      BY <1>3 DEF T
    <2>2. First(T) = n
      BY <1>1, <2>1, FirstIs
    <2> QED BY <1>2, <1>3, <2>1, <2>2 DEF T
  <1>4. CASE S # {}
    <2>1. First(S) \in S /\ \A j \in S : First(S) <= j
      BY <1>4, FirstFacts
    <2>2. First(S) \in T /\ \A j \in T : First(S) <= j
      <3>1. First(S) \in Nat /\ First(S) < n
        BY <2>1
      <3> QED BY <2>1, <3>1 DEF T
    <2>3. First(T) = First(S)
      BY <1>1, <2>2, FirstIs
    <2> QED BY <1>2, <1>4, <2>1, <2>3 DEF T
  <1> QED BY <1>3, <1>4

(* What a word asks for: as an argument of fmt, if no one asked before it; *)
(* as a width, a separator or a precision, whatever was asked before.      *)
Names(s, name) == s[Len(s)].type = "COMMAND" /\ s[Len(s)].words[1].text = name
LastWord(s, p) == WordAt(s, Len(s), p)
FmtGiven(s, p, c)  == Names(s, "fmt") /\ c + 1 = p /\ LastWord(s, p).text # "-"
BarGiven(s, p, c)  == Names(s, "sep") /\ c = p /\ c > 0 /\ LastWord(s, p).text = "|"
PrcsnGiven(s, p, c, r) ==
    Names(s, "prcsn") /\ c + 1 = p /\ RowNo(s, Len(s)) = r /\ NoReset(s, Len(s), p)

(* A word of fmt: the first one for a column is its format, the last width *)
(* its width.                                                              *)
LEMMA FmtAsked ==
    ASSUME NEW s \in Seq(Lines), s # << >>, NEW p \in Nat, NEW c \in Nat
    PROVE  /\ AskedFmt(s, p + 1, c) =
                IF FmtGiven(s, p, c) /\ AskedFmt(s, p, c) = {} THEN {FmtOf(LastWord(s, p))}
                ELSE AskedFmt(s, p, c)
           /\ AskedWidth(s, p + 1, c) =
                IF FmtGiven(s, p, c) /\ LastWord(s, p).width # None THEN {LastWord(s, p).width}
                ELSE AskedWidth(s, p, c)
  <1> DEFINE n == Len(s)
             F == FormatsOf(s, p, c)
             W == WidthsOf(s, p, c)
  <1>1. n \in Nat /\ c + 1 \in Nat
    BY LenProperties
  <1>0. c + 1 = p => LastWord(s, p) = WordAt(s, n, c + 1)
    BY DEF LastWord
  <1> HIDE DEF n
  <1>2. /\ Given(s, p + 1, "fmt", c + 1) =
            IF c + 1 = p /\ Names(s, "fmt") THEN Given(s, p, "fmt", c + 1) \cup {n}
            ELSE Given(s, p, "fmt", c + 1)
        /\ c + 1 >= p => \A i \in Given(s, p, "fmt", c + 1) : i < n
        /\ Given(s, p, "fmt", c + 1) \in SUBSET Nat
    <2>1. /\ Given(s, p + 1, "fmt", c + 1) =
                IF c + 1 = p /\ s[Len(s)].type = "COMMAND" /\ s[Len(s)].words[1].text = "fmt"
                THEN Given(s, p, "fmt", c + 1) \cup {Len(s)} ELSE Given(s, p, "fmt", c + 1)
          /\ c + 1 >= p => \A i \in Given(s, p, "fmt", c + 1) : i < Len(s)
          /\ Given(s, p, "fmt", c + 1) \in SUBSET Nat
      BY <1>1, GivenWord
    <2> QED BY <2>1 DEF Names, n
  <1>3. F \in SUBSET Nat /\ W \in SUBSET F /\ (c + 1 >= p => \A i \in F : i < n)
    BY <1>2 DEF FormatsOf, WidthsOf
  <1>4. CASE ~FmtGiven(s, p, c)
    <2>1. FormatsOf(s, p + 1, c) = F
      BY <1>0, <1>2, <1>4 DEF FormatsOf, FmtGiven
    <2>2. WidthsOf(s, p + 1, c) = W
      BY <2>1 DEF WidthsOf
    <2> QED BY <1>4, <2>1, <2>2 DEF AskedFmt, AskedWidth
  <1>5. CASE FmtGiven(s, p, c)
    <2>1. c + 1 = p /\ c + 1 >= p /\ LastWord(s, p).text # "-" /\ LastWord(s, p) = WordAt(s, n, c + 1)
      BY <1>0, <1>1, <1>5 DEF FmtGiven
    <2>2. FormatsOf(s, p + 1, c) = F \cup {n}
      BY <1>2, <1>5, <2>1 DEF FormatsOf, FmtGiven
    <2>3. WidthsOf(s, p + 1, c) = IF LastWord(s, p).width # None THEN W \cup {n} ELSE W
      BY <2>1, <2>2 DEF WidthsOf
    <2> HIDE DEF n, F, W
    <2>4. /\ {i \in F \cup {n} : i = First(F \cup {n})} = IF F = {} THEN {n} ELSE {i \in F : i = First(F)}
          /\ {i \in W \cup {n} : i = Last(W \cup {n})} = {n}
      <3>1. W \in SUBSET Nat /\ (\A i \in W : i < n) /\ (\A i \in F : i < n)
        BY <1>3, <2>1
      <3> QED BY <1>1, <1>3, <3>1, AddLast
    <2>5. AskedWidth(s, p + 1, c) =
            IF LastWord(s, p).width # None THEN {LastWord(s, p).width} ELSE AskedWidth(s, p, c)
      BY <2>1, <2>3, <2>4 DEF AskedWidth, W
    <2>6. AskedFmt(s, p, c) = {} <=> F = {}
      <3>1. F # {} => First(F) \in F
        BY <1>3, FirstFacts
      <3> QED BY <3>1 DEF AskedFmt, F
    <2>7. CASE F = {}
      <3>1. AskedFmt(s, p + 1, c) = {FmtOf(WordAt(s, i, c + 1)) : i \in {n}}
        BY <2>2, <2>4, <2>7 DEF AskedFmt
      <3> QED BY <1>5, <2>1, <2>5, <2>6, <2>7, <3>1
    <2>8. CASE F # {}
      <3>1. AskedFmt(s, p + 1, c) = AskedFmt(s, p, c)
        BY <2>2, <2>4, <2>8 DEF AskedFmt, F
      <3> QED BY <1>5, <2>5, <2>6, <2>8, <3>1
    <2> QED BY <2>7, <2>8
  <1> QED BY <1>4, <1>5

(* A word of sep: the columns it names have a bar.                         *)
LEMMA BarAsked ==
    ASSUME NEW s \in Seq(Lines), s # << >>, NEW p \in Nat, NEW c \in Nat
    PROVE  BarsOf(s, p + 1, c) = {} <=> BarsOf(s, p, c) = {} /\ ~BarGiven(s, p, c)
  <1>1. Given(s, p + 1, "sep", c) =
            IF c = p /\ Names(s, "sep") THEN Given(s, p, "sep", c) \cup {Len(s)}
            ELSE Given(s, p, "sep", c)
    BY GivenWord DEF Names
  <1> QED BY <1>1 DEF BarsOf, BarGiven, LastWord

(* A word of prcsn: it is the last one for its cell.                       *)
LEMMA PrcsnAsked ==
    ASSUME NEW s \in Seq(Lines), s # << >>, NEW p \in Nat, NEW c \in Nat, NEW r \in Nat
    PROVE  AskedPrcsn(s, p + 1, c, r) =
                IF PrcsnGiven(s, p, c, r) THEN {PrcsnOf(LastWord(s, p))} ELSE AskedPrcsn(s, p, c, r)
  <1> DEFINE n == Len(s)
             D == DirectOf(s, p, c, r)
  <1>1. n \in Nat /\ c + 1 \in Nat
    BY LenProperties
  <1>0. c + 1 = p => LastWord(s, p) = WordAt(s, n, c + 1)
    BY DEF LastWord
  <1> HIDE DEF n
  <1>2. /\ Given(s, p + 1, "prcsn", c + 1) =
            IF c + 1 = p /\ Names(s, "prcsn") THEN Given(s, p, "prcsn", c + 1) \cup {n}
            ELSE Given(s, p, "prcsn", c + 1)
        /\ c + 1 >= p => \A i \in Given(s, p, "prcsn", c + 1) : i < n
        /\ Given(s, p, "prcsn", c + 1) \in SUBSET Nat
    <2>1. /\ Given(s, p + 1, "prcsn", c + 1) =
                IF c + 1 = p /\ s[Len(s)].type = "COMMAND" /\ s[Len(s)].words[1].text = "prcsn"
                THEN Given(s, p, "prcsn", c + 1) \cup {Len(s)} ELSE Given(s, p, "prcsn", c + 1)
          /\ c + 1 >= p => \A i \in Given(s, p, "prcsn", c + 1) : i < Len(s)
          /\ Given(s, p, "prcsn", c + 1) \in SUBSET Nat
      BY <1>1, GivenWord
    <2> QED BY <2>1 DEF Names, n
  <1>3. D \in SUBSET Nat /\ (c + 1 >= p => \A i \in D : i < n)
    BY <1>2 DEF DirectOf
  <1>4. CASE ~PrcsnGiven(s, p, c, r)
    <2>1. DirectOf(s, p + 1, c, r) = D
      BY <1>2, <1>4 DEF DirectOf, PrcsnGiven, n
    <2> QED BY <1>4, <2>1 DEF AskedPrcsn
  <1>5. CASE PrcsnGiven(s, p, c, r)
    <2>1. c + 1 = p /\ c + 1 >= p /\ LastWord(s, p) = WordAt(s, n, c + 1)
      BY <1>0, <1>1, <1>5 DEF PrcsnGiven
    <2>2. DirectOf(s, p + 1, c, r) = D \cup {n}
      BY <1>2, <1>5, <2>1 DEF DirectOf, PrcsnGiven, n
    <2> HIDE DEF n, D
    <2>3. {i \in D \cup {n} : i = Last(D \cup {n})} = {n}
      BY <1>1, <1>3, <2>1, AddLast
    <2> QED BY <1>5, <2>1, <2>2, <2>3 DEF AskedPrcsn
  <1> QED BY <1>4, <1>5

(* A line that turns nothing, and one that does.                           *)
LEMMA ScopeSkip ==
    ASSUME NEW s, NEW p, NEW n \in Nat \ {0}, n \notin Given(s, p, "prcsn", 0), s[n].type # "EMPTY"
    PROVE  ScopeOf(s, p, n + 1) = ScopeOf(s, p, n)
  <1>1. n + 1 - 1 = n /\ \A i : i \in 1..n <=> i \in 1..(n - 1) \/ i = n
    OBVIOUS
  <1>2. TurnsOf(s, p, n + 1) = TurnsOf(s, p, n)
    BY <1>1 DEF TurnsOf
  <1> QED BY <1>2 DEF ScopeOf

(* A command that is or becomes a turn decides the scope of what follows.  *)
LEMMA ScopeTurn ==
    ASSUME NEW s, NEW p, NEW n \in Nat \ {0}, n \in Given(s, p, "prcsn", 0) \/ s[n].type = "EMPTY"
    PROVE  ScopeOf(s, p, n + 1) =
                IF s[n].type = "EMPTY" \/ ~NoReset(s, n, WordsRead(s, p, n) - 1)
                THEN {} ELSE {RowNo(s, n)}
  <1> DEFINE T == TurnsOf(s, p, n + 1)
  <1>1. n \in T /\ T \in SUBSET Nat /\ \A j \in T : n >= j
    <2>1. n + 1 - 1 = n
      OBVIOUS
    <2> QED BY <2>1 DEF TurnsOf
  <1> HIDE DEF T
  <1>2. Last(T) = n /\ T # {}
    BY <1>1, LastIs
  <1> QED BY <1>2 DEF ScopeOf, T

(* A word changes what the lines after its own inherit, if it is one of a  *)
(* prcsn: the row to come, or nothing after a reset.                       *)
LEMMA ScopeWord ==
    ASSUME NEW s \in Seq(Lines), s # << >>, NEW p \in Nat, s[Len(s)].type # "EMPTY"
    PROVE  /\ \A i \in 1..Len(s) : ScopeOf(s, p + 1, i) = ScopeOf(s, p, i)
           /\ ScopeOf(s, p + 1, Len(s) + 1) =
                IF ~Names(s, "prcsn") THEN ScopeOf(s, p, Len(s) + 1)
                ELSE IF NoReset(s, Len(s), p) THEN {RowNo(s, Len(s))} ELSE {}
  <1> DEFINE n == Len(s)
  <1>1. n \in Nat \ {0} /\ 0 \in Nat
    BY EmptySeq, LenProperties
  <1>2. Given(s, p + 1, "prcsn", 0) =
            IF 0 = p /\ s[Len(s)].type = "COMMAND" /\ s[Len(s)].words[1].text = "prcsn"
            THEN Given(s, p, "prcsn", 0) \cup {Len(s)} ELSE Given(s, p, "prcsn", 0)
    BY <1>1, GivenWord
  <1>3. Given(s, p + 1, "prcsn", 0) =
            IF 0 = p /\ Names(s, "prcsn") THEN Given(s, p, "prcsn", 0) \cup {n}
            ELSE Given(s, p, "prcsn", 0)
    BY <1>2 DEF Names
  <1>4. ASSUME NEW i \in 1..n PROVE ScopeOf(s, p + 1, i) = ScopeOf(s, p, i)
    <2>1. TurnsOf(s, p + 1, i) = TurnsOf(s, p, i)
      BY <1>1, <1>3 DEF TurnsOf
    <2>2. CASE TurnsOf(s, p, i) = {}
      BY <2>1, <2>2 DEF ScopeOf
    <2>3. CASE TurnsOf(s, p, i) # {}
      <3>1. i \in Nat
        OBVIOUS
      <3>2. Last(TurnsOf(s, p, i)) \in 1..(i - 1)
        BY <2>3, <3>1, TurnsFacts
      <3>3. WordsRead(s, p + 1, Last(TurnsOf(s, p, i))) = WordsRead(s, p, Last(TurnsOf(s, p, i)))
        BY <1>1, <3>2 DEF WordsRead
      <3> QED BY <2>1, <3>3 DEF ScopeOf
    <2> QED BY <2>2, <2>3
  <1>5. CASE Names(s, "prcsn")
    <2>1. n \in Given(s, p + 1, "prcsn", 0)
      <3>1. 0 < p + 1 /\ n \in 1..n
        BY <1>1
      <3> QED BY <1>5, <3>1 DEF Given, Names, WordsRead
    <2>2. WordsRead(s, p + 1, n) - 1 = p
      BY DEF WordsRead
    <2>3. ScopeOf(s, p + 1, n + 1) =
                IF s[n].type = "EMPTY" \/ ~NoReset(s, n, WordsRead(s, p + 1, n) - 1)
                THEN {} ELSE {RowNo(s, n)}
      <3> HIDE DEF n
      <3> QED BY <1>1, <2>1, ScopeTurn
    <2>4. ScopeOf(s, p + 1, n + 1) = IF NoReset(s, n, p) THEN {RowNo(s, n)} ELSE {}
      BY <2>2, <2>3
    <2> QED BY <1>4, <1>5, <2>4
  <1>6. CASE ~Names(s, "prcsn")
    <2>1. n \notin Given(s, p + 1, "prcsn", 0) /\ n \notin Given(s, p, "prcsn", 0)
      BY <1>6 DEF Given, Names
    <2>2. ScopeOf(s, p + 1, n + 1) = ScopeOf(s, p + 1, n) /\ ScopeOf(s, p, n + 1) = ScopeOf(s, p, n)
      BY <1>1, <2>1, ScopeSkip
    <2>3. n \in 1..n
      BY <1>1
    <2> QED BY <1>4, <1>6, <2>2, <2>3
  <1> QED BY <1>5, <1>6

(* What the lines after a new line inherit: nothing, if it is blank. *)
LEMMA ScopeNext ==
    ASSUME NEW s, NEW g, NEW p, Extends(g, s, p)
    PROVE  ScopeOf(g, 0, Len(g) + 1) =
                IF g[Len(g)].type = "EMPTY" THEN {} ELSE ScopeOf(s, p, Len(s) + 1)
  <1>1. Len(g) = Len(s) + 1 /\ Len(g) \in Nat \ {0} /\ Len(g) \in 1..(Len(s) + 1)
    BY DEF Extends
  <1>2. Len(g) \notin Given(g, 0, "prcsn", 0)
    BY DEF Given, Extends
  <1>3. CASE g[Len(g)].type = "EMPTY"
    BY <1>1, <1>3, ScopeTurn
  <1>4. CASE g[Len(g)].type # "EMPTY"
    <2>1. ScopeOf(g, 0, Len(g) + 1) = ScopeOf(g, 0, Len(g))
      BY <1>1, <1>2, <1>4, ScopeSkip
    <2> QED BY <1>1, <1>4, <2>1, ScopeLine
  <1> QED BY <1>3, <1>4

(* The rows a line can inherit from are not after it. *)
LEMMA ScopeRows ==
    ASSUME NEW s, NEW p, NEW i \in Nat \ {0}, NEW k \in ScopeOf(s, p, i)
    PROVE  k \in Nat /\ k <= RowNo(s, i)
  <1>1. TurnsOf(s, p, i) # {} /\ k = RowNo(s, Last(TurnsOf(s, p, i)))
    BY DEF ScopeOf
  <1> DEFINE j == Last(TurnsOf(s, p, i))
  <1>2. j \in 1..(i - 1)
    BY <1>1, TurnsFacts
  <1> HIDE DEF j
  <1>3. j \in Nat \ {0} /\ j <= i
    BY <1>2
  <1>4. RowNo(s, j) \in Nat /\ RowNo(s, j) <= RowNo(s, i)
    BY <1>3, RowNoFacts, RowNoOrder
  <1> QED BY <1>1, <1>4 DEF j

(* A row is one line. *)
LEMMA OneLine ==
    ASSUME NEW s \in Seq(Lines), NEW i, NEW j, RowLine(s, i), RowLine(s, j),
           RowNo(s, i) = RowNo(s, j)
    PROVE  i = j
  <1>1. Len(s) \in Nat
    BY LenProperties
  <1>2. i \in Nat \ {0} /\ j \in Nat \ {0} /\ s[i].type = "ROW" /\ s[j].type = "ROW"
    BY <1>1 DEF RowLine
  <1>3. RowNo(s, i) \in Nat /\ RowNo(s, j) \in Nat
    BY <1>2, RowNoFacts
  <1>4. ~(i < j)
    BY <1>2, <1>3, RowNoOrder
  <1>5. ~(j < i)
    BY <1>2, <1>3, RowNoOrder
  <1> QED BY <1>2, <1>4, <1>5

(* The rows a cell inherits from are those of the scope of its line.       *)
LEMMA DonorsFacts ==
    ASSUME NEW s \in Seq(Lines), NEW p, NEW c, NEW r
    PROVE  /\ \A i : CellLine(s, p, c, r, i) => Donors(s, p, c, r) = ScopeOf(s, p, i)
           /\ \A k \in Donors(s, p, c, r) : k \in Nat /\ k <= r /\ \E i : CellLine(s, p, c, r, i)
  <1>1. ASSUME NEW i, CellLine(s, p, c, r, i) PROVE Donors(s, p, c, r) = ScopeOf(s, p, i)
    <2>1. \A j : CellLine(s, p, c, r, j) => j = i
      BY <1>1, OneLine DEF CellLine
    <2>2. i \in 1..Len(s)
      BY <1>1 DEF CellLine, RowLine
    <2>3. {j \in 1..Len(s) : CellLine(s, p, c, r, j)} = {i}
      BY <1>1, <2>1, <2>2
    <2> QED BY <2>3 DEF Donors
  <1>2. ASSUME NEW k \in Donors(s, p, c, r)
        PROVE  k \in Nat /\ k <= r /\ \E i : CellLine(s, p, c, r, i)
    <2>1. PICK i \in 1..Len(s) : CellLine(s, p, c, r, i) /\ k \in ScopeOf(s, p, i)
      BY DEF Donors
    <2>2. i \in Nat \ {0} /\ RowNo(s, i) = r
      BY <2>1, LenProperties DEF CellLine
    <2>3. k \in Nat /\ k <= RowNo(s, i)
      BY <2>1, <2>2, ScopeRows
    <2> QED BY <2>1, <2>2, <2>3
  <1> QED BY <1>1, <1>2

(* A cell inherits when it is read, and not before.                        *)
LEMMA DonorsWord ==
    ASSUME NEW s \in Seq(Lines), s # << >>, NEW p \in Nat, s[Len(s)].type # "EMPTY",
           NEW c \in Nat, NEW r \in Nat
    PROVE  IF s[Len(s)].type = "ROW" /\ RowNo(s, Len(s)) = r /\ c = p
           THEN Donors(s, p + 1, c, r) = ScopeOf(s, p, Len(s)) /\ Donors(s, p, c, r) = {}
           ELSE Donors(s, p + 1, c, r) = Donors(s, p, c, r)
  <1> DEFINE n == Len(s)
  <1>1. n \in Nat \ {0} /\ n \in 1..n
    BY EmptySeq, LenProperties
  <1>2. \A i \in 1..n : ScopeOf(s, p + 1, i) = ScopeOf(s, p, i)
    BY ScopeWord
  <1>3. \A i : i # n => (CellLine(s, p + 1, c, r, i) <=> CellLine(s, p, c, r, i))
    BY DEF CellLine, WordsRead
  <1>4. /\ CellLine(s, p + 1, c, r, n) <=> RowLine(s, n) /\ RowNo(s, n) = r /\ c < p + 1
        /\ CellLine(s, p, c, r, n) <=> RowLine(s, n) /\ RowNo(s, n) = r /\ c < p
    BY DEF CellLine, WordsRead
  <1>5. CASE s[n].type = "ROW" /\ RowNo(s, n) = r /\ c = p
    <2>1. RowLine(s, n) /\ c < p + 1 /\ ~(c < p)
      BY <1>1, <1>5 DEF RowLine
    <2>2. Donors(s, p + 1, c, r) = ScopeOf(s, p + 1, n)
      BY <1>4, <1>5, <2>1, DonorsFacts
    <2>3. \A i : ~CellLine(s, p, c, r, i)
      <3>1. \A i : CellLine(s, p, c, r, i) => i = n
        BY <1>5, <2>1, OneLine DEF CellLine
      <3> QED BY <1>4, <2>1, <3>1
    <2>4. Donors(s, p, c, r) = {}
      BY <2>3 DEF Donors
    <2> QED BY <1>1, <1>2, <1>5, <2>2, <2>4
  <1>6. CASE ~(s[n].type = "ROW" /\ RowNo(s, n) = r /\ c = p)
    <2>1. CellLine(s, p + 1, c, r, n) <=> CellLine(s, p, c, r, n)
      <3>1. c < p + 1 <=> c < p \/ c = p
        OBVIOUS
      <3> QED BY <1>4, <1>6, <3>1 DEF RowLine
    <2>2. {i \in 1..n : CellLine(s, p + 1, c, r, i)} = {i \in 1..n : CellLine(s, p, c, r, i)}
      BY <1>3, <2>1
    <2>3. Donors(s, p + 1, c, r) = Donors(s, p, c, r)
      BY <1>2, <2>2 DEF Donors
    <2> QED BY <1>6, <2>3
  <1> QED BY <1>5, <1>6

-----------------------------------------------------------------------------
(* The command that is read, and that a line is done before the next.      *)

CommandInv ==
    /\ pc = "COMMAND" =>
        /\ state = "FIRST" <=> pos = 0
        /\ state = "FMT" <=> pos > 0 /\ Line.words[1].text = "fmt"
        /\ state = "SEP" <=> pos > 0 /\ Line.words[1].text = "sep"
        /\ state = "PRCSN" <=> /\ pos > 0 /\ Line.words[1].text = "prcsn"
                               /\ NoReset(lines, Len(lines), pos - 1)
    /\ pc \notin {"ROW", "COMMAND", "ABORTED"} => Whole(lines, pos)

(* CommandInv is an invariant: at first no line is read.                   *)
LEMMA CommandInvInit == Init => CommandInv
  BY DEF Init, LoaderInit, CommandInv, Whole

(* An argument leaves the command as it is, but for reset, and for the     *)
(* commands that have one argument.                                        *)
LEMMA CommandWords ==
    ASSUME IInv, CommandInv, SepWord \/ FmtWord \/ PrcsnWord \/ SummaryWord \/ DefineWord \/ ExtraWord
    PROVE  CommandInv'
  <1>0. pos \in Nat /\ WordOf("COMMAND")
    BY DEF IInv, LoopInv, SepWord, FmtWord, PrcsnWord, SummaryWord, DefineWord, ExtraWord, Argument
  <1>1. pc = "COMMAND" /\ (state # "FIRST" => pos > 0)
    BY <1>0 DEF WordOf, CommandInv
  <1>2. CASE Stop
    BY <1>2 DEF CommandInv, Stop
  <1>3. CASE ~Stop
    <2>1. SepWord \/ FmtWord \/ ExtraWord => Done /\ state' = state /\ state \in {"SEP", "FMT", "ERROR"}
      BY <1>3 DEF SepWord, FmtWord, ExtraWord, Argument
    <2>2. PrcsnWord => /\ Done /\ state = "PRCSN"
                       /\ IF Word.text = "reset" THEN state' = "ERROR" ELSE state' = state
      BY <1>3 DEF PrcsnWord, Argument
    <2>3. SummaryWord => Done /\ state' = "ERROR" /\ state = "SUMMARY"
      BY <1>3 DEF SummaryWord, Argument
    <2>4. DefineWord => Done /\ state' = "ERROR" /\ state = "DEFINE"
      BY <1>3 DEF DefineWord, Argument
    <2>5. pos' = pos + 1 /\ pc' = pc /\ lines' = lines /\ state # "FIRST"
      BY <2>1, <2>2, <2>3, <2>4 DEF Done
    <2>6. \/ state' = state /\ state \in {"SEP", "FMT", "ERROR"}
          \/ state' = state /\ state = "PRCSN" /\ Word.text # "reset"
          \/ state' = "ERROR" /\ state = "PRCSN" /\ Word.text = "reset"
          \/ state' = "ERROR" /\ state \in {"SUMMARY", "DEFINE"}
      BY <2>1, <2>2, <2>3, <2>4
    <2>7. Line' = Line /\ pos > 0 /\ pos' > 0 /\ pos' # 0 /\ pos' - 1 = pos
      BY <1>0, <1>1, <2>5 DEF Line
    <2>8. NoReset(lines, Len(lines), pos) <=> NoReset(lines, Len(lines), pos - 1) /\ Word.text # "reset"
      <3>1. \A j : j \in 1..pos <=> j \in 1..(pos - 1) \/ j = pos
        BY <1>0, <2>7
      <3>2. WordAt(lines, Len(lines), pos) = Word
        BY DEF WordAt, Word, Line
      <3> QED BY <3>1, <3>2 DEF NoReset
    <2>9. NoReset(lines, Len(lines), pos - 1)' <=>
              NoReset(lines, Len(lines), pos - 1) /\ Word.text # "reset"
      <3>1. NoReset(lines, Len(lines), pos - 1)' <=> NoReset(lines, Len(lines), pos)
        BY <2>5, <2>7 DEF NoReset, WordAt
      <3> QED BY <2>8, <3>1
    <2> QED BY <1>1, <2>5, <2>6, <2>7, <2>9 DEF CommandInv
  <1> QED BY <1>2, <1>3

(* CommandInv is kept by every step.                                       *)
LEMMA CommandInvNext == IInv /\ RowInv' /\ CommandInv /\ [Next]_vars => CommandInv'
  <1> SUFFICES ASSUME IInv, RowInv', CommandInv, [Next]_vars PROVE CommandInv'
    OBVIOUS
  <1>0. pos \in Nat
    BY DEF IInv, LoopInv
  <1>1. ASSUME NEW l \in Lines, EmptyLine(l) \/ CommentLine(l) \/ WordsLine(l) PROVE CommandInv'
    <2>1. /\ Read(l) /\ pos' = 0 /\ state' = "FIRST"
          /\ \/ pc' \in {"ROW", "COMMAND"}
             \/ l.type \in {"EMPTY", "COMMENT"}
      BY <1>1 DEF EmptyLine, CommentLine, WordsLine, Read
    <2>2. lines'[Len(lines')] = l
      BY <2>1, ReadFacts
    <2> QED BY <2>1, <2>2 DEF CommandInv, Whole
  <1>2. CASE CommandName
    <2>1. /\ pc = "COMMAND" /\ pos = 0 /\ pos' = 1 /\ pc' = pc /\ lines' = lines
          /\ state' = IF Word.text \in DOMAIN Commands THEN Commands[Word.text] ELSE "ERROR"
      BY <1>2 DEF CommandName, Argument, WordOf, Done, CommandInv
    <2>2. Word = Line.words[1] /\ Line' = Line
      BY <2>1 DEF Word, Line
    <2>3. /\ state' # "FIRST"
          /\ state' = "FMT" <=> Word.text = "fmt"
          /\ state' = "SEP" <=> Word.text = "sep"
          /\ state' = "PRCSN" <=> Word.text = "prcsn"
      BY <2>1 DEF Commands
    <2>4. NoReset(lines, Len(lines), pos - 1)'
      BY <2>1 DEF NoReset
    <2> QED BY <2>1, <2>2, <2>3, <2>4 DEF CommandInv
  <1>3. CASE SepWord \/ FmtWord \/ PrcsnWord \/ SummaryWord \/ DefineWord \/ ExtraWord
    BY <1>3, CommandWords
  <1>4. CASE RowCell
    BY <1>4 DEF RowCell, WordOf, Done, Stop, CommandInv
  <1>5. CASE EndRow \/ EndCommand
    <2>1. /\ pc \in {"ROW", "COMMAND"} /\ ~More /\ lines' = lines /\ pos' = pos /\ pc' = "READ"
      BY <1>5 DEF EndRow, EndCommand
    <2>2. lines # << >> /\ Line.type = pc /\ pos <= Len(Line.words) /\ lines \in Seq(Lines)
      BY <2>1 DEF IInv, LoopInv
    <2>3. Line \in Lines
      BY <2>2, EmptySeq, LenProperties, ElementOfSeq DEF Line
    <2>4. Len(Line.words) \in Nat
      <3>1. Line.words \in Seq(IF Line.type = "ROW" THEN CellText ELSE CommandWord)
        BY <2>3, LinesAssumption
      <3> QED BY <3>1, LenProperties
    <2>5. pos = Len(Line.words)
      BY <1>0, <2>1, <2>2, <2>4 DEF More
    <2> QED BY <2>1, <2>5 DEF CommandInv, Whole, Line
  <1>6. CASE \/ EndOfFile \/ Evaluate \/ CompleteFormats \/ PrintRow \/ EndPrint \/ Again \/ Exit
             \/ UNCHANGED vars
    <2>1. UNCHANGED <<lines, pos, state>>
      BY <1>6 DEF EndOfFile, Evaluate, CompleteFormats, PrintRow, EndPrint, Again, Exit, docVars, vars
    <2>2. pc' = pc \/ (pc \notin {"ROW", "COMMAND", "ABORTED"} /\ pc' \notin {"ROW", "COMMAND"})
      BY <1>6 DEF EndOfFile, Evaluate, CompleteFormats, PrintRow, EndPrint, Again, Exit, vars
    <2>3. Line' = Line
      BY <2>1 DEF Line
    <2> QED BY <2>1, <2>2, <2>3 DEF CommandInv, NoReset, WordAt, Whole
  <1> QED BY <1>1, <1>2, <1>3, <1>4, <1>5, <1>6 DEF Next, LoaderNext

(* Every behaviour keeps it.                                               *)
LEMMA AlwaysCommandInv == Spec => []CommandInv
  BY CommandInvInit, CommandInvNext, AlwaysIInv, AlwaysRowInv, PTL DEF Spec

(* What the next word of a command asks for, by the state of the loop.     *)
LEMMA WordMeans ==
    ASSUME IInv, RowInv, CommandInv, WordOf("COMMAND")
    PROVE  /\ lines \in Seq(Lines) /\ lines # << >> /\ Line.type = "COMMAND" /\ Line = lines[Len(lines)]
           /\ LastWord(lines, pos) = Word /\ Word \in CommandWord /\ pos \in Nat
           /\ RowNo(lines, Len(lines)) = rowIdx /\ rowIdx \in Nat
           /\ \A c \in Nat : FmtGiven(lines, pos, c) <=> state = "FMT" /\ c = pos - 1 /\ Word.text # "-"
           /\ \A c \in Nat : BarGiven(lines, pos, c) <=> state = "SEP" /\ c = pos /\ Word.text = "|"
           /\ \A c, r \in Nat :
                PrcsnGiven(lines, pos, c, r) <=>
                    state = "PRCSN" /\ c = pos - 1 /\ r = rowIdx /\ Word.text # "reset"
           /\ Names(lines, "prcsn") /\ NoReset(lines, Len(lines), pos) <=>
                    \/ state = "PRCSN" /\ Word.text # "reset"
                    \/ state = "FIRST" /\ Word.text = "prcsn"
           /\ state \in {"FMT", "SEP"} \/ (state = "FIRST" /\ Word.text # "prcsn") => ~Names(lines, "prcsn")
  <1>1. /\ Line.type = "COMMAND" /\ Word \in CommandWord /\ lines # << >> /\ pos \in Nat /\ pc = "COMMAND"
        /\ lines \in Seq(Lines) /\ rowIdx \in Nat /\ Len(lines) \in Nat \ {0}
    <2>1. pos \in Nat /\ lines \in Seq(Lines) /\ rowIdx \in Nat
      BY DEF IInv, LoopInv
    <2> QED BY <2>1, WordFacts DEF IInv
  <1>2. LastWord(lines, pos) = Word /\ Line = lines[Len(lines)]
    BY DEF LastWord, WordAt, Word, Line
  <1>3. RowNo(lines, Len(lines)) = rowIdx
    <2>1. RowNo(lines, Len(lines) + 1) = RowNo(lines, Len(lines))
      BY <1>1, <1>2, RowNoFacts
    <2> QED BY <1>1, <2>1 DEF RowInv
  <1>4. \A name : Names(lines, name) <=> Line.words[1].text = name
    BY <1>1, <1>2 DEF Names
  <1>5. pos = 0 => Word = Line.words[1]
    BY DEF Word
  <1>6. NoReset(lines, Len(lines), pos) <=>
            \/ pos = 0
            \/ NoReset(lines, Len(lines), pos - 1) /\ Word.text # "reset"
    <2>1. pos > 0 => \A j : j \in 1..pos <=> j \in 1..(pos - 1) \/ j = pos
      BY <1>1
    <2>2. WordAt(lines, Len(lines), pos) = Word
      BY <1>2 DEF LastWord
    <2>3. pos = 0 => 1..pos = {}
      OBVIOUS
    <2> QED BY <1>1, <2>1, <2>2, <2>3 DEF NoReset
  <1>7. /\ state = "FIRST" <=> pos = 0
        /\ state = "FMT" <=> pos > 0 /\ Names(lines, "fmt")
        /\ state = "SEP" <=> pos > 0 /\ Names(lines, "sep")
        /\ state = "PRCSN" <=> pos > 0 /\ Names(lines, "prcsn") /\ NoReset(lines, Len(lines), pos - 1)
    BY <1>1, <1>4 DEF CommandInv
  <1>8. \A c \in Nat : c + 1 = pos <=> pos > 0 /\ c = pos - 1
    BY <1>1
  <1>9. \A c \in Nat : FmtGiven(lines, pos, c) <=> state = "FMT" /\ c = pos - 1 /\ Word.text # "-"
    BY <1>2, <1>7, <1>8 DEF FmtGiven
  <1>10. \A c \in Nat : BarGiven(lines, pos, c) <=> state = "SEP" /\ c = pos /\ Word.text = "|"
    BY <1>2, <1>7 DEF BarGiven
  <1>11. \A c, r \in Nat :
                PrcsnGiven(lines, pos, c, r) <=>
                    state = "PRCSN" /\ c = pos - 1 /\ r = rowIdx /\ Word.text # "reset"
    <2> SUFFICES ASSUME NEW c \in Nat, NEW r \in Nat
                 PROVE  PrcsnGiven(lines, pos, c, r) <=>
                            state = "PRCSN" /\ c = pos - 1 /\ r = rowIdx /\ Word.text # "reset"
      OBVIOUS
    <2>1. PrcsnGiven(lines, pos, c, r) <=>
                Names(lines, "prcsn") /\ c + 1 = pos /\ rowIdx = r /\ NoReset(lines, Len(lines), pos)
      BY <1>3 DEF PrcsnGiven
    <2>2. c + 1 = pos <=> pos > 0 /\ c = pos - 1
      BY <1>8
    <2>3. pos > 0 => pos # 0
      OBVIOUS
    <2> QED BY <1>6, <1>7, <2>1, <2>2, <2>3
  <1>12. /\ Names(lines, "prcsn") /\ NoReset(lines, Len(lines), pos) <=>
                    \/ state = "PRCSN" /\ Word.text # "reset"
                    \/ state = "FIRST" /\ Word.text = "prcsn"
         /\ state \in {"FMT", "SEP"} \/ (state = "FIRST" /\ Word.text # "prcsn") => ~Names(lines, "prcsn")
    <2>1. Names(lines, "prcsn") => ~Names(lines, "fmt") /\ ~Names(lines, "sep")
      BY <1>4
    <2>2. pos = 0 => (Names(lines, "prcsn") <=> Word.text = "prcsn")
      BY <1>4, <1>5
    <2>3. pos > 0 <=> pos # 0
      BY <1>1
    <2> QED BY <1>6, <1>7, <2>1, <2>2, <2>3
  <1> QED BY <1>1, <1>2, <1>3, <1>9, <1>10, <1>11, <1>12

-----------------------------------------------------------------------------
(* What the cells and columns hold of what was asked for, while the lines  *)
(* are read.                                                               *)

(* A format h of a cell, if the formats F are asked for its column, the    *)
(* precisions D for itself, I for the row it inherits from, T for the top. *)
CellMeans(F, D, I, T, h) ==
    /\ D # {} => "PRCSN" \in h.set /\ h.prcsn \in D
    /\ D = {} /\ I # {} => "PRCSN" \in h.set /\ h.prcsn \in I
    /\ D = {} /\ I = {} /\ "PRCSN" \in h.set => T = {} /\ h.prcsn \in {f.prcsn : f \in F}
    /\ "ALIGN" \in h.set => h.align \in {f.align : f \in F}

Inherited(s, p, c, r) == UNION {AskedPrcsn(s, p, c, k) : k \in Donors(s, p, c, r)}

(* The top of a column has a whole format once fmt gave one; a row below   *)
(* that inherited nothing has no format but its own precision.             *)
FormatOK(t, s, p, c, r) ==
    LET h == CellAt(t, c, r).fmt IN
    /\ CellMeans(AskedFmt(s, p, c), AskedPrcsn(s, p, c, r), Inherited(s, p, c, r),
                 AskedPrcsn(s, p, c, 0), h)
    /\ r = 0 /\ AskedFmt(s, p, c) # {} => h.set = {"ALIGN", "PRCSN"}
    /\ r # 0 /\ Donors(s, p, c, r) \subseteq {r} =>
            "ALIGN" \notin h.set /\ ("PRCSN" \in h.set => AskedPrcsn(s, p, c, r) # {})

ColumnOK(t, s, p, c) ==
    /\ AskedWidth(s, p, c) = {} => ColumnAt(t, c).width = DefaultColumn.width
    /\ \A w \in AskedWidth(s, p, c) : ColumnAt(t, c).width = Larger(w, MinWidth)
    /\ ColumnAt(t, c).sep = IF BarsOf(s, p, c) = {} THEN DefaultColumn.sep ELSE Bar

(* Where the rows inherit from: that row itself inherits from no other.    *)
ScopeInv ==
    Loading =>
        /\ ScopeOf(lines, pos, Len(lines) + 1) = IF fmtRowIdx = -1 THEN {} ELSE {fmtRowIdx}
        /\ fmtRowIdx >= 0 => \A c \in Nat : Donors(lines, pos, c, fmtRowIdx) \subseteq {fmtRowIdx}

ColumnsInv == \A c \in Nat : ColumnOK(table, lines, pos, c)

FormatsInv ==
    Loading \/ (pc \in {"LOADED", "EVALUATED"} /\ before = << >>) =>
        \A c, r \in Nat : FormatOK(table, lines, pos, c, r)

(* Formats depend on what is asked for and on what the cell holds.         *)
LEMMA FormatSame ==
    ASSUME NEW t, NEW g, NEW s, NEW p, NEW e, NEW q, NEW c \in Nat, NEW r \in Nat,
           FormatOK(t, s, p, c, r), CellAt(g, c, r).fmt = CellAt(t, c, r).fmt,
           AskedFmt(e, q, c) = AskedFmt(s, p, c),
           \A k \in Nat : AskedPrcsn(e, q, c, k) = AskedPrcsn(s, p, c, k),
           Donors(e, q, c, r) = Donors(s, p, c, r), Donors(s, p, c, r) \in SUBSET Nat
    PROVE  FormatOK(g, e, q, c, r)
  <1>1. Inherited(e, q, c, r) = Inherited(s, p, c, r)
    BY DEF Inherited
  <1>2. AskedPrcsn(e, q, c, r) = AskedPrcsn(s, p, c, r) /\ AskedPrcsn(e, q, c, 0) = AskedPrcsn(s, p, c, 0)
    OBVIOUS
  <1> QED BY <1>1, <1>2 DEF FormatOK

(* The rows that are read are above the row that is read next.             *)
LEMMA RowsAbove ==
    ASSUME IInv, RowInv, pc \in {"READ", "COMMAND"}, NEW c, NEW r, NEW i, CellLine(lines, pos, c, r, i)
    PROVE  r \in Nat /\ r < rowIdx
  <1>1. Len(lines) \in Nat /\ i \in 1..Len(lines) /\ lines[i].type = "ROW" /\ r = RowNo(lines, i)
    <2>1. lines \in Seq(Lines)
      BY DEF IInv, LoopInv
    <2> QED BY <2>1, LenProperties DEF CellLine, RowLine
  <1>2. i \in Nat \ {0} /\ Len(lines) + 1 \in Nat /\ i <= Len(lines) + 1 /\ i < Len(lines) + 1
    BY <1>1
  <1>3. RowNo(lines, i) < RowNo(lines, Len(lines) + 1) /\ RowNo(lines, i) \in Nat
    BY <1>1, <1>2, RowNoOrder, RowNoFacts
  <1> QED BY <1>1, <1>3 DEF RowInv

(* A new line changes what is inherited if it is blank, and nothing else.  *)
LEMMA LineAsks ==
    ASSUME IInv, RowInv, CommandInv, ScopeInv, ColumnsInv, FormatsInv,
           NEW l \in Lines, EmptyLine(l) \/ CommentLine(l) \/ WordsLine(l)
    PROVE  ScopeInv' /\ ColumnsInv' /\ FormatsInv'
  <1>1. /\ Read(l) /\ pc = "READ" /\ pos' = 0 /\ table' = table
        /\ pc' \in {"READ", "ROW", "COMMAND"}
        /\ fmtRowIdx' = IF l.type = "EMPTY" THEN -1 ELSE fmtRowIdx
    BY DEF EmptyLine, CommentLine, WordsLine, Read
  <1>2. Extends(lines', lines, pos)
    BY <1>1, LineExtends DEF CommandInv
  <1>3. lines'[Len(lines')] = l /\ lines \in Seq(Lines) /\ fmtRowIdx \in -1..rowIdx /\ rowIdx \in Nat
    <2>1. lines'[Len(lines')] = l
      BY <1>1, ReadFacts
    <2> QED BY <2>1 DEF IInv, LoopInv
  <1>4. Loading /\ Loading'
    BY <1>1 DEF Loading
  <1>5. \A c, r \in Nat : Donors(lines', 0, c, r) = Donors(lines, pos, c, r)
    BY <1>2, DonorsLine
  <1>6. ScopeInv'
    <2>1. ScopeOf(lines', 0, Len(lines') + 1) =
                IF lines'[Len(lines')].type = "EMPTY" THEN {} ELSE ScopeOf(lines, pos, Len(lines) + 1)
      BY <1>2, ScopeNext
    <2>2. ScopeOf(lines', 0, Len(lines') + 1) = IF fmtRowIdx' = -1 THEN {} ELSE {fmtRowIdx'}
      BY <1>1, <1>3, <1>4, <2>1 DEF ScopeInv
    <2>3. ASSUME fmtRowIdx' >= 0, NEW c \in Nat
          PROVE  Donors(lines', 0, c, fmtRowIdx') \subseteq {fmtRowIdx'}
      <3>1. fmtRowIdx' = fmtRowIdx /\ fmtRowIdx >= 0 /\ fmtRowIdx \in Nat
        BY <1>1, <1>3, <2>3
      <3>2. Donors(lines, pos, c, fmtRowIdx) \subseteq {fmtRowIdx}
        BY <1>4, <3>1 DEF ScopeInv
      <3> QED BY <1>5, <3>1, <3>2
    <2> QED BY <1>1, <2>2, <2>3 DEF ScopeInv
  <1>7. \A c \in Nat : /\ AskedFmt(lines', 0, c) = AskedFmt(lines, pos, c)
                       /\ AskedWidth(lines', 0, c) = AskedWidth(lines, pos, c)
                       /\ BarsOf(lines', 0, c) = BarsOf(lines, pos, c)
                       /\ \A r \in Nat : AskedPrcsn(lines', 0, c, r) = AskedPrcsn(lines, pos, c, r)
    BY <1>2, AskedLine
  <1>8. ColumnsInv'
    <2> SUFFICES ASSUME NEW c \in Nat PROVE ColumnOK(table', lines', pos', c)
      BY DEF ColumnsInv
    <2>1. ColumnOK(table, lines, pos, c)
      BY DEF ColumnsInv
    <2> QED BY <1>1, <1>7, <2>1 DEF ColumnOK
  <1>9. FormatsInv'
    <2> SUFFICES ASSUME NEW c \in Nat, NEW r \in Nat PROVE FormatOK(table', lines', 0, c, r)
      BY <1>1 DEF FormatsInv
    <2>1. FormatOK(table, lines, pos, c, r)
      BY <1>4 DEF FormatsInv
    <2>2. Donors(lines, pos, c, r) \in SUBSET Nat
      BY <1>3, DonorsFacts
    <2> QED BY <1>1, <1>5, <1>7, <2>1, <2>2, FormatSame
  <1> QED BY <1>6, <1>8, <1>9

(* The words of a command that were passed over inherit nothing new.       *)
LEMMA PassedScope ==
    ASSUME IInv, RowInv, CommandInv, WordOf("COMMAND"), state \notin {"FIRST", "PRCSN"}
    PROVE  ScopeOf(lines, pos + 1, Len(lines) + 1) = ScopeOf(lines, pos, Len(lines) + 1)
  <1> DEFINE n == Len(lines)
  <1>1. /\ lines \in Seq(Lines) /\ lines # << >> /\ Line.type = "COMMAND" /\ Line = lines[n] /\ pos \in Nat
        /\ Names(lines, "prcsn") /\ NoReset(lines, n, pos) <=>
                    \/ state = "PRCSN" /\ Word.text # "reset"
                    \/ state = "FIRST" /\ Word.text = "prcsn"
    BY WordMeans
  <1>2. n \in Nat \ {0}
    BY <1>1, EmptySeq, LenProperties
  <1>3. pc = "COMMAND"
    BY DEF WordOf
  <1>4. ScopeOf(lines, pos + 1, n + 1) =
                IF ~Names(lines, "prcsn") THEN ScopeOf(lines, pos, n + 1)
                ELSE IF NoReset(lines, n, pos) THEN {RowNo(lines, n)} ELSE {}
    BY <1>1, ScopeWord
  <1>5. CASE Names(lines, "prcsn")
    <2>1. pos > 0 /\ ~NoReset(lines, n, pos - 1)
      BY <1>1, <1>3, <1>5 DEF CommandInv, Names
    <2>2. n \in Given(lines, pos, "prcsn", 0) /\ WordsRead(lines, pos, n) = pos
      <3>1. n \in 1..n /\ 0 < pos
        BY <1>2, <2>1
      <3> QED BY <1>5, <3>1 DEF Given, Names, WordsRead
    <2>3. ScopeOf(lines, pos, n + 1) =
                IF lines[n].type = "EMPTY" \/ ~NoReset(lines, n, WordsRead(lines, pos, n) - 1)
                THEN {} ELSE {RowNo(lines, n)}
      <3> HIDE DEF n
      <3> QED BY <1>2, <2>2, ScopeTurn
    <2>4. ScopeOf(lines, pos, n + 1) = {}
      BY <2>1, <2>2, <2>3
    <2> QED BY <1>1, <1>4, <1>5, <2>4
  <1>6. CASE ~Names(lines, "prcsn")
    BY <1>4, <1>6
  <1> QED BY <1>5, <1>6

(* A word of a command changes what no cell inherits.                      *)
LEMMA CommandDonors ==
    ASSUME IInv, RowInv, CommandInv, WordOf("COMMAND")
    PROVE  /\ \A c, r \in Nat : /\ Donors(lines, pos + 1, c, r) = Donors(lines, pos, c, r)
                                /\ Donors(lines, pos, c, r) \in SUBSET Nat
                                /\ r >= rowIdx => Donors(lines, pos, c, r) = {}
           /\ \A c, r \in Nat : rowIdx \notin Donors(lines, pos, c, r)
  <1>1. /\ lines \in Seq(Lines) /\ lines # << >> /\ lines[Len(lines)].type = "COMMAND" /\ pos \in Nat
        /\ rowIdx \in Nat
    BY WordMeans
  <1>2. \A c, r \in Nat : Donors(lines, pos + 1, c, r) = Donors(lines, pos, c, r)
    <2>1. lines[Len(lines)].type # "EMPTY" /\ lines[Len(lines)].type # "ROW"
      BY <1>1
    <2> QED BY <1>1, <2>1, DonorsWord
  <1>3. \A c, r \in Nat : \A k \in Donors(lines, pos, c, r) :
            k \in Nat /\ k <= r /\ \E i : CellLine(lines, pos, c, r, i)
    BY <1>1, DonorsFacts
  <1>4. \A c, r \in Nat : \A i : CellLine(lines, pos, c, r, i) => r < rowIdx
    BY RowsAbove DEF WordOf
  <1> QED BY <1>1, <1>2, <1>3, <1>4

(* The scope after a word of a command, told from FmtRowIdx.               *)
LEMMA CommandScope ==
    ASSUME IInv, RowInv, CommandInv, ScopeInv, WordOf("COMMAND"), Done,
           \/ state = "FIRST" /\ fmtRowIdx' = IF Word.text = "prcsn" THEN rowIdx ELSE fmtRowIdx
           \/ state = "PRCSN" /\ fmtRowIdx' = IF Word.text = "reset" THEN -1 ELSE fmtRowIdx
           \/ state \notin {"FIRST", "PRCSN"} /\ fmtRowIdx' = fmtRowIdx
    PROVE  ScopeInv'
  <1> DEFINE n == Len(lines)
  <1>1. /\ lines \in Seq(Lines) /\ lines # << >> /\ Line.type = "COMMAND" /\ Line = lines[n] /\ pos \in Nat
        /\ RowNo(lines, n) = rowIdx /\ rowIdx \in Nat
        /\ Names(lines, "prcsn") /\ NoReset(lines, n, pos) <=>
                    \/ state = "PRCSN" /\ Word.text # "reset"
                    \/ state = "FIRST" /\ Word.text = "prcsn"
        /\ (state = "FIRST" /\ Word.text # "prcsn") => ~Names(lines, "prcsn")
    BY WordMeans
  <1>2. /\ lines' = lines /\ pos' = pos + 1 /\ pc = "COMMAND" /\ Loading
        /\ fmtRowIdx \in -1..rowIdx /\ (state = "PRCSN" => fmtRowIdx = rowIdx)
    BY DEF Done, WordOf, Loading, IInv, LoopInv
  <1>3. ScopeOf(lines, pos + 1, n + 1) =
                IF ~Names(lines, "prcsn") THEN ScopeOf(lines, pos, n + 1)
                ELSE IF NoReset(lines, n, pos) THEN {RowNo(lines, n)} ELSE {}
    BY <1>1, ScopeWord
  <1>4. ScopeOf(lines, pos, n + 1) = IF fmtRowIdx = -1 THEN {} ELSE {fmtRowIdx}
    BY <1>2 DEF ScopeInv
  <1> HIDE DEF n
  <1>5. rowIdx # -1
    BY <1>1
  <1>6. ScopeOf(lines, pos + 1, n + 1) = IF fmtRowIdx' = -1 THEN {} ELSE {fmtRowIdx'}
    <2>1. CASE state = "FIRST"
      <3>1. CASE Word.text = "prcsn"
        BY <1>1, <1>3, <1>5, <2>1, <3>1
      <3>2. CASE Word.text # "prcsn"
        BY <1>1, <1>3, <1>4, <2>1, <3>2
      <3> QED BY <3>1, <3>2
    <2>2. CASE state = "PRCSN"
      <3>1. Names(lines, "prcsn")
        BY <1>1, <1>2, <2>2 DEF CommandInv, Names, n
      <3>2. CASE Word.text = "reset"
        BY <1>1, <1>3, <2>2, <3>1, <3>2
      <3>3. CASE Word.text # "reset"
        BY <1>1, <1>2, <1>3, <1>5, <2>2, <3>3
      <3> QED BY <3>2, <3>3
    <2>3. CASE state \notin {"FIRST", "PRCSN"}
      BY <1>4, <2>3, PassedScope DEF n
    <2> QED BY <2>1, <2>2, <2>3
  <1>7. ASSUME fmtRowIdx' >= 0, NEW c \in Nat
        PROVE  Donors(lines, pos + 1, c, fmtRowIdx') \subseteq {fmtRowIdx'}
    <2>1. fmtRowIdx' = rowIdx \/ (fmtRowIdx' = fmtRowIdx /\ fmtRowIdx \in Nat)
      BY <1>2, <1>7
    <2>2. fmtRowIdx' \in Nat
      BY <1>1, <2>1
    <2>3. Donors(lines, pos + 1, c, fmtRowIdx') = Donors(lines, pos, c, fmtRowIdx')
      BY <2>2, CommandDonors
    <2>4. CASE fmtRowIdx' = rowIdx
      <3>1. fmtRowIdx' >= rowIdx
        BY <1>1, <2>4
      <3>2. Donors(lines, pos, c, fmtRowIdx') = {}
        BY <2>2, <3>1, CommandDonors
      <3> QED BY <2>3, <3>2
    <2>5. CASE fmtRowIdx' = fmtRowIdx
      <3>1. fmtRowIdx >= 0
        BY <2>2, <2>5
      <3>2. Donors(lines, pos, c, fmtRowIdx) \subseteq {fmtRowIdx}
        BY <1>2, <3>1 DEF ScopeInv
      <3> QED BY <2>3, <2>5, <3>2
    <2> QED BY <2>1, <2>4, <2>5
  <1> QED BY <1>2, <1>6, <1>7 DEF ScopeInv, n

(* What a word of a command asks for.                                      *)
LEMMA CommandAsks ==
    ASSUME IInv, RowInv, CommandInv, WordOf("COMMAND"), Done
    PROVE  /\ lines' = lines /\ pos' = pos + 1 /\ pos \in Nat /\ rowIdx \in Nat /\ Loading /\ Word \in CommandWord
           /\ \A c \in Nat :
                /\ AskedFmt(lines, pos + 1, c) =
                    IF (state = "FMT" /\ c = pos - 1 /\ Word.text # "-") /\ AskedFmt(lines, pos, c) = {}
                    THEN {FmtOf(Word)} ELSE AskedFmt(lines, pos, c)
                /\ AskedWidth(lines, pos + 1, c) =
                    IF (state = "FMT" /\ c = pos - 1 /\ Word.text # "-") /\ Word.width # None
                    THEN {Word.width} ELSE AskedWidth(lines, pos, c)
                /\ BarsOf(lines, pos + 1, c) = {} <=>
                    BarsOf(lines, pos, c) = {} /\ ~(state = "SEP" /\ c = pos /\ Word.text = "|")
           /\ \A c, r \in Nat :
                AskedPrcsn(lines, pos + 1, c, r) =
                    IF state = "PRCSN" /\ c = pos - 1 /\ r = rowIdx /\ Word.text # "reset"
                    THEN {PrcsnOf(Word)} ELSE AskedPrcsn(lines, pos, c, r)
  <1>1. /\ lines \in Seq(Lines) /\ lines # << >> /\ LastWord(lines, pos) = Word /\ pos \in Nat
        /\ rowIdx \in Nat /\ Word \in CommandWord
        /\ \A c \in Nat : FmtGiven(lines, pos, c) <=> state = "FMT" /\ c = pos - 1 /\ Word.text # "-"
        /\ \A c \in Nat : BarGiven(lines, pos, c) <=> state = "SEP" /\ c = pos /\ Word.text = "|"
        /\ \A c, r \in Nat :
                PrcsnGiven(lines, pos, c, r) <=>
                    state = "PRCSN" /\ c = pos - 1 /\ r = rowIdx /\ Word.text # "reset"
    BY WordMeans
  <1>2. lines' = lines /\ pos' = pos + 1 /\ Loading
    BY DEF Done, WordOf, Loading
  <1>3. ASSUME NEW c \in Nat
        PROVE  /\ AskedFmt(lines, pos + 1, c) =
                    IF FmtGiven(lines, pos, c) /\ AskedFmt(lines, pos, c) = {}
                    THEN {FmtOf(LastWord(lines, pos))} ELSE AskedFmt(lines, pos, c)
               /\ AskedWidth(lines, pos + 1, c) =
                    IF FmtGiven(lines, pos, c) /\ LastWord(lines, pos).width # None
                    THEN {LastWord(lines, pos).width} ELSE AskedWidth(lines, pos, c)
    BY <1>1, FmtAsked
  <1>4. \A c \in Nat : BarsOf(lines, pos + 1, c) = {} <=> BarsOf(lines, pos, c) = {} /\ ~BarGiven(lines, pos, c)
    BY <1>1, BarAsked
  <1>5. \A c, r \in Nat : AskedPrcsn(lines, pos + 1, c, r) =
                IF PrcsnGiven(lines, pos, c, r) THEN {PrcsnOf(LastWord(lines, pos))}
                ELSE AskedPrcsn(lines, pos, c, r)
    BY <1>1, PrcsnAsked
  <1> QED BY <1>1, <1>2, <1>3, <1>4, <1>5

(* A word that asks for nothing changes nothing that is asked for.         *)
LEMMA QuietWord ==
    ASSUME IInv, RowInv, CommandInv, ColumnsInv, FormatsInv, WordOf("COMMAND"), Done,
           ~(state = "FMT" /\ Word.text # "-"), ~(state = "SEP" /\ Word.text = "|"),
           ~(state = "PRCSN" /\ Word.text # "reset"),
           SameCells(table', table), SameColumns(table', table)
    PROVE  ColumnsInv' /\ FormatsInv'
  <1>1. /\ lines' = lines /\ pos' = pos + 1 /\ pos \in Nat /\ rowIdx \in Nat /\ Loading
        /\ \A c \in Nat :
            /\ AskedFmt(lines, pos + 1, c) = AskedFmt(lines, pos, c)
            /\ AskedWidth(lines, pos + 1, c) = AskedWidth(lines, pos, c)
            /\ BarsOf(lines, pos + 1, c) = {} <=> BarsOf(lines, pos, c) = {}
        /\ \A c, r \in Nat : AskedPrcsn(lines, pos + 1, c, r) = AskedPrcsn(lines, pos, c, r)
    BY CommandAsks
  <1>2. ColumnsInv'
    <2> SUFFICES ASSUME NEW c \in Nat PROVE ColumnOK(table', lines', pos', c)
      BY DEF ColumnsInv
    <2>1. ColumnOK(table, lines, pos, c)
      BY DEF ColumnsInv
    <2>2. ColumnAt(table', c) = ColumnAt(table, c)
      BY DEF SameColumns
    <2> QED BY <1>1, <2>1, <2>2 DEF ColumnOK
  <1>3. FormatsInv'
    <2> SUFFICES ASSUME NEW c \in Nat, NEW r \in Nat PROVE FormatOK(table', lines, pos + 1, c, r)
      BY <1>1 DEF FormatsInv
    <2>1. FormatOK(table, lines, pos, c, r)
      BY <1>1 DEF FormatsInv
    <2>2. CellAt(table', c, r).fmt = CellAt(table, c, r).fmt
      BY DEF SameCells
    <2>3. Donors(lines, pos, c, r) \in SUBSET Nat /\ Donors(lines, pos + 1, c, r) = Donors(lines, pos, c, r)
      BY CommandDonors
    <2> QED BY <1>1, <2>1, <2>2, <2>3, FormatSame
  <1> QED BY <1>2, <1>3

(* SepWord keeps what the columns and cells hold of what is asked for.     *)
LEMMA SepAsks ==
    ASSUME IInv, RowInv, CommandInv, ColumnsInv, FormatsInv, SepWord, Word.text = "|"
    PROVE  ColumnsInv' /\ FormatsInv'
  <1>1. /\ Done /\ WordOf("COMMAND") /\ state = "SEP" /\ SameCells(table', table)
        /\ ColumnPut(table', table, pos, [ColumnAt(table, pos) EXCEPT !.sep = Bar])
    <2>1. WordOf("COMMAND") /\ state = "SEP"
      BY DEF SepWord, Argument
    <2> QED BY <2>1, SepFacts
  <1>2. /\ lines' = lines /\ pos' = pos + 1 /\ pos \in Nat /\ rowIdx \in Nat /\ Loading
        /\ \A c \in Nat :
            /\ AskedFmt(lines, pos + 1, c) = AskedFmt(lines, pos, c)
            /\ AskedWidth(lines, pos + 1, c) = AskedWidth(lines, pos, c)
            /\ BarsOf(lines, pos + 1, c) = {} <=> BarsOf(lines, pos, c) = {} /\ c # pos
        /\ \A c, r \in Nat : AskedPrcsn(lines, pos + 1, c, r) = AskedPrcsn(lines, pos, c, r)
    BY <1>1, CommandAsks
  <1>3. ColumnsInv'
    <2> SUFFICES ASSUME NEW c \in Nat PROVE ColumnOK(table', lines', pos', c)
      BY DEF ColumnsInv
    <2>1. ColumnOK(table, lines, pos, c)
      BY DEF ColumnsInv
    <2>2. ColumnAt(table', c) = IF c = pos THEN [ColumnAt(table, pos) EXCEPT !.sep = Bar] ELSE ColumnAt(table, c)
      BY <1>1 DEF ColumnPut
    <2>3. ColumnAt(table, pos) = [width |-> ColumnAt(table, pos).width, sep |-> ColumnAt(table, pos).sep]
      BY <1>2, ColumnAtType DEF IInv, Column
    <2>4. /\ ColumnAt(table', c).width = ColumnAt(table, c).width
          /\ ColumnAt(table', c).sep = IF c = pos THEN Bar ELSE ColumnAt(table, c).sep
      BY <2>2, <2>3
    <2> QED BY <1>2, <2>1, <2>4 DEF ColumnOK
  <1>4. FormatsInv'
    <2> SUFFICES ASSUME NEW c \in Nat, NEW r \in Nat PROVE FormatOK(table', lines, pos + 1, c, r)
      BY <1>2 DEF FormatsInv
    <2>1. FormatOK(table, lines, pos, c, r)
      BY <1>2 DEF FormatsInv
    <2>2. CellAt(table', c, r).fmt = CellAt(table, c, r).fmt
      BY <1>1 DEF SameCells
    <2>3. Donors(lines, pos, c, r) \in SUBSET Nat /\ Donors(lines, pos + 1, c, r) = Donors(lines, pos, c, r)
      BY <1>1, CommandDonors
    <2> QED BY <1>2, <2>1, <2>2, <2>3, FormatSame
  <1> QED BY <1>3, <1>4

(* The first format of a column counts, and not against a precision. *)
LEMMA FormatMeans ==
    ASSUME NEW F, NEW D, NEW I, NEW h \in Fmt, NEW w \in Fmt, w.set = {"ALIGN", "PRCSN"},
           CellMeans(F, D, I, D, h), I \in SUBSET D, F # {} => h.set = {"ALIGN", "PRCSN"}
    PROVE  LET m == MergeHeader(h, w) IN
           /\ CellMeans(IF F = {} THEN {w} ELSE F, D, I, D, m)
           /\ m.set = {"ALIGN", "PRCSN"}
  <1> DEFINE m == MergeHeader(h, w)
             G == IF F = {} THEN {w} ELSE F
  <1>1. /\ m.set = {"ALIGN", "PRCSN"}
        /\ m.align = IF "ALIGN" \in h.set THEN h.align ELSE w.align
        /\ m.prcsn = IF "PRCSN" \in h.set THEN h.prcsn ELSE w.prcsn
    <2>1. h.set \in SUBSET {"ALIGN", "PRCSN"}
      BY DEF Fmt
    <2> QED BY <2>1 DEF MergeHeader
  <1>2. CASE F # {}
    BY <1>1, <1>2 DEF CellMeans
  <1>3. CASE F = {}
    <2>1. "ALIGN" \notin h.set /\ (D = {} => "PRCSN" \notin h.set) /\ (D = {} => I = {})
      BY <1>3 DEF CellMeans
    <2>2. w.prcsn \in {f.prcsn : f \in G} /\ w.align \in {f.align : f \in G}
      BY <1>3
    <2>3. D # {} => "PRCSN" \in h.set /\ h.prcsn \in D
      BY DEF CellMeans
    <2> HIDE DEF m, G
    <2>4. m.set = {"ALIGN", "PRCSN"} /\ m.align = w.align
      BY <1>1, <2>1
    <2>5. D # {} => m.prcsn \in D
      BY <1>1, <2>3
    <2>6. D = {} => I = {} /\ m.prcsn = w.prcsn
      BY <1>1, <2>1
    <2> USE DEF m, G
    <2> QED
      <3> HIDE DEF m, G
      <3>1. CellMeans(G, D, I, D, m)
        BY <2>2, <2>4, <2>5, <2>6 DEF CellMeans
      <3> QED BY <2>4, <3>1 DEF m, G
  <1> QED BY <1>2, <1>3

(* A format that holds where none was asked for holds whatever is asked    *)
(* for.                                                                    *)
LEMMA MoreFormats ==
    ASSUME NEW F, NEW G, NEW D, NEW I, NEW T, NEW h, CellMeans(F, D, I, T, h), F = {} \/ G = F
    PROVE  CellMeans(G, D, I, T, h)
  <1>1. CASE G = F
    BY <1>1
  <1>2. CASE F = {}
    <2>1. "ALIGN" \notin h.set /\ ~(D = {} /\ I = {} /\ "PRCSN" \in h.set)
      BY <1>2 DEF CellMeans
    <2> QED BY <2>1 DEF CellMeans
  <1> QED BY <1>1, <1>2

(* So does FmtWord: the column and its top cell take the format.           *)
LEMMA FmtAsks ==
    ASSUME IInv, RowInv, CommandInv, ColumnsInv, FormatsInv, FmtWord, Word.text # "-"
    PROVE  ColumnsInv' /\ FormatsInv'
  <1> DEFINE col == pos - 1
  <1>1. /\ Done /\ WordOf("COMMAND") /\ state = "FMT" /\ pos > 0
        /\ CellPut(table', table, col, 0, FmtCell(table, col))
        /\ ColumnPut(table', table, col, FmtColumn(table, col))
    <2>1. WordOf("COMMAND") /\ state = "FMT"
      BY DEF FmtWord, Argument
    <2> QED BY <2>1, FmtFacts
  <1>2. /\ lines' = lines /\ pos' = pos + 1 /\ pos \in Nat /\ rowIdx \in Nat /\ Loading /\ Word \in CommandWord
        /\ \A c \in Nat :
            /\ AskedFmt(lines, pos + 1, c) =
                IF c = col /\ AskedFmt(lines, pos, c) = {} THEN {FmtOf(Word)} ELSE AskedFmt(lines, pos, c)
            /\ AskedWidth(lines, pos + 1, c) =
                IF c = col /\ Word.width # None THEN {Word.width} ELSE AskedWidth(lines, pos, c)
            /\ BarsOf(lines, pos + 1, c) = {} <=> BarsOf(lines, pos, c) = {}
        /\ \A c, r \in Nat : AskedPrcsn(lines, pos + 1, c, r) = AskedPrcsn(lines, pos, c, r)
    BY <1>1, CommandAsks
  <1>3. col \in Nat /\ IsTable(table) /\ lines \in Seq(Lines)
    BY <1>1, <1>2 DEF IInv, LoopInv
  <1> HIDE DEF col
  <1>4. ColumnsInv'
    <2> SUFFICES ASSUME NEW c \in Nat PROVE ColumnOK(table', lines', pos', c)
      BY DEF ColumnsInv
    <2>1. ColumnOK(table, lines, pos, c)
      BY DEF ColumnsInv
    <2>2. ColumnAt(table', c) = IF c = col THEN FmtColumn(table, col) ELSE ColumnAt(table, c)
      BY <1>1 DEF ColumnPut
    <2>3. ColumnAt(table, c) = [width |-> ColumnAt(table, c).width, sep |-> ColumnAt(table, c).sep]
      BY <1>2, ColumnAtType DEF IInv, Column
    <2>4. CASE c = col /\ Word.width # None
      <3>1. FmtColumn(table, col) = [ColumnAt(table, c) EXCEPT !.width = Larger(Word.width, MinWidth)]
        BY <2>4 DEF FmtColumn
      <3>2. /\ ColumnAt(table', c).width = Larger(Word.width, MinWidth)
            /\ ColumnAt(table', c).sep = ColumnAt(table, c).sep
        BY <2>2, <2>3, <2>4, <3>1
      <3>3. AskedWidth(lines, pos + 1, c) = {Word.width}
        BY <1>2, <2>4
      <3> QED BY <1>2, <2>1, <3>2, <3>3 DEF ColumnOK
    <2>5. CASE ~(c = col /\ Word.width # None)
      <3>1. ColumnAt(table', c) = ColumnAt(table, c)
        BY <2>2, <2>5 DEF FmtColumn
      <3>2. AskedWidth(lines, pos + 1, c) = AskedWidth(lines, pos, c)
        BY <1>2, <2>5
      <3> QED BY <1>2, <2>1, <3>1, <3>2 DEF ColumnOK
    <2> QED BY <2>4, <2>5
  <1>5. FormatsInv'
    <2> SUFFICES ASSUME NEW c \in Nat, NEW r \in Nat PROVE FormatOK(table', lines, pos + 1, c, r)
      BY <1>2 DEF FormatsInv
    <2> DEFINE F == AskedFmt(lines, pos, c)
               D == AskedPrcsn(lines, pos, c, r)
               I == Inherited(lines, pos, c, r)
               T == AskedPrcsn(lines, pos, c, 0)
               G == AskedFmt(lines, pos + 1, c)
               h == CellAt(table, c, r).fmt
               m == CellAt(table', c, r).fmt
    <2>1. FormatOK(table, lines, pos, c, r)
      BY <1>2 DEF FormatsInv
    <2>2. Donors(lines, pos, c, r) \in SUBSET Nat /\ Donors(lines, pos + 1, c, r) = Donors(lines, pos, c, r)
      BY <1>1, CommandDonors
    <2>3. CellAt(table', c, r) = IF c = col /\ r = 0 THEN FmtCell(table, col) ELSE CellAt(table, c, r)
      BY <1>1 DEF CellPut
    <2>4. /\ Inherited(lines, pos + 1, c, r) = I
          /\ AskedPrcsn(lines, pos + 1, c, r) = D /\ AskedPrcsn(lines, pos + 1, c, 0) = T
      BY <1>2, <2>2 DEF Inherited
    <2>5. CellMeans(F, D, I, T, h) /\ (r = 0 /\ F # {} => h.set = {"ALIGN", "PRCSN"})
      BY <2>1 DEF FormatOK
    <2>6. G = IF c = col /\ F = {} THEN {FmtOf(Word)} ELSE F
      BY <1>2
    <2>7. CASE c = col /\ r = 0
      <3>1. h \in Fmt /\ FmtOf(Word) \in Fmt /\ FmtOf(Word).set = {"ALIGN", "PRCSN"}
        <4>1. CellAt(table, c, r) \in Cell
          BY <1>3, CellAtType
        <4>2. FmtOf(Word) \in Fmt
          BY <1>2, HeaderTypes
        <4>3. FmtOf(Word).set = {"ALIGN", "PRCSN"}
          BY DEF FmtOf, DefaultHeader
        <4> QED BY <4>1, <4>2, <4>3 DEF Cell
      <3>2. m = MergeHeader(h, FmtOf(Word))
        <4>1. CellAt(table, c, r) \in Cell
          BY <1>3, CellAtType
        <4> QED BY <2>3, <2>7, <4>1 DEF FmtCell, Cell
      <3>3. I \in SUBSET D
        <4>1. \A k \in Donors(lines, pos, c, 0) : k = 0
          <5>1. \A k \in Donors(lines, pos, c, 0) : k \in Nat /\ k <= 0
            BY <1>3, DonorsFacts
          <5> QED BY <5>1
        <4> QED BY <2>7, <4>1 DEF Inherited
      <3>4. CellMeans(F, D, I, D, h) /\ (F # {} => h.set = {"ALIGN", "PRCSN"})
        BY <2>5, <2>7
      <3> HIDE DEF F, D, I, T, h, m, G
      <3>5. CellMeans(IF F = {} THEN {FmtOf(Word)} ELSE F, D, I, D, MergeHeader(h, FmtOf(Word)))
            /\ MergeHeader(h, FmtOf(Word)).set = {"ALIGN", "PRCSN"}
        BY <3>1, <3>3, <3>4, FormatMeans
      <3>6. G = IF F = {} THEN {FmtOf(Word)} ELSE F
        BY <2>6, <2>7
      <3>7. CellMeans(G, D, I, D, m) /\ m.set = {"ALIGN", "PRCSN"}
        BY <3>2, <3>5, <3>6
      <3>8. T = D
        BY <2>7 DEF T, D
      <3> QED BY <2>4, <2>7, <3>7, <3>8 DEF FormatOK, F, D, I, T, h, m, G
    <2>8. CASE ~(c = col /\ r = 0)
      <3>1. m = h
        BY <2>3, <2>8
      <3>2. F = {} \/ G = F
        BY <2>6
      <3>3. r = 0 => G = F
        BY <2>6, <2>8
      <3>4. CellMeans(G, D, I, T, m)
        <4> HIDE DEF F, D, I, T, h, m, G
        <4> QED BY <2>5, <3>1, <3>2, MoreFormats
      <3>5. r = 0 /\ G # {} => m.set = {"ALIGN", "PRCSN"}
        BY <2>5, <3>1, <3>3
      <3>6. r # 0 /\ Donors(lines, pos, c, r) \subseteq {r} =>
                "ALIGN" \notin m.set /\ ("PRCSN" \in m.set => D # {})
        BY <2>1, <3>1 DEF FormatOK
      <3> QED BY <2>2, <2>4, <3>4, <3>5, <3>6 DEF FormatOK
    <2> QED BY <2>7, <2>8
  <1> QED BY <1>4, <1>5

(* The format of the one cell that PrcsnWord writes.                       *)
LEMMA PrcsnCellFmt ==
    ASSUME NEW t, NEW c, NEW r, CellAt(t, c, r) \in Cell
    PROVE  LET h == CellAt(t, c, r).fmt
               m == PrcsnCell(t, c, r).fmt
           IN  m.align = h.align /\ m.prcsn = PrcsnOf(Word) /\ m.set = h.set \cup {"PRCSN"}
  <1> DEFINE old == CellAt(t, c, r)
             cell == PrcsnCell(t, c, r)
             m == [align |-> old.fmt.align, prcsn |-> PrcsnOf(Word), set |-> old.fmt.set \cup {"PRCSN"}]
  <1>1. cell = [old EXCEPT !.fmt.prcsn = PrcsnOf(Word), !.fmt.set = @ \cup {"PRCSN"}]
    BY DEF PrcsnCell
  <1> HIDE DEF old, cell
  <1>2. old \in Cell
    BY DEF old
  <1>3. old = [fmt |-> old.fmt, type |-> old.type, text |-> old.text] /\ old.fmt \in Fmt
    BY <1>2 DEF Cell
  <1>4. old.fmt = [align |-> old.fmt.align, prcsn |-> old.fmt.prcsn, set |-> old.fmt.set]
    BY <1>3 DEF Fmt
  <1>5. cell = [fmt |-> m, type |-> old.type, text |-> old.text]
    BY <1>1, <1>3, <1>4
  <1>6. cell.fmt = m
    <2> HIDE DEF m
    <2> QED BY <1>5
  <1> QED BY <1>6 DEF old, cell

(* The own precision of a cell counts before every other. *)
LEMMA PrecisionMeans ==
    ASSUME NEW F, NEW D, NEW I, NEW T, NEW J, NEW U, NEW h, NEW m, NEW v, CellMeans(F, D, I, T, h),
           m.align = h.align, m.prcsn = v, m.set = h.set \cup {"PRCSN"}
    PROVE  CellMeans(F, {v}, J, U, m)
  BY DEF CellMeans

(* So does PrcsnWord, for its cell and for reset.                          *)
LEMMA PrcsnAsks ==
    ASSUME IInv, RowInv, CommandInv, ColumnsInv, FormatsInv, PrcsnWord, Word.text # "reset"
    PROVE  ColumnsInv' /\ FormatsInv'
  <1> DEFINE col == pos - 1
  <1>1. /\ Done /\ WordOf("COMMAND") /\ state = "PRCSN" /\ pos > 0
        /\ CellPut(table', table, col, rowIdx, PrcsnCell(table, col, rowIdx))
        /\ SameColumns(table', table)
    <2>1. WordOf("COMMAND") /\ state = "PRCSN"
      BY DEF PrcsnWord, Argument
    <2> QED BY <2>1, PrcsnFacts
  <1>2. /\ lines' = lines /\ pos' = pos + 1 /\ pos \in Nat /\ rowIdx \in Nat /\ Loading /\ Word \in CommandWord
        /\ \A c \in Nat :
            /\ AskedFmt(lines, pos + 1, c) = AskedFmt(lines, pos, c)
            /\ AskedWidth(lines, pos + 1, c) = AskedWidth(lines, pos, c)
            /\ BarsOf(lines, pos + 1, c) = {} <=> BarsOf(lines, pos, c) = {}
        /\ \A c, r \in Nat : AskedPrcsn(lines, pos + 1, c, r) =
                IF c = col /\ r = rowIdx THEN {PrcsnOf(Word)} ELSE AskedPrcsn(lines, pos, c, r)
    BY <1>1, CommandAsks
  <1>3. col \in Nat /\ IsTable(table) /\ lines \in Seq(Lines)
    BY <1>1, <1>2 DEF IInv, LoopInv
  <1> HIDE DEF col
  <1>4. ColumnsInv'
    <2> SUFFICES ASSUME NEW c \in Nat PROVE ColumnOK(table', lines', pos', c)
      BY DEF ColumnsInv
    <2>1. ColumnOK(table, lines, pos, c)
      BY DEF ColumnsInv
    <2>2. ColumnAt(table', c) = ColumnAt(table, c)
      BY <1>1 DEF SameColumns
    <2> QED BY <1>2, <2>1, <2>2 DEF ColumnOK
  <1>5. FormatsInv'
    <2> SUFFICES ASSUME NEW c \in Nat, NEW r \in Nat PROVE FormatOK(table', lines, pos + 1, c, r)
      BY <1>2 DEF FormatsInv
    <2> DEFINE F == AskedFmt(lines, pos, c)
               D == AskedPrcsn(lines, pos, c, r)
               I == Inherited(lines, pos, c, r)
               T == AskedPrcsn(lines, pos, c, 0)
               E == AskedPrcsn(lines, pos + 1, c, r)
               U == AskedPrcsn(lines, pos + 1, c, 0)
               h == CellAt(table, c, r).fmt
               m == CellAt(table', c, r).fmt
    <2>1. FormatOK(table, lines, pos, c, r)
      BY <1>2 DEF FormatsInv
    <2>2. /\ Donors(lines, pos, c, r) \in SUBSET Nat /\ Donors(lines, pos + 1, c, r) = Donors(lines, pos, c, r)
          /\ rowIdx \notin Donors(lines, pos, c, r)
          /\ r >= rowIdx => Donors(lines, pos, c, r) = {}
      BY <1>1, CommandDonors
    <2>3. CellAt(table', c, r) =
                IF c = col /\ r = rowIdx THEN PrcsnCell(table, col, rowIdx) ELSE CellAt(table, c, r)
      BY <1>1 DEF CellPut
    <2>4. Inherited(lines, pos + 1, c, r) = I
      <3>1. \A k \in Donors(lines, pos, c, r) : AskedPrcsn(lines, pos + 1, c, k) = AskedPrcsn(lines, pos, c, k)
        BY <1>2, <2>2
      <3> QED BY <2>2, <3>1 DEF Inherited
    <2>5. /\ CellMeans(F, D, I, T, h) /\ (r = 0 /\ F # {} => h.set = {"ALIGN", "PRCSN"})
          /\ r # 0 /\ Donors(lines, pos, c, r) \subseteq {r} =>
                "ALIGN" \notin h.set /\ ("PRCSN" \in h.set => D # {})
      BY <2>1 DEF FormatOK
    <2>6. AskedFmt(lines, pos + 1, c) = F
      BY <1>2
    <2>7. CASE c = col /\ r = rowIdx
      <3>1. E = {PrcsnOf(Word)}
        BY <1>2, <2>7
      <3>2. m.align = h.align /\ m.prcsn = PrcsnOf(Word) /\ m.set = h.set \cup {"PRCSN"}
        <4>1. CellAt(table, c, r) \in Cell
          BY <1>3, CellAtType
        <4> QED BY <2>3, <2>7, <4>1, PrcsnCellFmt
      <3> HIDE DEF F, D, I, T, E, U, h, m
      <3>3. CellMeans(F, {PrcsnOf(Word)}, I, U, m)
        BY <2>5, <3>2, PrecisionMeans
      <3>4. /\ r = 0 /\ F # {} => m.set = {"ALIGN", "PRCSN"}
            /\ r # 0 /\ Donors(lines, pos, c, r) \subseteq {r} => "ALIGN" \notin m.set /\ E # {}
        BY <2>5, <3>1, <3>2
      <3>5. CellMeans(F, E, I, U, m)
        BY <3>1, <3>3
      <3> QED BY <2>2, <2>4, <2>6, <3>4, <3>5 DEF FormatOK, F, D, I, T, E, U, h, m
    <2>8. CASE ~(c = col /\ r = rowIdx)
      <3>1. m = h
        BY <2>3, <2>8
      <3>2. E = D
        BY <1>2, <2>8
      <3>3. U = T \/ (c = col /\ rowIdx = 0)
        BY <1>2
      <3>4. CellMeans(F, D, I, U, h)
        <4>1. CASE U = T
          BY <2>5, <4>1
        <4>2. CASE c = col /\ rowIdx = 0
          <5>1. r # 0 /\ r >= rowIdx
            BY <2>8, <4>2
          <5>2. "PRCSN" \in h.set => D # {}
            BY <2>2, <2>5, <5>1
          <5> HIDE DEF F, D, I, T, E, U, h, m
          <5> QED BY <2>5, <5>2 DEF CellMeans
        <4> QED BY <3>3, <4>1, <4>2
      <3> QED BY <2>2, <2>4, <2>5, <2>6, <3>1, <3>2, <3>4 DEF FormatOK
    <2> QED BY <2>7, <2>8
  <1> QED BY <1>4, <1>5

(* What a cell takes from the row it inherits from.                        *)
LEMMA InheritMeans ==
    ASSUME NEW F, NEW D, NEW K, NEW J, NEW T, NEW h \in Fmt, NEW g \in Fmt,
           CellMeans(F, D, {}, T, h), "ALIGN" \notin h.set, "PRCSN" \in h.set => D # {},
           CellMeans(F, K, J, T, g), J \in SUBSET K
    PROVE  CellMeans(F, D, K, T, MergeHeader(h, g))
  <1> DEFINE m == MergeHeader(h, g)
  <1>1. /\ m.align = g.align
        /\ m.prcsn = IF "PRCSN" \in h.set THEN h.prcsn ELSE g.prcsn
        /\ "PRCSN" \in m.set <=> "PRCSN" \in h.set \/ "PRCSN" \in g.set
        /\ "ALIGN" \in m.set <=> "ALIGN" \in g.set
    BY DEF MergeHeader
  <1> HIDE DEF m
  <1>2. D # {} => "PRCSN" \in h.set /\ h.prcsn \in D
    BY DEF CellMeans
  <1>3. K = {} => J = {}
    OBVIOUS
  <1>4. D = {} => "PRCSN" \notin h.set
    OBVIOUS
  <1>5. K # {} => "PRCSN" \in g.set /\ g.prcsn \in K
    BY DEF CellMeans
  <1>6. K = {} /\ "PRCSN" \in g.set => T = {} /\ g.prcsn \in {f.prcsn : f \in F}
    BY <1>3 DEF CellMeans
  <1>7. "ALIGN" \in g.set => g.align \in {f.align : f \in F}
    BY DEF CellMeans
  <1>8. CellMeans(F, D, K, T, m)
    BY <1>1, <1>2, <1>4, <1>5, <1>6, <1>7 DEF CellMeans
  <1> QED BY <1>8 DEF m

(* A row asks for nothing. *)
LEMMA RowAsks ==
    ASSUME NEW s \in Seq(Lines), s # << >>, NEW p \in Nat, s[Len(s)].type = "ROW", NEW c \in Nat
    PROVE  /\ AskedFmt(s, p + 1, c) = AskedFmt(s, p, c)
           /\ AskedWidth(s, p + 1, c) = AskedWidth(s, p, c)
           /\ BarsOf(s, p + 1, c) = {} <=> BarsOf(s, p, c) = {}
           /\ \A r \in Nat : AskedPrcsn(s, p + 1, c, r) = AskedPrcsn(s, p, c, r)
  <1>1. ~FmtGiven(s, p, c) /\ ~BarGiven(s, p, c) /\ \A r : ~PrcsnGiven(s, p, c, r)
    BY DEF FmtGiven, BarGiven, PrcsnGiven, Names
  <1>2. /\ AskedFmt(s, p + 1, c) =
                IF FmtGiven(s, p, c) /\ AskedFmt(s, p, c) = {} THEN {FmtOf(LastWord(s, p))}
                ELSE AskedFmt(s, p, c)
        /\ AskedWidth(s, p + 1, c) =
                IF FmtGiven(s, p, c) /\ LastWord(s, p).width # None THEN {LastWord(s, p).width}
                ELSE AskedWidth(s, p, c)
    BY FmtAsked
  <1>3. BarsOf(s, p + 1, c) = {} <=> BarsOf(s, p, c) = {} /\ ~BarGiven(s, p, c)
    BY BarAsked
  <1>4. \A r \in Nat : AskedPrcsn(s, p + 1, c, r) =
                IF PrcsnGiven(s, p, c, r) THEN {PrcsnOf(LastWord(s, p))} ELSE AskedPrcsn(s, p, c, r)
    BY PrcsnAsked
  <1> QED BY <1>1, <1>2, <1>3, <1>4

(* The scope of the row that is read is FmtRowIdx, and the row inherits of *)
(* no other.                                                               *)
LEMMA RowScope ==
    ASSUME IInv, RowInv, ScopeInv, WordOf("ROW")
    PROVE  /\ lines \in Seq(Lines) /\ lines # << >> /\ lines[Len(lines)].type = "ROW" /\ pos \in Nat
           /\ rowIdx \in Nat /\ fmtRowIdx \in -1..rowIdx /\ RowNo(lines, Len(lines)) = rowIdx
           /\ ScopeOf(lines, pos, Len(lines)) = IF fmtRowIdx = -1 THEN {} ELSE {fmtRowIdx}
           /\ ScopeOf(lines, pos + 1, Len(lines) + 1) = IF fmtRowIdx = -1 THEN {} ELSE {fmtRowIdx}
           /\ \A c, r \in Nat :
                IF r = rowIdx /\ c = pos
                THEN /\ Donors(lines, pos + 1, c, r) = IF fmtRowIdx = -1 THEN {} ELSE {fmtRowIdx}
                     /\ Donors(lines, pos, c, r) = {}
                ELSE Donors(lines, pos + 1, c, r) = Donors(lines, pos, c, r)
  <1> DEFINE n == Len(lines)
  <1>1. /\ lines \in Seq(Lines) /\ lines # << >> /\ lines[n].type = "ROW" /\ pos \in Nat
        /\ rowIdx \in Nat /\ fmtRowIdx \in -1..rowIdx /\ RowNo(lines, n) = rowIdx
    <2>1. Line.type = "ROW" /\ lines # << >> /\ pc = "ROW"
      BY DEF IInv, LoopInv, WordOf
    <2> QED BY <2>1 DEF IInv, LoopInv, RowInv, Line
  <1>2. n \in Nat \ {0}
    BY <1>1, EmptySeq, LenProperties
  <1>3. n \notin Given(lines, pos, "prcsn", 0) /\ lines[n].type # "EMPTY" /\ ~Names(lines, "prcsn")
    BY <1>1 DEF Given, Names
  <1>4. ScopeOf(lines, pos, n + 1) = IF fmtRowIdx = -1 THEN {} ELSE {fmtRowIdx}
    BY DEF ScopeInv, Loading, WordOf
  <1>5. ScopeOf(lines, pos, n + 1) = ScopeOf(lines, pos, n)
    <2> HIDE DEF n
    <2> QED BY <1>2, <1>3, ScopeSkip
  <1>6. ScopeOf(lines, pos + 1, n + 1) =
                IF ~Names(lines, "prcsn") THEN ScopeOf(lines, pos, n + 1)
                ELSE IF NoReset(lines, n, pos) THEN {RowNo(lines, n)} ELSE {}
    BY <1>1, <1>3, ScopeWord
  <1>7. ASSUME NEW c \in Nat, NEW r \in Nat
        PROVE  IF lines[Len(lines)].type = "ROW" /\ RowNo(lines, Len(lines)) = r /\ c = pos
               THEN Donors(lines, pos + 1, c, r) = ScopeOf(lines, pos, Len(lines)) /\ Donors(lines, pos, c, r) = {}
               ELSE Donors(lines, pos + 1, c, r) = Donors(lines, pos, c, r)
    <2>1. lines \in Seq(Lines) /\ lines # << >> /\ pos \in Nat /\ lines[Len(lines)].type # "EMPTY"
      BY <1>1, <1>3
    <2> QED BY ONLY <2>1, DonorsWord
  <1> QED BY <1>1, <1>3, <1>4, <1>5, <1>6, <1>7

(* So does RowCell: the cell merges the format of the row in scope.        *)
LEMMA RowCellAsks ==
    ASSUME IInv, RowInv, CommandInv, ScopeInv, ColumnsInv, FormatsInv, RowCell
    PROVE  ScopeInv' /\ ColumnsInv' /\ FormatsInv'
  <1> DEFINE S == IF fmtRowIdx = -1 THEN {} ELSE {fmtRowIdx}
  <1>1. /\ Done /\ WordOf("ROW") /\ fmtRowIdx' = fmtRowIdx /\ SameColumns(table', table)
        /\ CellPut(table', table, pos, rowIdx, RowCellOf(table)) /\ RowCellOf(table) \in Cell
        /\ Word \in CellText
    <2>1. WordOf("ROW")
      BY DEF RowCell
    <2> QED BY <2>1, RowCellFacts, WordFacts DEF IInv
  <1>2. /\ lines \in Seq(Lines) /\ lines # << >> /\ lines[Len(lines)].type = "ROW" /\ pos \in Nat
        /\ rowIdx \in Nat /\ fmtRowIdx \in -1..rowIdx
        /\ ScopeOf(lines, pos + 1, Len(lines) + 1) = S
        /\ \A c, r \in Nat :
                IF r = rowIdx /\ c = pos
                THEN Donors(lines, pos + 1, c, r) = S /\ Donors(lines, pos, c, r) = {}
                ELSE Donors(lines, pos + 1, c, r) = Donors(lines, pos, c, r)
    BY <1>1, RowScope
  <1>3. /\ lines' = lines /\ pos' = pos + 1 /\ Loading /\ Loading' /\ pc = "ROW" /\ IsTable(table)
    BY <1>1 DEF Done, WordOf, Loading, IInv
  <1>4. \A c \in Nat :
           /\ AskedFmt(lines, pos + 1, c) = AskedFmt(lines, pos, c)
           /\ AskedWidth(lines, pos + 1, c) = AskedWidth(lines, pos, c)
           /\ BarsOf(lines, pos + 1, c) = {} <=> BarsOf(lines, pos, c) = {}
           /\ \A r \in Nat : AskedPrcsn(lines, pos + 1, c, r) = AskedPrcsn(lines, pos, c, r)
    BY <1>2, RowAsks
  <1>5. ScopeInv'
    <2>1. ASSUME fmtRowIdx >= 0, NEW c \in Nat
          PROVE  Donors(lines, pos + 1, c, fmtRowIdx) \subseteq {fmtRowIdx}
      <3>1. fmtRowIdx \in Nat /\ fmtRowIdx # -1
        BY <1>2, <2>1
      <3>2. Donors(lines, pos, c, fmtRowIdx) \subseteq {fmtRowIdx}
        BY <1>3, <2>1 DEF ScopeInv
      <3> QED BY <1>2, <3>1, <3>2
    <2> QED BY <1>1, <1>2, <1>3, <2>1 DEF ScopeInv
  <1>6. ColumnsInv'
    <2> SUFFICES ASSUME NEW c \in Nat PROVE ColumnOK(table', lines', pos', c)
      BY DEF ColumnsInv
    <2>1. ColumnOK(table, lines, pos, c)
      BY DEF ColumnsInv
    <2>2. ColumnAt(table', c) = ColumnAt(table, c)
      BY <1>1 DEF SameColumns
    <2> QED BY <1>3, <1>4, <2>1, <2>2 DEF ColumnOK
  <1>7. FormatsInv'
    <2> SUFFICES ASSUME NEW c \in Nat, NEW r \in Nat PROVE FormatOK(table', lines, pos + 1, c, r)
      BY <1>3 DEF FormatsInv
    <2>1. \A k \in Nat : FormatOK(table, lines, pos, c, k)
      BY <1>3 DEF FormatsInv
    <2>2. Donors(lines, pos, c, r) \in SUBSET Nat
      BY <1>2, DonorsFacts
    <2>3. CellAt(table', c, r) = IF c = pos /\ r = rowIdx THEN RowCellOf(table) ELSE CellAt(table, c, r)
      BY <1>1 DEF CellPut
    <2>4. CASE ~(c = pos /\ r = rowIdx)
      <3>1. CellAt(table', c, r).fmt = CellAt(table, c, r).fmt
        BY <2>3, <2>4
      <3>2. Donors(lines, pos + 1, c, r) = Donors(lines, pos, c, r)
        BY <1>2, <2>4
      <3> QED BY <1>4, <2>1, <2>2, <3>1, <3>2, FormatSame
    <2>5. CASE c = pos /\ r = rowIdx
      <3> DEFINE F == AskedFmt(lines, pos, c)
                 D == AskedPrcsn(lines, pos, c, r)
                 T == AskedPrcsn(lines, pos, c, 0)
                 K == AskedPrcsn(lines, pos, c, fmtRowIdx)
                 J == Inherited(lines, pos, c, fmtRowIdx)
                 h == CellAt(table, c, r).fmt
                 m == CellAt(table', c, r).fmt
                 g == CellAt(table, c, fmtRowIdx).fmt
      <3>1. CellAt(table, c, r) \in Cell
        BY <1>3, CellAtType
      <3>2. Donors(lines, pos + 1, c, r) = S /\ Donors(lines, pos, c, r) = {}
        BY <1>2, <2>5
      <3>3. Inherited(lines, pos, c, r) = {}
        BY <3>2 DEF Inherited
      <3>4. /\ CellMeans(F, D, {}, T, h) /\ (r = 0 /\ F # {} => h.set = {"ALIGN", "PRCSN"})
            /\ r # 0 => "ALIGN" \notin h.set /\ ("PRCSN" \in h.set => D # {})
        <4>1. FormatOK(table, lines, pos, c, r)
          BY <2>1
        <4>2. CellMeans(F, D, Inherited(lines, pos, c, r), T, h)
          BY <4>1 DEF FormatOK
        <4> QED BY <3>2, <3>3, <4>1, <4>2 DEF FormatOK
      <3>5. /\ AskedFmt(lines, pos + 1, c) = F /\ AskedPrcsn(lines, pos + 1, c, r) = D
            /\ AskedPrcsn(lines, pos + 1, c, 0) = T
            /\ fmtRowIdx \in Nat => AskedPrcsn(lines, pos + 1, c, fmtRowIdx) = K
        BY <1>4
      <3>6. Inherited(lines, pos + 1, c, r) = IF fmtRowIdx = -1 THEN {} ELSE K
        <4>1. CASE fmtRowIdx = -1
          BY <3>2, <4>1 DEF Inherited
        <4>2. CASE fmtRowIdx # -1
          <5>1. fmtRowIdx \in Nat
            BY <1>2, <4>2
          <5> QED BY <3>2, <3>5, <4>2, <5>1 DEF Inherited
        <4> QED BY <4>1, <4>2
      <3>7. CASE Inherits
        <4>1. fmtRowIdx \in Nat /\ fmtRowIdx >= 0 /\ fmtRowIdx # -1 /\ fmtRowIdx < rowIdx /\ r # 0
          BY <1>2, <2>5, <3>7 DEF Inherits
        <4>2. CellAt(table, c, fmtRowIdx) \in Cell
          BY <1>3, <4>1, CellAtType
        <4>3. m = MergeHeader(h, g)
          <5> DEFINE filled == Filled(CellAt(table, pos, rowIdx), Word)
          <5>1. filled \in Cell /\ filled.fmt = h
            BY <1>1, <2>5, <3>1, FilledType
          <5>2. RowCellOf(table) = [filled EXCEPT !.fmt = MergeHeader(filled.fmt, CellAt(table, pos, fmtRowIdx).fmt)]
            BY <3>7 DEF RowCellOf
          <5> HIDE DEF filled
          <5>3. RowCellOf(table).fmt = MergeHeader(filled.fmt, CellAt(table, pos, fmtRowIdx).fmt)
            BY <5>1, <5>2 DEF Cell
          <5> QED BY <2>3, <2>5, <5>1, <5>3
        <4>4. Donors(lines, pos, c, fmtRowIdx) \subseteq {fmtRowIdx}
          BY <1>3, <4>1 DEF ScopeInv
        <4>5. J \in SUBSET K
          BY <4>4 DEF Inherited
        <4>6. CellMeans(F, K, J, T, g)
          BY <2>1, <4>1 DEF FormatOK
        <4>7. h \in Fmt /\ g \in Fmt
          BY <3>1, <4>2 DEF Cell
        <4>8. ~(S \subseteq {r})
          BY <2>5, <4>1
        <4> HIDE DEF F, D, T, K, J, h, m, g
        <4>9. CellMeans(F, D, K, T, m)
          BY <3>4, <4>1, <4>3, <4>5, <4>6, <4>7, InheritMeans
        <4> QED BY <3>2, <3>5, <3>6, <4>1, <4>8, <4>9 DEF FormatOK, F, D, T, K, m
      <3>8. CASE ~Inherits
        <4>1. fmtRowIdx = -1 \/ fmtRowIdx = r
          BY <1>2, <2>5, <3>8 DEF Inherits
        <4>2. m = h
          <5>1. RowCellOf(table) = Filled(CellAt(table, pos, rowIdx), Word)
            BY <3>8 DEF RowCellOf
          <5> QED BY <1>1, <2>3, <2>5, <3>1, <5>1, FilledType
        <4>3. S = {} \/ (S = {r} /\ K = D)
          BY <4>1
        <4>4. Inherited(lines, pos + 1, c, r) = {} \/ Inherited(lines, pos + 1, c, r) = D
          BY <3>6, <4>1
        <4> HIDE DEF F, D, T, K, J, h, m, g
        <4>5. CellMeans(F, D, D, T, m)
          BY <3>4, <4>2 DEF CellMeans
        <4>6. CellMeans(F, D, Inherited(lines, pos + 1, c, r), T, m)
          BY <3>4, <4>2, <4>4, <4>5
        <4> QED BY <3>2, <3>4, <3>5, <4>2, <4>3, <4>6 DEF FormatOK, F, D, T, m
      <3> QED BY <3>7, <3>8
    <2> QED BY <2>4, <2>5
  <1> QED BY <1>5, <1>6, <1>7

AskedInv == ScopeInv /\ ColumnsInv /\ FormatsInv

(* AskedInv is an invariant: at first nothing is asked for.                *)
LEMMA AskedInvInit == Init => AskedInv
  <1> SUFFICES ASSUME Init PROVE AskedInv
    OBVIOUS
  <1>1. lines = << >> /\ pos = 0 /\ fmtRowIdx = -1 /\ table = EmptyTable /\ pc = "READ" /\ Len(lines) = 0
    BY EmptySeq DEF Init, LoaderInit
  <1>2. 1..Len(lines) = {} /\ 1..(Len(lines) + 1 - 1) = {}
    BY <1>1
  <1>3. \A name, k : Given(lines, pos, name, k) = {}
    BY <1>2 DEF Given
  <1>4. \A c : /\ AskedFmt(lines, pos, c) = {} /\ AskedWidth(lines, pos, c) = {} /\ BarsOf(lines, pos, c) = {}
               /\ \A r : AskedPrcsn(lines, pos, c, r) = {} /\ Donors(lines, pos, c, r) = {}
    <2>1. \A c : /\ FormatsOf(lines, pos, c) = {} /\ BarsOf(lines, pos, c) = {}
                 /\ \A r : DirectOf(lines, pos, c, r) = {} /\ Donors(lines, pos, c, r) = {}
      BY <1>2, <1>3 DEF FormatsOf, BarsOf, DirectOf, Donors
    <2>2. \A c : WidthsOf(lines, pos, c) = {}
      BY <2>1 DEF WidthsOf
    <2> QED BY <2>1, <2>2 DEF AskedFmt, AskedWidth, AskedPrcsn
  <1>5. ScopeOf(lines, pos, Len(lines) + 1) = {}
    <2>1. TurnsOf(lines, pos, Len(lines) + 1) = {}
      BY <1>2 DEF TurnsOf
    <2> QED BY <2>1 DEF ScopeOf
  <1>6. ScopeInv
    BY <1>1, <1>5 DEF ScopeInv
  <1>7. ColumnsInv
    <2>1. \A c \in Nat : ColumnAt(table, c) = DefaultColumn
      BY <1>1, EmptyTableFacts
    <2> QED BY <1>4, <2>1 DEF ColumnsInv, ColumnOK
  <1>8. FormatsInv
    <2>1. \A c, r \in Nat : CellAt(table, c, r) = BlankCell
      BY <1>1, EmptyTableFacts
    <2>2. BlankCell.fmt.set = {}
      BY DefaultsAssumption
    <2>3. \A c, r \in Nat : Inherited(lines, pos, c, r) = {}
      BY <1>4 DEF Inherited
    <2> QED BY <1>4, <2>1, <2>2, <2>3 DEF FormatsInv, FormatOK, CellMeans
  <1> QED BY <1>6, <1>7, <1>8 DEF AskedInv

(* Nothing is asked for between the words.                                 *)
LEMMA StopAsks ==
    ASSUME AskedInv, UNCHANGED <<lines, pos, table, fmtRowIdx>>,
           \/ Loading /\ pc' \in {"READ", "ROW", "COMMAND", "LOADED", "ABORTED"}
           \/ pc' = pc /\ before' = before
    PROVE  AskedInv'
  <1>1. Loading' => Loading
    BY DEF Loading
  <1>2. ColumnsInv'
    BY DEF AskedInv, ColumnsInv
  <1>3. ScopeInv'
    BY <1>1 DEF AskedInv, ScopeInv
  <1>4. FormatsInv'
    BY <1>1 DEF AskedInv, FormatsInv, Loading
  <1> QED BY <1>2, <1>3, <1>4 DEF AskedInv

(* AskedInv is kept by every word of a command.                            *)
LEMMA WordAsks ==
    ASSUME IInv, RowInv, CommandInv, AskedInv,
           \/ CommandName \/ SepWord \/ FmtWord \/ PrcsnWord \/ SummaryWord \/ DefineWord \/ ExtraWord
    PROVE  AskedInv'
  <1>1. WordOf("COMMAND") /\ pc = "COMMAND" /\ Loading
    BY DEF CommandName, SepWord, FmtWord, PrcsnWord, SummaryWord, DefineWord, ExtraWord, Argument, WordOf,
           Loading
  <1>2. ScopeInv /\ ColumnsInv /\ FormatsInv
    BY DEF AskedInv
  <1>3. CASE Stop
    BY <1>1, <1>3, StopAsks DEF Stop
  <1>4. table' = table => SameCells(table', table) /\ SameColumns(table', table)
    BY DEF SameCells, SameColumns
  <1>5. CASE ~Stop
    <2>1. CASE CommandName
      <3>1. Done /\ state = "FIRST" /\ table' = table
            /\ fmtRowIdx' = IF Word.text = "prcsn" THEN rowIdx ELSE fmtRowIdx
        BY <2>1 DEF CommandName, Argument
      <3>2. ScopeInv'
        BY <1>1, <1>2, <3>1, CommandScope
      <3>3. ColumnsInv' /\ FormatsInv'
        BY <1>1, <1>2, <1>4, <3>1, QuietWord
      <3> QED BY <3>2, <3>3 DEF AskedInv
    <2>2. CASE SepWord
      <3>1. state = "SEP" /\ Done /\ fmtRowIdx' = fmtRowIdx /\ (Word.text = "|" \/ (Word.text = "-" /\ table' = table))
        BY <1>5, <2>2, SepFacts DEF SepWord, Argument
      <3>2. ScopeInv'
        BY <1>1, <1>2, <3>1, CommandScope
      <3>3. CASE Word.text = "|"
        <4>1. ColumnsInv' /\ FormatsInv'
          BY <1>2, <2>2, <3>3, SepAsks
        <4> QED BY <3>2, <4>1 DEF AskedInv
      <3>4. CASE Word.text = "-" /\ table' = table
        <4>1. ColumnsInv' /\ FormatsInv'
          BY <1>1, <1>2, <1>4, <3>1, <3>4, QuietWord
        <4> QED BY <3>2, <4>1 DEF AskedInv
      <3> QED BY <3>1, <3>3, <3>4
    <2>3. CASE FmtWord
      <3>1. state = "FMT" /\ Done /\ fmtRowIdx' = fmtRowIdx
            /\ (Word.text = "-" => SameCells(table', table) /\ SameColumns(table', table))
        BY <2>3, FmtFacts DEF FmtWord, Argument
      <3>2. ScopeInv'
        BY <1>1, <1>2, <3>1, CommandScope
      <3>3. CASE Word.text # "-"
        <4>1. ColumnsInv' /\ FormatsInv'
          BY <1>2, <2>3, <3>3, FmtAsks
        <4> QED BY <3>2, <4>1 DEF AskedInv
      <3>4. CASE Word.text = "-"
        <4>1. ColumnsInv' /\ FormatsInv'
          BY <1>1, <1>2, <3>1, <3>4, QuietWord
        <4> QED BY <3>2, <4>1 DEF AskedInv
      <3> QED BY <3>3, <3>4
    <2>4. CASE PrcsnWord
      <3>1. /\ state = "PRCSN" /\ Done
            /\ Word.text = "reset" => fmtRowIdx' = -1 /\ table' = table
            /\ Word.text # "reset" => fmtRowIdx' = fmtRowIdx
        BY <2>4, PrcsnFacts DEF PrcsnWord, Argument
      <3>2. ScopeInv'
        BY <1>1, <1>2, <3>1, CommandScope
      <3>3. CASE Word.text # "reset"
        <4>1. ColumnsInv' /\ FormatsInv'
          BY <1>2, <2>4, <3>3, PrcsnAsks
        <4> QED BY <3>2, <4>1 DEF AskedInv
      <3>4. CASE Word.text = "reset"
        <4>1. ColumnsInv' /\ FormatsInv'
          BY <1>1, <1>2, <1>4, <3>1, <3>4, QuietWord
        <4> QED BY <3>2, <4>1 DEF AskedInv
      <3> QED BY <3>3, <3>4
    <2>5. CASE SummaryWord \/ DefineWord \/ ExtraWord
      <3>1. state \in {"SUMMARY", "DEFINE", "ERROR"} /\ Done /\ fmtRowIdx' = fmtRowIdx /\ table' = table
        BY <1>5, <2>5 DEF SummaryWord, DefineWord, ExtraWord, Argument
      <3>2. ScopeInv'
        BY <1>1, <1>2, <3>1, CommandScope
      <3>3. ColumnsInv' /\ FormatsInv'
        BY <1>1, <1>2, <1>4, <3>1, QuietWord
      <3> QED BY <3>2, <3>3 DEF AskedInv
    <2> QED BY <2>1, <2>2, <2>3, <2>4, <2>5
  <1> QED BY <1>3, <1>5

(* Evaluation keeps the formats. *)
LEMMA EvaluateAsks == ASSUME IInv, AskedInv, Evaluate PROVE AskedInv'
  <1>1. pc = "LOADED" /\ pc' = "EVALUATED" /\ UNCHANGED <<lines, pos, before>>
    BY DEF Evaluate, docVars, outVars
  <1>2. /\ SameColumns(table', table)
        /\ \A c, r \in Nat :
                \/ CellAt(table, c, r).type # "EXPR" /\ CellAt(table', c, r) = CellAt(table, c, r)
                \/ /\ CellAt(table, c, r).type = "EXPR"
                   /\ \E type \in Results : CellAt(table', c, r) = [CellAt(table, c, r) EXCEPT !.type = type]
    BY EvaluateFacts
  <1>3. \A c, r \in Nat : CellAt(table', c, r).fmt = CellAt(table, c, r).fmt
    <2> SUFFICES ASSUME NEW c \in Nat, NEW r \in Nat PROVE CellAt(table', c, r).fmt = CellAt(table, c, r).fmt
      OBVIOUS
    <2>1. CellAt(table, c, r) \in Cell
      BY CellAtType DEF IInv
    <2>2. CASE CellAt(table', c, r) = CellAt(table, c, r)
      BY <2>2
    <2>3. CASE \E type \in Results : CellAt(table', c, r) = [CellAt(table, c, r) EXCEPT !.type = type]
      BY <2>1, <2>3 DEF Cell
    <2> QED BY <1>2, <2>2, <2>3
  <1>4. ColumnsInv'
    <2> SUFFICES ASSUME NEW c \in Nat PROVE ColumnOK(table', lines', pos', c)
      BY DEF ColumnsInv
    <2>1. ColumnOK(table, lines, pos, c) /\ ColumnAt(table', c) = ColumnAt(table, c)
      BY <1>2 DEF AskedInv, ColumnsInv, SameColumns
    <2> QED BY <1>1, <2>1 DEF ColumnOK
  <1>5. FormatsInv'
    <2> SUFFICES ASSUME before = << >>, NEW c \in Nat, NEW r \in Nat PROVE FormatOK(table', lines, pos, c, r)
      BY <1>1 DEF FormatsInv, Loading
    <2>1. FormatOK(table, lines, pos, c, r)
      BY <1>1 DEF AskedInv, FormatsInv
    <2> QED BY <1>3, <2>1 DEF FormatOK
  <1>6. ScopeInv'
    BY <1>1 DEF ScopeInv, Loading
  <1> QED BY <1>4, <1>5, <1>6 DEF AskedInv

(* AskedInv is kept by every step.                                         *)
LEMMA AskedInvNext == IInv /\ RowInv /\ CommandInv /\ AskedInv /\ [Next]_vars => AskedInv'
  <1> SUFFICES ASSUME IInv, RowInv, CommandInv, AskedInv, [Next]_vars PROVE AskedInv'
    OBVIOUS
  <1>1. ASSUME NEW l \in Lines, EmptyLine(l) \/ CommentLine(l) \/ WordsLine(l) PROVE AskedInv'
    BY <1>1, LineAsks DEF AskedInv
  <1>2. CASE \/ CommandName \/ SepWord \/ FmtWord \/ PrcsnWord \/ SummaryWord \/ DefineWord \/ ExtraWord
    BY <1>2, WordAsks
  <1>3. CASE RowCell
    BY <1>3, RowCellAsks DEF AskedInv
  <1>4. CASE EndRow \/ EndCommand \/ EndOfFile
    <2>1. /\ UNCHANGED <<lines, pos, table, fmtRowIdx>> /\ Loading
          /\ pc' \in {"READ", "LOADED"}
      BY <1>4 DEF EndRow, EndCommand, EndOfFile, Loading
    <2> QED BY <2>1, StopAsks
  <1>5. CASE Evaluate
    BY <1>5, EvaluateAsks
  <1>6. CASE CompleteFormats \/ PrintRow \/ EndPrint \/ Again
    <2>1. UNCHANGED <<lines, pos>> /\ SameColumns(table', table)
      <3>1. CompleteFormats => SameColumns(table', table)
        BY CompleteFacts
      <3>2. table' = table => SameColumns(table', table)
        BY DEF SameColumns
      <3> QED BY <1>6, <3>1, <3>2 DEF CompleteFormats, PrintRow, EndPrint, Again, docVars
    <2>2. ~Loading' /\ ~(pc' \in {"LOADED", "EVALUATED"} /\ before' = << >>)
      BY <1>6 DEF CompleteFormats, PrintRow, EndPrint, Again, Loading
    <2>3. ColumnsInv'
      <3> SUFFICES ASSUME NEW c \in Nat PROVE ColumnOK(table', lines', pos', c)
        BY DEF ColumnsInv
      <3>1. ColumnOK(table, lines, pos, c) /\ ColumnAt(table', c) = ColumnAt(table, c)
        BY <2>1 DEF AskedInv, ColumnsInv, SameColumns
      <3> QED BY <2>1, <3>1 DEF ColumnOK
    <2> QED BY <2>2, <2>3 DEF AskedInv, ScopeInv, FormatsInv
  <1>7. CASE Exit \/ UNCHANGED vars
    <2>1. UNCHANGED <<lines, pos, table, fmtRowIdx, pc, before>>
      BY <1>7 DEF Exit, vars
    <2> QED BY <2>1, StopAsks
  <1> QED BY <1>1, <1>2, <1>3, <1>4, <1>5, <1>6, <1>7 DEF Next, LoaderNext

(* Every behaviour keeps it.                                               *)
LEMMA AlwaysAskedInv == Spec => []AskedInv
  BY AskedInvInit, AskedInvNext, AlwaysIInv, AlwaysRowInv, AlwaysCommandInv, PTL DEF Spec

-----------------------------------------------------------------------------
(* What the lines mean is what they ask for, once they are read to the     *)
(* end.                                                                    *)

(* In a file that is read to its end every word is read.                   *)
LEMMA WholeWords ==
    ASSUME lines \in Seq(Lines), Whole(lines, pos), NEW i \in LineNos,
           lines[i].type \in {"ROW", "COMMAND"}
    PROVE  /\ WordsRead(lines, pos, i) = Len(lines[i].words) /\ Len(lines[i].words) \in Nat
           /\ lines[i].words # << >> <=> Len(lines[i].words) > 0
  <1>1. lines[i] \in Lines /\ lines # << >>
    <2>1. i \in 1..Len(lines)
      BY DEF LineNos
    <2> QED BY <2>1, ElementOfSeq, EmptySeq
  <1>2. lines[i].words \in Seq(IF lines[i].type = "ROW" THEN CellText ELSE CommandWord)
    BY <1>1, LinesAssumption
  <1>3. Len(lines[i].words) \in Nat /\ (lines[i].words # << >> <=> Len(lines[i].words) > 0)
    BY <1>2, EmptySeq, LenProperties
  <1>4. WordsRead(lines, pos, i) = Len(lines[i].words)
    BY <1>1 DEF Whole, WordsRead
  <1> QED BY <1>3, <1>4

(* Then the commands that give a word are those that have it.              *)
LEMMA WholeCommands ==
    ASSUME lines \in Seq(Lines), Whole(lines, pos), NEW name, NEW k \in Nat
    PROVE  Given(lines, pos, name, k) = {i \in LineNos : IsCommand(i, name) /\ HasArg(i, k)}
  <1> SUFFICES ASSUME NEW i \in LineNos
               PROVE  i \in Given(lines, pos, name, k) <=> IsCommand(i, name) /\ HasArg(i, k)
    BY DEF Given, LineNos
  <1>1. CASE lines[i].type = "COMMAND"
    <2>1. /\ WordsRead(lines, pos, i) = Len(lines[i].words) /\ Len(lines[i].words) \in Nat
          /\ lines[i].words # << >> <=> Len(lines[i].words) > 0
      BY <1>1, WholeWords
    <2>2. k < Len(lines[i].words) <=> k + 1 <= Len(lines[i].words)
      BY <2>1
    <2>3. k < Len(lines[i].words) => lines[i].words # << >>
      BY <2>1
    <2>4. i \in 1..Len(lines)
      BY DEF LineNos
    <2> QED BY <1>1, <2>1, <2>2, <2>3, <2>4 DEF Given, IsCommand, HasArg
  <1>2. CASE lines[i].type # "COMMAND"
    BY <1>2 DEF Given, IsCommand
  <1> QED BY <1>1, <1>2

(* Whether a reset is among the arguments of a command.                    *)
LEMMA ResetAmong ==
    ASSUME NEW i, NEW k
    PROVE  "reset" \in ArgsBefore(i, k) <=> ~NoReset(lines, i, k)
  BY DEF ArgsBefore, NoReset, Arg, WordAt

(* What is asked for is what the file says, column by column.              *)
LEMMA WholeAsks ==
    ASSUME lines \in Seq(Lines), Whole(lines, pos), NEW c \in Nat
    PROVE  /\ \A r : Direct(c, r) = DirectOf(lines, pos, c, r)
           /\ Formats(c) = FormatsOf(lines, pos, c)
           /\ {i \in Formats(c) : Arg(i, c + 1).width # None} = WidthsOf(lines, pos, c)
           /\ {i \in LineNos : IsCommand(i, "sep") /\ c > 0 /\ HasArg(i, c) /\ Arg(i, c).text = "|"}
                = BarsOf(lines, pos, c)
  <1>1. \A name : \A k \in Nat :
            Given(lines, pos, name, k) = {i \in LineNos : IsCommand(i, name) /\ HasArg(i, k)}
    BY WholeCommands
  <1>2. c + 1 \in Nat
    OBVIOUS
  <1>3. \A i, k : Arg(i, k) = WordAt(lines, i, k) /\ RowsBefore(i) = RowNo(lines, i)
    BY RowsBeforeIsRowNo DEF Arg, WordAt
  <1>4. ASSUME NEW r PROVE Direct(c, r) = DirectOf(lines, pos, c, r)
    BY <1>1, <1>2, <1>3, ResetAmong DEF Direct, DirectOf
  <1>5. Formats(c) = FormatsOf(lines, pos, c)
    BY <1>1, <1>2, <1>3 DEF Formats, FormatsOf
  <1>6. {i \in Formats(c) : Arg(i, c + 1).width # None} = WidthsOf(lines, pos, c)
    BY <1>3, <1>5 DEF WidthsOf
  <1>7. {i \in LineNos : IsCommand(i, "sep") /\ c > 0 /\ HasArg(i, c) /\ Arg(i, c).text = "|"}
                = BarsOf(lines, pos, c)
    BY <1>1, <1>3 DEF BarsOf
  <1> QED BY <1>4, <1>5, <1>6, <1>7

(* Where a row inherits from, told from its line.                          *)
LEMMA WholeScope ==
    ASSUME lines \in Seq(Lines), Whole(lines, pos), NEW r, NEW l, RowLine(lines, l), RowNo(lines, l) = r
    PROVE  Scope(r) = ScopeOf(lines, pos, l)
  <1> DEFINE T == TurnsOf(lines, pos, l)
             prcsns == {i \in LineNos : IsCommand(i, "prcsn")}
             blanks == {i \in LineNos : lines[i].type = "EMPTY"}
             turns == {i \in prcsns \cup blanks : \E k \in LineOfRow(r) : i < k}
  <1>1. l \in 1..Len(lines) /\ Len(lines) \in Nat /\ l \in Nat
    BY LenProperties DEF RowLine
  <1>2. \A i : RowsBefore(i) = RowNo(lines, i)
    BY RowsBeforeIsRowNo
  <1>3. LineOfRow(r) = {l}
    <2>1. \A k : k \in LineOfRow(r) <=> RowLine(lines, k) /\ RowNo(lines, k) = r
      BY <1>2 DEF LineOfRow, LineNos, RowLine
    <2> QED BY <2>1, OneLine
  <1>4. ASSUME NEW i \in LineNos PROVE IsCommand(i, "prcsn") <=> i \in Given(lines, pos, "prcsn", 0)
    <2>1. Given(lines, pos, "prcsn", 0) = {j \in LineNos : IsCommand(j, "prcsn") /\ HasArg(j, 0)}
      BY WholeCommands
    <2>2. IsCommand(i, "prcsn") => HasArg(i, 0)
      <3>1. IsCommand(i, "prcsn") => Len(lines[i].words) \in Nat /\ Len(lines[i].words) > 0
        BY WholeWords DEF IsCommand
      <3> QED BY <3>1 DEF HasArg
    <2> QED BY <2>1, <2>2
  <1>5. turns = T
    <2>1. \A i \in LineNos : i < l <=> i \in 1..(l - 1)
      BY <1>1 DEF LineNos
    <2>2. \A i \in 1..(l - 1) : i \in LineNos
      BY <1>1 DEF LineNos
    <2> QED BY <1>3, <1>4, <2>1, <2>2 DEF TurnsOf
  <1>6. Scope(r) =
            IF turns = {} \/ Last(turns) \in blanks
               \/ "reset" \in ArgsBefore(Last(turns), Len(lines[Last(turns)].words) - 1)
            THEN {} ELSE {RowsBefore(Last(turns))}
    BY DEF Scope
  <1>7. CASE T = {}
    BY <1>5, <1>6, <1>7 DEF ScopeOf
  <1>8. CASE T # {}
    <2> DEFINE last == Last(T)
    <2>1. last \in 1..(l - 1) /\ (lines[last].type # "EMPTY" => last \in Given(lines, pos, "prcsn", 0))
      BY <1>1, <1>8, TurnsFacts
    <2> HIDE DEF last
    <2>2. last \in LineNos
      BY <1>1, <2>1 DEF LineNos
    <2>3. last \in blanks <=> lines[last].type = "EMPTY"
      BY <2>2
    <2>4. lines[last].type # "EMPTY" => lines[last].type = "COMMAND"
      BY <2>1 DEF Given
    <2>5. lines[last].type # "EMPTY" => WordsRead(lines, pos, last) = Len(lines[last].words)
      BY <2>2, <2>4, WholeWords
    <2>6. Scope(r) =
            IF last \in blanks \/ "reset" \in ArgsBefore(last, Len(lines[last].words) - 1)
            THEN {} ELSE {RowsBefore(last)}
      BY <1>5, <1>6, <1>8 DEF last
    <2>7. "reset" \in ArgsBefore(last, Len(lines[last].words) - 1)
            <=> ~NoReset(lines, last, Len(lines[last].words) - 1)
      BY ResetAmong
    <2>8. Scope(r) = IF lines[last].type = "EMPTY" \/ ~NoReset(lines, last, Len(lines[last].words) - 1)
                     THEN {} ELSE {RowNo(lines, last)}
      BY <1>2, <2>3, <2>6, <2>7
    <2>9. ScopeOf(lines, pos, l) =
                IF lines[last].type = "EMPTY" \/ ~NoReset(lines, last, WordsRead(lines, pos, last) - 1)
                THEN {} ELSE {RowNo(lines, last)}
      BY <1>8 DEF ScopeOf, last
    <2> QED BY <2>5, <2>8, <2>9
  <1> QED BY <1>7, <1>8

(* The top row inherits from itself only. *)
LEMMA TopScope ==
    ASSUME lines \in Seq(Lines), Whole(lines, pos)
    PROVE  Scope(0) \in SUBSET {0}
  <1>1. CASE LineOfRow(0) = {}
    BY <1>1 DEF Scope
  <1>2. CASE LineOfRow(0) # {}
    <2>1. PICK l : l \in LineOfRow(0)
      BY <1>2
    <2>2. RowLine(lines, l) /\ RowNo(lines, l) = 0 /\ l \in Nat \ {0}
      BY <2>1, RowsBeforeIsRowNo, LenProperties DEF LineOfRow, LineNos, RowLine
    <2>3. Scope(0) = ScopeOf(lines, pos, l)
      BY <2>2, WholeScope
    <2>4. ASSUME NEW k \in ScopeOf(lines, pos, l) PROVE k = 0
      <3>1. k \in Nat /\ k <= RowNo(lines, l)
        BY <2>2, ScopeRows
      <3> QED BY <2>2, <3>1
    <2> QED BY <2>3, <2>4
  <1> QED BY <1>1, <1>2

(* The first source that says something counts.                            *)
LEMMA MeantPrcsnIs ==
    ASSUME NEW c, NEW r, NEW D, NEW I, NEW T, D = Direct(c, r), I = UNION {Direct(c, k) : k \in Scope(r)},
           T = Direct(c, 0)
    PROVE  /\ D # {} => MeantPrcsn(c, r) = PrcsnOf(Arg(Last(D), c + 1))
           /\ D = {} /\ I # {} => MeantPrcsn(c, r) = PrcsnOf(Arg(Last(I), c + 1))
           /\ D = {} /\ I = {} /\ T # {} => MeantPrcsn(c, r) = PrcsnOf(Arg(Last(T), c + 1))
           /\ D = {} /\ I = {} /\ T = {} =>
                MeantPrcsn(c, r) = IF Formats(c) # {} THEN FmtOf(Arg(First(Formats(c)), c + 1)).prcsn
                                   ELSE DefaultPrcsn
  <1> DEFINE sources == <<D, I, T>>
             by == {k \in 1..3 : sources[k] # {}}
  <1>1. MeantPrcsn(c, r) =
            IF by # {} THEN PrcsnOf(Arg(Last(sources[First(by)]), c + 1))
            ELSE IF Formats(c) # {} THEN FmtOf(Arg(First(Formats(c)), c + 1)).prcsn
            ELSE DefaultPrcsn
    BY DEF MeantPrcsn
  <1>2. sources[1] = D /\ sources[2] = I /\ sources[3] = T /\ \A k \in 1..3 : k = 1 \/ k = 2 \/ k = 3
    OBVIOUS
  <1> HIDE DEF sources
  <1>3. /\ 1 \in by <=> D # {}
        /\ 2 \in by <=> I # {}
        /\ 3 \in by <=> T # {}
        /\ by \in SUBSET Nat /\ \A k \in by : k = 1 \/ k = 2 \/ k = 3
    BY <1>2
  <1> HIDE DEF by
  <1>4. CASE D # {}
    <2>1. 1 \in by /\ \A j \in by : 1 <= j
      BY <1>3, <1>4
    <2>2. First(by) = 1
      BY <1>3, <2>1, FirstIs
    <2> QED BY <1>1, <1>2, <1>4, <2>1, <2>2
  <1>5. CASE D = {} /\ I # {}
    <2>1. 2 \in by /\ \A j \in by : 2 <= j
      BY <1>3, <1>5
    <2>2. First(by) = 2
      BY <1>3, <2>1, FirstIs
    <2> QED BY <1>1, <1>2, <1>5, <2>1, <2>2
  <1>6. CASE D = {} /\ I = {} /\ T # {}
    <2>1. 3 \in by /\ \A j \in by : 3 <= j
      BY <1>3, <1>6
    <2>2. First(by) = 3
      BY <1>3, <2>1, FirstIs
    <2> QED BY <1>1, <1>2, <1>6, <2>1, <2>2
  <1>7. CASE D = {} /\ I = {} /\ T = {}
    <2>1. by = {}
      BY <1>3, <1>7
    <2> QED BY <1>1, <1>7, <2>1
  <1> QED BY <1>4, <1>5, <1>6, <1>7

Aligns(F) == {f.align : f \in F}
Prcsns(F) == {f.prcsn : f \in F}

(* A completed format m: the cell's h, then the top of its column, then the *)
(* defaults.                                                               *)
Layers(F, D, I, T, J, h, top, m) ==
    /\ h \in Fmt /\ top \in Fmt
    /\ CellMeans(F, D, I, T, h)
    /\ CellMeans(F, T, J, T, top) /\ J \in SUBSET T
    /\ F # {} => top.set = {"ALIGN", "PRCSN"}
    /\ m = MergeHeader(h, MergeHeader(top, DefaultHeader))

FirstSaid(F, D, I, T, m) ==
    /\ D # {} => m.prcsn \in D
    /\ D = {} /\ I # {} => m.prcsn \in I
    /\ D = {} /\ I = {} /\ T # {} => m.prcsn \in T
    /\ D = {} /\ I = {} /\ T = {} /\ F # {} => m.prcsn \in Prcsns(F)
    /\ D = {} /\ I = {} /\ T = {} /\ F = {} => m.prcsn = DefaultPrcsn
    /\ F # {} => m.align \in Aligns(F)
    /\ F = {} => m.align = DefaultHeader.align

(* The first of these that says something counts.                          *)
LEMMA CompletedMeans ==
    ASSUME NEW F, NEW D, NEW I, NEW T, NEW J, NEW h, NEW top, NEW m, Layers(F, D, I, T, J, h, top, m)
    PROVE  FirstSaid(F, D, I, T, m)
  <1>0. /\ h \in Fmt /\ top \in Fmt
        /\ CellMeans(F, D, I, T, h)
        /\ CellMeans(F, T, J, T, top) /\ J \in SUBSET T
        /\ F # {} => top.set = {"ALIGN", "PRCSN"}
        /\ m = MergeHeader(h, MergeHeader(top, DefaultHeader))
    BY DEF Layers
  <1> DEFINE d == MergeHeader(top, DefaultHeader)
  <1>1. /\ d.align = IF "ALIGN" \in top.set THEN top.align ELSE DefaultHeader.align
        /\ d.prcsn = IF "PRCSN" \in top.set THEN top.prcsn ELSE DefaultPrcsn
    BY DEF MergeHeader, DefaultHeader
  <1> HIDE DEF d
  <1>2. /\ m.align = IF "ALIGN" \in h.set THEN h.align ELSE d.align
        /\ m.prcsn = IF "PRCSN" \in h.set THEN h.prcsn ELSE d.prcsn
    BY <1>0 DEF MergeHeader, d
  <1>3. "ALIGN" \in h.set => h.align \in {f.align : f \in F}
    BY <1>0 DEF CellMeans
  <1>4. "ALIGN" \in top.set => top.align \in {f.align : f \in F}
    BY <1>0 DEF CellMeans
  <1>5. F # {} => m.align \in {f.align : f \in F}
    BY <1>0, <1>1, <1>2, <1>3, <1>4
  <1>6. F = {} => m.align = DefaultHeader.align
    <2>1. F = {} => {f.align : f \in F} = {}
      OBVIOUS
    <2> QED BY <1>0, <1>1, <1>2, <1>3, <1>4, <2>1
  <1>7. T # {} => d.prcsn \in T
    BY <1>0, <1>1 DEF CellMeans
  <1>8. T = {} /\ F # {} => d.prcsn \in {f.prcsn : f \in F}
    <2> SUFFICES ASSUME T = {}, F # {} PROVE d.prcsn \in {f.prcsn : f \in F}
      OBVIOUS
    <2>1. J = {} /\ "PRCSN" \in top.set
      BY <1>0
    <2>2. top.prcsn \in {f.prcsn : f \in F}
      BY <1>0, <2>1 DEF CellMeans
    <2> QED BY <1>0, <1>1, <2>1, <2>2
  <1>9. T = {} /\ F = {} => d.prcsn = DefaultPrcsn
    <2> SUFFICES ASSUME T = {}, F = {} PROVE d.prcsn = DefaultPrcsn
      OBVIOUS
    <2>1. J = {} /\ {f.prcsn : f \in F} = {}
      BY <1>0
    <2>2. "PRCSN" \notin top.set
      BY <1>0, <2>1 DEF CellMeans
    <2> QED BY <1>0, <1>1, <2>2
  <1>10. D # {} => m.prcsn \in D
    BY <1>0, <1>2 DEF CellMeans
  <1>11. D = {} /\ I # {} => m.prcsn \in I
    BY <1>0, <1>2 DEF CellMeans
  <1>12. D = {} /\ I = {} /\ "PRCSN" \in h.set => T = {} /\ h.prcsn \in {f.prcsn : f \in F}
    BY <1>0 DEF CellMeans
  <1>13. D = {} /\ I = {} /\ T # {} => m.prcsn \in T
    BY <1>0, <1>2, <1>7, <1>12
  <1>14. D = {} /\ I = {} /\ T = {} /\ F # {} => m.prcsn \in {f.prcsn : f \in F}
    BY <1>0, <1>2, <1>8, <1>12
  <1>15. D = {} /\ I = {} /\ T = {} /\ F = {} => m.prcsn = DefaultPrcsn
    <2>1. F = {} => {f.prcsn : f \in F} = {}
      OBVIOUS
    <2> QED BY <1>0, <1>2, <1>9, <1>12, <2>1
  <1> QED BY <1>0, <1>5, <1>6, <1>10, <1>11, <1>13, <1>14, <1>15 DEF Aligns, Prcsns, FirstSaid

(* The sets of what is asked for are what is meant, or empty.              *)
LEMMA AskedIs ==
    ASSUME lines \in Seq(Lines), Whole(lines, pos), NEW c \in Nat
    PROVE  /\ \A r \in Nat : AskedPrcsn(lines, pos, c, r) =
                IF Direct(c, r) = {} THEN {} ELSE {PrcsnOf(Arg(Last(Direct(c, r)), c + 1))}
           /\ AskedFmt(lines, pos, c) =
                IF Formats(c) = {} THEN {} ELSE {FmtOf(Arg(First(Formats(c)), c + 1))}
           /\ LET widths == {i \in Formats(c) : Arg(i, c + 1).width # None} IN
              AskedWidth(lines, pos, c) =
                IF widths = {} THEN {} ELSE {Arg(Last(widths), c + 1).width}
  <1>1. Len(lines) \in Nat /\ \A i, k : Arg(i, k) = WordAt(lines, i, k)
    BY LenProperties DEF Arg, WordAt
  <1>2. ASSUME NEW S \in SUBSET (1..Len(lines)), S # {}
        PROVE  First(S) \in S /\ Last(S) \in S
    <2>1. S \in SUBSET Nat /\ \A j \in S : j <= Len(lines)
      BY <1>1, <1>2
    <2> QED BY <1>1, <1>2, <2>1, FirstFacts, LastFacts
  <1>3. \A S \in SUBSET (1..Len(lines)) :
            /\ {i \in S : i = First(S)} = IF S = {} THEN {} ELSE {First(S)}
            /\ {i \in S : i = Last(S)} = IF S = {} THEN {} ELSE {Last(S)}
    <2> SUFFICES ASSUME NEW S \in SUBSET (1..Len(lines))
                 PROVE  /\ {i \in S : i = First(S)} = IF S = {} THEN {} ELSE {First(S)}
                        /\ {i \in S : i = Last(S)} = IF S = {} THEN {} ELSE {Last(S)}
      OBVIOUS
    <2>1. CASE S = {}
      BY <2>1
    <2>2. CASE S # {}
      BY <1>2, <2>2
    <2> QED BY <2>1, <2>2
  <1>4. /\ \A r : Direct(c, r) = DirectOf(lines, pos, c, r) /\ Direct(c, r) \in SUBSET (1..Len(lines))
        /\ Formats(c) = FormatsOf(lines, pos, c) /\ Formats(c) \in SUBSET (1..Len(lines))
        /\ {i \in Formats(c) : Arg(i, c + 1).width # None} = WidthsOf(lines, pos, c)
        /\ WidthsOf(lines, pos, c) \in SUBSET (1..Len(lines))
    BY WholeAsks DEF Direct, Formats, LineNos, WidthsOf, FormatsOf
  <1>5. ASSUME NEW r \in Nat
        PROVE  AskedPrcsn(lines, pos, c, r) =
                IF Direct(c, r) = {} THEN {} ELSE {PrcsnOf(Arg(Last(Direct(c, r)), c + 1))}
    <2> DEFINE S == Direct(c, r)
    <2>1. AskedPrcsn(lines, pos, c, r) = {PrcsnOf(Arg(i, c + 1)) : i \in {i \in S : i = Last(S)}}
      BY <1>1, <1>4 DEF AskedPrcsn
    <2>2. {i \in S : i = Last(S)} = IF S = {} THEN {} ELSE {Last(S)}
      BY <1>3, <1>4
    <2> HIDE DEF S
    <2>3. AskedPrcsn(lines, pos, c, r) = IF S = {} THEN {} ELSE {PrcsnOf(Arg(Last(S), c + 1))}
      BY <2>1, <2>2
    <2> QED BY <2>3 DEF S
  <1>6. AskedFmt(lines, pos, c) =
                IF Formats(c) = {} THEN {} ELSE {FmtOf(Arg(First(Formats(c)), c + 1))}
    <2> DEFINE S == Formats(c)
    <2>1. AskedFmt(lines, pos, c) = {FmtOf(Arg(i, c + 1)) : i \in {i \in S : i = First(S)}}
      BY <1>1, <1>4 DEF AskedFmt
    <2>2. {i \in S : i = First(S)} = IF S = {} THEN {} ELSE {First(S)}
      BY <1>3, <1>4
    <2> HIDE DEF S
    <2>3. AskedFmt(lines, pos, c) = IF S = {} THEN {} ELSE {FmtOf(Arg(First(S), c + 1))}
      BY <2>1, <2>2
    <2> QED BY <2>3 DEF S
  <1>7. LET widths == {i \in Formats(c) : Arg(i, c + 1).width # None} IN
              AskedWidth(lines, pos, c) =
                IF widths = {} THEN {} ELSE {Arg(Last(widths), c + 1).width}
    <2> DEFINE S == {i \in Formats(c) : Arg(i, c + 1).width # None}
    <2>1. AskedWidth(lines, pos, c) = {Arg(i, c + 1).width : i \in {i \in S : i = Last(S)}}
      BY <1>1, <1>4 DEF AskedWidth
    <2>2. {i \in S : i = Last(S)} = IF S = {} THEN {} ELSE {Last(S)}
      BY <1>3, <1>4
    <2>3. AskedWidth(lines, pos, c) = IF S = {} THEN {} ELSE {Arg(Last(S), c + 1).width}
      <3> HIDE DEF S
      <3> QED BY <2>1, <2>2
    <2> QED BY <2>3
  <1> QED BY <1>5, <1>6, <1>7

(* The formats of a cell, once they are completed, are what is meant.      *)
LEMMA FormatMeant ==
    ASSUME lines \in Seq(Lines), Whole(lines, pos), NEW t, IsTable(t), NEW c \in Nat, NEW r \in Nat,
           FormatOK(t, lines, pos, c, r), FormatOK(t, lines, pos, c, 0)
    PROVE  /\ (r = 0 \/ \E i : CellLine(lines, pos, c, r, i)) => CompletedFmt(t, c, r).prcsn = MeantPrcsn(c, r)
           /\ CompletedFmt(t, c, r).align = MeantAlign(c)
  <1> DEFINE F == AskedFmt(lines, pos, c)
             D == AskedPrcsn(lines, pos, c, r)
             I == Inherited(lines, pos, c, r)
             T == AskedPrcsn(lines, pos, c, 0)
             J == Inherited(lines, pos, c, 0)
             h == CellAt(t, c, r).fmt
             top == CellAt(t, c, 0).fmt
             m == CompletedFmt(t, c, r)
             inh == UNION {Direct(c, k) : k \in Scope(r)}
             P(S) == PrcsnOf(Arg(Last(S), c + 1))
  <1>1. h \in Fmt /\ top \in Fmt
    <2>1. CellAt(t, c, r) \in Cell /\ CellAt(t, c, 0) \in Cell
      BY CellAtType
    <2> QED BY <2>1 DEF Cell
  <1>2. CellMeans(F, D, I, T, h) /\ CellMeans(F, T, J, T, top) /\ (F # {} => top.set = {"ALIGN", "PRCSN"})
    BY DEF FormatOK
  <1>3. \A k \in Donors(lines, pos, c, 0) : k = 0
    <2>1. \A k \in Donors(lines, pos, c, 0) : k \in Nat /\ k <= 0
      BY DonorsFacts
    <2> QED BY <2>1
  <1>4. J \in SUBSET T
    BY <1>3 DEF Inherited
  <1>5. m = MergeHeader(h, MergeHeader(top, DefaultHeader))
    BY DEF CompletedFmt
  <1>6. /\ D = IF Direct(c, r) = {} THEN {} ELSE {P(Direct(c, r))}
        /\ T = IF Direct(c, 0) = {} THEN {} ELSE {P(Direct(c, 0))}
        /\ F = IF Formats(c) = {} THEN {} ELSE {FmtOf(Arg(First(Formats(c)), c + 1))}
    BY AskedIs
  <1>7. /\ Direct(c, r) # {} => MeantPrcsn(c, r) = P(Direct(c, r))
        /\ Direct(c, r) = {} /\ inh # {} => MeantPrcsn(c, r) = P(inh)
        /\ Direct(c, r) = {} /\ inh = {} /\ Direct(c, 0) # {} => MeantPrcsn(c, r) = P(Direct(c, 0))
        /\ Direct(c, r) = {} /\ inh = {} /\ Direct(c, 0) = {} =>
                MeantPrcsn(c, r) = IF Formats(c) # {} THEN FmtOf(Arg(First(Formats(c)), c + 1)).prcsn
                                   ELSE DefaultPrcsn
    BY MeantPrcsnIs
  <1>8. (r = 0 \/ \E i : CellLine(lines, pos, c, r, i)) =>
            \/ I = IF inh = {} THEN {} ELSE {P(inh)}
            \/ I \in SUBSET D /\ inh \in SUBSET Direct(c, r)
    <2>1. ASSUME NEW l, CellLine(lines, pos, c, r, l)
          PROVE  I = IF inh = {} THEN {} ELSE {P(inh)}
      <3>1. Donors(lines, pos, c, r) = ScopeOf(lines, pos, l)
        BY <2>1, DonorsFacts
      <3>2. Scope(r) = ScopeOf(lines, pos, l)
        BY <2>1, WholeScope DEF CellLine
      <3>3. CASE Scope(r) = {}
        BY <3>1, <3>2, <3>3 DEF Inherited
      <3>4. CASE Scope(r) # {}
        <4>1. PICK k : Scope(r) = {k}
          BY <3>4 DEF Scope
        <4>2. k \in Nat
          BY <3>1, <3>2, <4>1, DonorsFacts
        <4>3. inh = Direct(c, k) /\ I = AskedPrcsn(lines, pos, c, k)
          BY <3>1, <3>2, <4>1 DEF Inherited
        <4>4. AskedPrcsn(lines, pos, c, k) = IF Direct(c, k) = {} THEN {} ELSE {P(Direct(c, k))}
          BY <4>2, AskedIs
        <4> QED BY <4>3, <4>4
      <3> QED BY <3>3, <3>4
    <2>2. ASSUME r = 0 PROVE I \in SUBSET D /\ inh \in SUBSET Direct(c, r)
      <3>1. Scope(0) \in SUBSET {0}
        BY TopScope
      <3> QED BY <1>3, <2>2, <3>1 DEF Inherited
    <2> QED BY <2>1, <2>2
  <1>9. MeantAlign(c) = IF Formats(c) = {} THEN DefaultHeader.align
                        ELSE FmtOf(Arg(First(Formats(c)), c + 1)).align
    BY DEF MeantAlign
  <1> DEFINE f == FmtOf(Arg(First(Formats(c)), c + 1))
  <1> HIDE DEF F, D, I, T, J, h, top, m, inh, P, f
  <1>10. /\ D # {} => m.prcsn \in D
         /\ D = {} /\ I # {} => m.prcsn \in I
         /\ D = {} /\ I = {} /\ T # {} => m.prcsn \in T
         /\ D = {} /\ I = {} /\ T = {} /\ F # {} => m.prcsn \in Prcsns(F)
         /\ D = {} /\ I = {} /\ T = {} /\ F = {} => m.prcsn = DefaultPrcsn
         /\ F # {} => m.align \in Aligns(F)
         /\ F = {} => m.align = DefaultHeader.align
    <2>1. Layers(F, D, I, T, J, h, top, m)
      BY <1>1, <1>2, <1>4, <1>5 DEF Layers
    <2>2. FirstSaid(F, D, I, T, m)
      BY <2>1, CompletedMeans
    <2> QED BY <2>2 DEF FirstSaid
  <1>11. F = {} <=> Formats(c) = {}
    BY <1>6
  <1>12. F # {} => Prcsns(F) = {f.prcsn} /\ Aligns(F) = {f.align}
    BY <1>6 DEF f, Aligns, Prcsns
  <1>13. m.align = MeantAlign(c)
    BY <1>9, <1>10, <1>11, <1>12 DEF f
  <1>14. ASSUME r = 0 \/ \E i : CellLine(lines, pos, c, r, i)
         PROVE  m.prcsn = MeantPrcsn(c, r)
    <2>1. \/ I = IF inh = {} THEN {} ELSE {P(inh)}
          \/ I \in SUBSET D /\ inh \in SUBSET Direct(c, r)
      BY <1>8, <1>14
    <2>2. CASE Direct(c, r) # {}
      <3>1. D = {P(Direct(c, r))} /\ MeantPrcsn(c, r) = P(Direct(c, r))
        BY <1>6, <1>7, <2>2
      <3> QED BY <1>10, <3>1
    <2>3. CASE Direct(c, r) = {}
      <3>1. D = {}
        BY <1>6, <2>3
      <3>2. I = IF inh = {} THEN {} ELSE {P(inh)}
        BY <2>1, <2>3, <3>1
      <3>3. CASE inh # {}
        BY <1>7, <1>10, <2>3, <3>1, <3>2, <3>3
      <3>4. CASE inh = {} /\ Direct(c, 0) # {}
        <4>1. I = {} /\ T = {P(Direct(c, 0))}
          BY <1>6, <3>2, <3>4
        <4> QED BY <1>7, <1>10, <2>3, <3>1, <3>4, <4>1
      <3>5. CASE inh = {} /\ Direct(c, 0) = {}
        <4>1. I = {} /\ T = {}
          BY <1>6, <3>2, <3>5
        <4>2. MeantPrcsn(c, r) = IF Formats(c) # {} THEN f.prcsn ELSE DefaultPrcsn
          BY <1>7, <2>3, <3>5 DEF f
        <4>3. CASE F = {}
          <5>1. m.prcsn = DefaultPrcsn
            BY <1>10, <3>1, <4>1, <4>3
          <5> QED BY <1>11, <4>2, <4>3, <5>1
        <4>4. CASE F # {}
          <5>1. m.prcsn \in Prcsns(F)
            BY <1>10, <3>1, <4>1, <4>4
          <5> QED BY <1>11, <1>12, <4>2, <4>4, <5>1
        <4> QED BY <4>3, <4>4
      <3> QED BY <3>3, <3>4, <3>5
    <2> QED BY <2>2, <2>3
  <1> QED BY <1>13, <1>14 DEF m

(* So are the columns.                                                     *)
LEMMA ColumnMeant ==
    ASSUME lines \in Seq(Lines), Whole(lines, pos), NEW t, NEW c \in Nat, ColumnOK(t, lines, pos, c)
    PROVE  /\ ColumnAt(t, c).width = MeantColumn(c).width
           /\ ColumnAt(t, c).sep = MeantColumn(c).sep
  <1> DEFINE widths == {i \in Formats(c) : Arg(i, c + 1).width # None}
             bars == {i \in LineNos : IsCommand(i, "sep") /\ c > 0 /\ HasArg(i, c) /\ Arg(i, c).text = "|"}
             width == IF widths = {} THEN DefaultColumn.width
                      ELSE Larger(Arg(Last(widths), c + 1).width, MinWidth)
             sep == IF bars = {} THEN DefaultColumn.sep ELSE Bar
  <1>1. MeantColumn(c) = [width |-> width, sep |-> sep]
    BY DEF MeantColumn
  <1>2. bars = BarsOf(lines, pos, c)
    BY WholeAsks
  <1>3. AskedWidth(lines, pos, c) = IF widths = {} THEN {} ELSE {Arg(Last(widths), c + 1).width}
    BY AskedIs
  <1>4. ColumnAt(t, c).width = width
    <2> HIDE DEF widths
    <2>1. CASE widths = {}
      BY <1>3, <2>1 DEF ColumnOK
    <2>2. CASE widths # {}
      BY <1>3, <2>2 DEF ColumnOK
    <2> QED BY <2>1, <2>2
  <1>5. ColumnAt(t, c).sep = sep
    BY <1>2 DEF ColumnOK
  <1> HIDE DEF width, sep
  <1> QED BY <1>1, <1>4, <1>5

(* What is meant is told from the lines alone.                             *)
LEMMA SameMeaning ==
    ASSUME lines' = lines
    PROVE  /\ \A c, r : MeantPrcsn(c, r)' = MeantPrcsn(c, r)
           /\ \A c : MeantAlign(c)' = MeantAlign(c) /\ MeantColumn(c)' = MeantColumn(c)
           /\ MeantBody' = MeantBody /\ MeantFoot' = MeantFoot
  <1>1. /\ LineNos' = LineNos
        /\ \A i, name : IsCommand(i, name)' <=> IsCommand(i, name)
        /\ \A i, k : (HasArg(i, k)' <=> HasArg(i, k)) /\ Arg(i, k)' = Arg(i, k)
    BY DEF LineNos, IsCommand, HasArg, Arg
  <1>2. \A i, k : ArgsBefore(i, k)' = ArgsBefore(i, k)
    BY <1>1 DEF ArgsBefore
  <1>3. \A i : RowsBefore(i)' = RowsBefore(i)
    BY DEF RowsBefore
  <1>4. \A c, r : Direct(c, r)' = Direct(c, r)
    BY <1>1, <1>2, <1>3 DEF Direct
  <1>5. \A c : Formats(c)' = Formats(c)
    BY <1>1 DEF Formats
  <1>6. \A r : LineOfRow(r)' = LineOfRow(r)
    BY <1>1, <1>3 DEF LineOfRow
  <1>7. \A r : Scope(r)' = Scope(r)
    BY <1>1, <1>2, <1>3, <1>6 DEF Scope
  <1>8. \A c, r : MeantPrcsn(c, r)' = MeantPrcsn(c, r)
    BY <1>1, <1>4, <1>5, <1>7, ZenonT(40) DEF MeantPrcsn
  <1>9. \A c : MeantAlign(c)' = MeantAlign(c)
    BY <1>1, <1>5 DEF MeantAlign
  <1>10. \A c : MeantColumn(c)' = MeantColumn(c)
    BY <1>1, <1>5 DEF MeantColumn
  <1>11. Ends' = Ends
    BY <1>1, <1>3 DEF Ends
  <1>12. MeantBody' = MeantBody /\ MeantFoot' = MeantFoot
    BY <1>3, <1>11 DEF MeantBody, MeantFoot
  <1> QED BY <1>8, <1>9, <1>10, <1>12

-----------------------------------------------------------------------------
(* What a document holds of what is meant, from its loading to its         *)
(* printing.                                                               *)

(* A cell that holds something was read in a row. *)
Named(t) ==
    \A c, r \in Nat : CellAt(t, c, r).type # "NULL" => \E i : CellLine(lines, pos, c, r, i)

MeantFmt(t, c, r) ==
    LET cell == CellAt(t, c, r) IN
    /\ cell.type # "NULL" => cell.fmt.prcsn = MeantPrcsn(c, r)
    /\ CellAt(t, c, 0).fmt.prcsn = MeantPrcsn(c, 0)
    /\ cell.fmt.align = MeantAlign(c)
    /\ ColumnAt(t, c).width = MeantColumn(c).width
    /\ ColumnAt(t, c).sep = MeantColumn(c).sep
AsMeant(t) == \A c, r \in Nat : c < t.cols /\ r < t.rows => MeantFmt(t, c, r)

Completing == pc \in {"PRINT", "PRINTED"} \/ before # << >> \/ printed # << >>

MeantInv ==
    /\ pc \in {"LOADED", "EVALUATED"} /\ before = << >> => Named(table)
    /\ Completing => AsMeant(table)

(* A table that is the same to a reader holds what is meant.               *)
LEMMA SameFmts ==
    ASSUME NEW t, NEW g, SameCells(g, t), SameColumns(g, t), g.cols = t.cols, g.rows = t.rows,
           AsMeant(t)
    PROVE  AsMeant(g)
  <1> SUFFICES ASSUME NEW c \in Nat, NEW r \in Nat, c < g.cols, r < g.rows PROVE MeantFmt(g, c, r)
    BY DEF AsMeant
  <1>1. /\ CellAt(g, c, r) = CellAt(t, c, r) /\ CellAt(g, c, 0) = CellAt(t, c, 0)
        /\ ColumnAt(g, c) = ColumnAt(t, c)
    BY DEF SameCells, SameColumns
  <1>2. MeantFmt(t, c, r)
    BY DEF AsMeant
  <1> QED BY <1>1, <1>2 DEF MeantFmt

(* What is meant stays while no line is read.                              *)
LEMMA FmtsKept ==
    ASSUME lines' = lines, AsMeant(table')
    PROVE  AsMeant(table)'
  <1> SUFFICES ASSUME NEW c \in Nat, NEW r \in Nat, c < table'.cols, r < table'.rows
               PROVE  MeantFmt(table, c, r)'
    BY DEF AsMeant
  <1>1. MeantFmt(table', c, r)
    BY DEF AsMeant
  <1>2. /\ MeantPrcsn(c, r)' = MeantPrcsn(c, r) /\ MeantPrcsn(c, 0)' = MeantPrcsn(c, 0)
        /\ MeantAlign(c)' = MeantAlign(c) /\ MeantColumn(c)' = MeantColumn(c)
    BY SameMeaning
  <1> QED BY <1>1, <1>2 DEF MeantFmt

(* The formats of a document that is printed first are completed to what   *)
(* is meant; those of one that is printed again are complete.              *)
LEMMA CompletedAsMeant ==
    ASSUME IInv, CommandInv, AskedInv, MeantInv, PrintInv, CompleteFormats
    PROVE  AsMeant(table')
  <1>1. /\ pc = "EVALUATED" /\ IsTable(table) /\ lines \in Seq(Lines) /\ Whole(lines, pos)
        /\ table'.cols = table.cols /\ table'.rows = table.rows /\ SameColumns(table', table)
        /\ table.rows \in Nat
    <2>1. pc = "EVALUATED"
      BY DEF CompleteFormats
    <2>2. Whole(lines, pos)
      BY <2>1 DEF CommandInv
    <2>3. IsTable(table) /\ lines \in Seq(Lines) /\ table.rows \in Nat
      BY DEF IInv, LoopInv, IsTable
    <2>4. table'.cols = table.cols /\ table'.rows = table.rows /\ SameColumns(table', table)
      BY CompleteFacts
    <2> QED BY <2>1, <2>2, <2>3, <2>4
  <1>2. CASE before = << >>
    <2> SUFFICES ASSUME NEW c \in Nat, NEW r \in Nat, c < table.cols, r < table.rows
                 PROVE  MeantFmt(table', c, r)
      BY <1>1 DEF AsMeant
    <2>1. /\ CellAt(table', c, r).type = CellAt(table, c, r).type
          /\ CellAt(table', c, r).fmt = CompletedFmt(table, c, r)
          /\ CellAt(table', c, 0).fmt = CompletedFmt(table, c, 0)
      <3>1. 0 \in Nat /\ 0 < table.rows
        BY <1>1
      <3> QED BY <3>1, CompletedCell
    <2>2. FormatOK(table, lines, pos, c, r) /\ FormatOK(table, lines, pos, c, 0) /\ ColumnOK(table, lines, pos, c)
      <3>1. \A k \in Nat : FormatOK(table, lines, pos, c, k)
        BY <1>1, <1>2 DEF AskedInv, FormatsInv
      <3>2. ColumnOK(table, lines, pos, c)
        BY DEF AskedInv, ColumnsInv
      <3> QED BY <3>1, <3>2
    <2>3. CellAt(table, c, r).type # "NULL" => \E i : CellLine(lines, pos, c, r, i)
      BY <1>1, <1>2 DEF MeantInv, Named
    <2>4. /\ (\E i : CellLine(lines, pos, c, r, i)) => CompletedFmt(table, c, r).prcsn = MeantPrcsn(c, r)
          /\ CompletedFmt(table, c, r).align = MeantAlign(c)
          /\ CompletedFmt(table, c, 0).prcsn = MeantPrcsn(c, 0)
      <3>1. 0 \in Nat
        OBVIOUS
      <3> QED BY <1>1, <2>2, <3>1, FormatMeant
    <2>5. /\ ColumnAt(table, c).width = MeantColumn(c).width
          /\ ColumnAt(table, c).sep = MeantColumn(c).sep
      BY <1>1, <2>2, ColumnMeant
    <2>6. ColumnAt(table', c) = ColumnAt(table, c)
      BY <1>1 DEF SameColumns
    <2> QED BY <2>1, <2>3, <2>4, <2>5, <2>6 DEF MeantFmt
  <1>3. CASE before # << >>
    <2>1. Finished(table) /\ AsMeant(table)
      BY <1>3 DEF PrintInv, MeantInv, Completing
    <2>2. \A c, r \in Nat : c < table.cols /\ r < table.rows => CellAt(table', c, r) = CellAt(table, c, r)
      BY <2>1, CompletedCell DEF Finished
    <2>3. SameCells(table', table)
      BY <2>2, CompleteFacts DEF SameCells
    <2> QED BY <1>1, <2>1, <2>3, SameFmts
  <1> QED BY <1>2, <1>3

(* Evaluation changes no format, and makes no cell of nothing.             *)
LEMMA EvaluatedAsMeant ==
    ASSUME IInv, MeantInv, PrintInv, Evaluate
    PROVE  MeantInv'
  <1>1. /\ pc = "LOADED" /\ pc' = "EVALUATED" /\ UNCHANGED <<lines, pos, printed, before>> /\ printed = << >>
        /\ IsTable(table)
    BY DEF Evaluate, docVars, outVars, PrintInv, IInv
  <1>2. /\ table'.cols = table.cols /\ table'.rows = table.rows /\ SameColumns(table', table)
        /\ \A c, r \in Nat :
            \/ CellAt(table, c, r).type # "EXPR" /\ CellAt(table', c, r) = CellAt(table, c, r)
            \/ /\ CellAt(table, c, r).type = "EXPR"
               /\ \E type \in Results : CellAt(table', c, r) = [CellAt(table, c, r) EXCEPT !.type = type]
    BY EvaluateFacts
  <1>3. CASE before = << >>
    <2>1. Named(table)
      BY <1>1, <1>3 DEF MeantInv
    <2>2. \A c, r \in Nat : CellAt(table', c, r).type # "NULL" => CellAt(table, c, r).type # "NULL"
      BY <1>2
    <2>3. Named(table)'
      BY <1>1, <2>1, <2>2 DEF Named
    <2> QED BY <1>1, <1>3, <2>3 DEF MeantInv, Completing
  <1>4. CASE before # << >>
    <2>1. Evaluated(table) /\ AsMeant(table)
      BY <1>4 DEF PrintInv, MeantInv, Completing
    <2>2. SameCells(table', table)
      BY <1>2, <2>1 DEF SameCells, Evaluated
    <2>3. AsMeant(table)'
      BY <1>1, <1>2, <2>1, <2>2, SameFmts, FmtsKept
    <2> QED BY <1>1, <1>4, <2>3 DEF MeantInv
  <1> QED BY <1>3, <1>4

(* MeantInv is an invariant: at first there is nothing to hold.            *)
LEMMA MeantInvInit == Init => MeantInv
  BY DEF Init, LoaderInit, MeantInv, Completing

(* MeantInv is kept by every step.                                         *)
LEMMA MeantInvNext ==
    IInv /\ CommandInv /\ AskedInv /\ TextInv /\ PrintInv /\ PrintInv' /\ MeantInv /\ [Next]_vars => MeantInv'
  <1> SUFFICES ASSUME IInv, CommandInv, AskedInv, TextInv, PrintInv, PrintInv', MeantInv, [Next]_vars
               PROVE  MeantInv'
    OBVIOUS
  <1>1. CASE LoaderNext /\ UNCHANGED outVars /\ ~EndOfFile
    <2>1. Loading /\ pc' \in {"READ", "ROW", "COMMAND", "ABORTED"}
      <3>1. pc \in {"READ", "ROW", "COMMAND"}
        BY <1>1 DEF LoaderNext, EmptyLine, CommentLine, WordsLine, Read, RowCell, EndRow, CommandName,
                    SepWord, FmtWord, PrcsnWord, SummaryWord, DefineWord, ExtraWord, EndCommand,
                    Argument, WordOf
      <3>2. \/ pc' \in {"READ", "ROW", "COMMAND", "ABORTED"}
        BY <1>1, <3>1 DEF LoaderNext, EmptyLine, CommentLine, WordsLine, Read, RowCell, EndRow,
                    CommandName, SepWord, FmtWord, PrcsnWord, SummaryWord, DefineWord, ExtraWord,
                    EndCommand, Argument, WordOf, Done, Stop
      <3> QED BY <3>1, <3>2 DEF Loading
    <2>2. printed' = << >> /\ before' = << >>
      BY <1>1, <2>1 DEF PrintInv, outVars
    <2> QED BY <2>1, <2>2 DEF MeantInv, Completing
  <1>2. CASE EndOfFile /\ UNCHANGED outVars
    <2>1. /\ pc = "READ" /\ pc' = "LOADED" /\ UNCHANGED <<lines, pos, table, printed, before>>
          /\ printed = << >> /\ before = << >> /\ Loading
      BY <1>2 DEF EndOfFile, outVars, PrintInv, Loading
    <2>2. Named(table)
      <3> SUFFICES ASSUME NEW c \in Nat, NEW r \in Nat, ~\E i : CellLine(lines, pos, c, r, i)
                   PROVE  CellAt(table, c, r).type = "NULL"
        BY DEF Named
      <3>1. TextOf(table, lines, pos)
        BY <2>1 DEF TextInv
      <3>2. ASSUME NEW i, RowLine(lines, i) /\ RowNo(lines, i) = r
            PROVE  c >= WordsRead(lines, pos, i)
        <4>1. ~(c < WordsRead(lines, pos, i))
          BY <3>2 DEF CellLine
        <4>2. WordsRead(lines, pos, i) \in Nat
          <5>1. i \in 1..Len(lines) /\ lines \in Seq(Lines) /\ pos \in Nat
            BY <3>2 DEF RowLine, IInv, LoopInv
          <5>2. lines[i] \in Lines /\ lines[i].type = "ROW"
            BY <3>2, <5>1, ElementOfSeq DEF RowLine
          <5>3. Len(lines[i].words) \in Nat
            BY <5>2, LinesAssumption, LenProperties
          <5> QED BY <5>1, <5>3 DEF WordsRead
        <4> QED BY <4>1, <4>2
      <3> QED BY <3>1, <3>2 DEF TextOf, Blank
    <2>3. Named(table)'
      BY <2>1, <2>2 DEF Named
    <2> QED BY <2>1, <2>3 DEF MeantInv, Completing
  <1>3. CASE Evaluate
    BY <1>3, EvaluatedAsMeant
  <1>4. CASE CompleteFormats
    <2>1. AsMeant(table')
      BY <1>4, CompletedAsMeant
    <2>2. pc' = "PRINT" /\ lines' = lines
      BY <1>4 DEF CompleteFormats, docVars
    <2>3. AsMeant(table)'
      BY <2>1, <2>2, FmtsKept
    <2> QED BY <2>2, <2>3 DEF MeantInv
  <1>5. CASE PrintRow \/ EndPrint \/ Again \/ Exit \/ UNCHANGED vars
    <2>1. UNCHANGED <<lines, pos, table>>
      BY <1>5 DEF PrintRow, EndPrint, Again, Exit, docVars, vars
    <2>2. Completing' => Completing
      BY <1>5 DEF PrintRow, EndPrint, Again, Exit, vars, outVars, Completing
    <2>3. pc' \in {"LOADED", "EVALUATED"} /\ before' = << >> =>
            pc \in {"LOADED", "EVALUATED"} /\ before = << >>
      BY <1>5 DEF PrintRow, EndPrint, Again, Exit, vars, outVars
    <2>4. Named(table) => Named(table)'
      BY <2>1 DEF Named
    <2>5. AsMeant(table) => AsMeant(table)'
      BY <2>1, FmtsKept
    <2> QED BY <2>2, <2>3, <2>4, <2>5 DEF MeantInv
  <1> QED BY <1>1, <1>2, <1>3, <1>4, <1>5 DEF Next, LoaderNext

(* Every behaviour keeps it.                                               *)
LEMMA AlwaysMeantInv == Spec => []MeantInv
  BY MeantInvInit, MeantInvNext, TextInvInit, TextInvNext, AlwaysIInv, AlwaysRowInv, AlwaysCommandInv,
     AlwaysAskedInv, AlwaysPrintInv, PTL DEF Spec

(* A field that is printed, told from the meaning of the lines: a number   *)
(* of less precision than the top of its column leaves its place free.     *)
Narrower(c, prcsn) ==
    LET top == MeantPrcsn(c, 0) IN
    IF ~(prcsn < top) THEN 0 ELSE IF prcsn > 0 THEN top - prcsn ELSE top + 1

FieldAsMeant(f, c, r) ==
    /\ f.sep = MeantColumn(c).sep
    /\ f.width + f.pad = MeantColumn(c).width
    /\ f.type = "NUMBER" =>
        /\ f.prcsn = MeantPrcsn(c, r) /\ f.prcsn \in Nat /\ MeantPrcsn(c, 0) \in Nat
        /\ f.width = MeantColumn(c).width - Narrower(c, f.prcsn) /\ MeantColumn(c).width \in Int
    /\ f.type # "NUMBER" => f.align = MeantAlign(c)
    /\ f.underline <=> \/ r + 1 \in {MeantBody, MeantFoot}
                       \/ meta.summarized /\ meta.summary = <<c, r>>

(* Every field that is printed is as it is meant.                          *)
LEMMA PrintedField ==
    ASSUME IInv, BoundsInv, PrintInv, MeantInv, NEW r \in 1..Len(printed)
    PROVE  /\ DOMAIN printed[r] = 0..(table.cols - 1)
           /\ \A c \in DOMAIN printed[r] : FieldAsMeant(printed[r][c], c, r - 1)
  <1>1. PICK n \in 0..table.rows : printed = RowsTo(n) /\ Len(printed) = n
    BY DEF PrintInv
  <1>2. /\ IsTable(table) /\ table.rows \in Nat /\ table.cols \in Nat
        /\ meta.firstBodyRow = MeantBody /\ meta.firstFootRow = MeantFoot
    <2>1. IsTable(table)
      BY DEF IInv
    <2>2. table.rows \in Nat /\ table.cols \in Nat
      BY <2>1 DEF IsTable
    <2> QED BY <2>1, <2>2, MeantBounds DEF BoundsInv
  <1>3. n \in Nat /\ r - 1 \in 0..(table.rows - 1) /\ r - 1 \in Nat /\ r - 1 + 1 = r /\ r \in 1..n
    BY <1>1, <1>2
  <1>4. printed[r] = RowOf(r - 1)
    BY <1>1, <1>3 DEF RowsTo
  <1>5. AsMeant(table)
    <2>1. printed # << >>
      BY <1>1, <1>3, EmptySeq
    <2> QED BY <2>1 DEF MeantInv, Completing
  <1>6. ASSUME NEW c \in 0..(table.cols - 1) PROVE FieldAsMeant(Field(c, r - 1), c, r - 1)
    <2> DEFINE cell == CellAt(table, c, r - 1)
               top == CellAt(table, c, 0)
               f == Field(c, r - 1)
    <2>1. /\ GetCell(table, c, r - 1) = cell /\ GetCell(table, c, 0) = top /\ c \in Nat
          /\ cell \in Cell /\ top \in Cell
      <3>1. 0 \in 0..(table.rows - 1) /\ 0 \in Nat
        BY <1>2, <1>3
      <3> QED BY <1>2, <1>3, <3>1, UsedCell, CellAtType
    <2>2. table.columns[c] = ColumnAt(table, c) /\ ColumnAt(table, c) \in Column
      <3>1. c \in 0..(table.tcols - 1) /\ c \in Nat
        BY <1>2 DEF IsTable
      <3> QED BY <1>2, <3>1, ColumnAtType DEF ColumnAt
    <2>3. MeantFmt(table, c, r - 1)
      <3>1. c < table.cols /\ r - 1 < table.rows /\ c \in Nat
        BY <1>2, <1>3
      <3> QED BY <1>3, <1>5, <3>1 DEF AsMeant
    <2>4. /\ cell.fmt.prcsn \in Nat /\ top.fmt.prcsn \in Nat /\ MeantColumn(c).width \in Int
          /\ top.fmt.prcsn = MeantPrcsn(c, 0)
          /\ table.columns[c].width = MeantColumn(c).width /\ table.columns[c].sep = MeantColumn(c).sep
          /\ cell.type = "NUMBER" => cell.fmt.prcsn = MeantPrcsn(c, r - 1)
          /\ cell.fmt.align = MeantAlign(c)
      <3>1. cell.fmt \in Fmt /\ top.fmt \in Fmt /\ ColumnAt(table, c).width \in Int
        BY <2>1, <2>2 DEF Cell, Column
      <3>2. cell.fmt.prcsn \in 0..255 /\ top.fmt.prcsn \in 0..255
        BY <3>1 DEF Fmt
      <3>3. cell.fmt.prcsn \in Nat /\ top.fmt.prcsn \in Nat
        <4>1. \A p \in 0..255 : p \in Nat
          OBVIOUS
        <4> QED BY <3>2, <4>1
      <3>4. /\ top.fmt.prcsn = MeantPrcsn(c, 0) /\ cell.fmt.align = MeantAlign(c)
            /\ cell.type # "NULL" => cell.fmt.prcsn = MeantPrcsn(c, r - 1)
            /\ ColumnAt(table, c).width = MeantColumn(c).width
            /\ ColumnAt(table, c).sep = MeantColumn(c).sep
        BY <2>3 DEF MeantFmt
      <3> HIDE DEF cell, top
      <3> QED BY <2>2, <3>1, <3>3, <3>4
    <2>5. NumberWidth(c, r - 1) = MeantColumn(c).width - Narrower(c, cell.fmt.prcsn)
      <3> HIDE DEF cell, top
      <3> QED BY <2>1, <2>4 DEF NumberWidth, Shortened, Narrower
    <2>6. Narrower(c, cell.fmt.prcsn) \in Int
      <3> HIDE DEF cell, top
      <3> QED BY <2>4 DEF Narrower
    <2>7. /\ f.type = cell.type
          /\ f.sep = table.columns[c].sep
          /\ f.underline = Underlined(c, r - 1)
          /\ f.align = IF cell.type = "NUMBER" THEN "RIGHT" ELSE cell.fmt.align
          /\ f.width = IF cell.type = "NUMBER" THEN NumberWidth(c, r - 1) ELSE table.columns[c].width
          /\ f.pad = table.columns[c].width - f.width
          /\ f.prcsn = IF cell.type = "NUMBER" THEN cell.fmt.prcsn ELSE 0
      BY <2>1 DEF Field
    <2>8. Underlined(c, r - 1) <=> \/ r - 1 + 1 \in {MeantBody, MeantFoot}
                                   \/ meta.summarized /\ meta.summary = <<c, r - 1>>
      BY <1>2 DEF Underlined
    <2> HIDE DEF f, cell, top
    <2>9. f.width \in Int /\ f.width + f.pad = MeantColumn(c).width
      BY <2>4, <2>5, <2>6, <2>7
    <2>10. f.type = "NUMBER" =>
            /\ f.prcsn = MeantPrcsn(c, r - 1) /\ f.prcsn \in Nat /\ MeantPrcsn(c, 0) \in Nat
            /\ f.width = MeantColumn(c).width - Narrower(c, f.prcsn) /\ MeantColumn(c).width \in Int
      BY <2>4, <2>5, <2>7
    <2>11. f.type # "NUMBER" => f.align = MeantAlign(c)
      BY <2>4, <2>7
    <2>12. f.underline <=> \/ r - 1 + 1 \in {MeantBody, MeantFoot}
                           \/ meta.summarized /\ meta.summary = <<c, r - 1>>
      BY <2>7, <2>8
    <2> QED BY <2>4, <2>7, <2>9, <2>10, <2>11, <2>12 DEF FieldAsMeant, f
  <1> QED BY <1>4, <1>6 DEF RowOf

(* The sections are where they are meant in every behaviour.               *)
LEMMA AlwaysBoundsInv == Spec => []BoundsInv
  BY BoundsInit, BoundsNext, AlwaysIInv, AlwaysRowInv, PTL DEF Spec

(* Every row is printed in the columns, with the alignments, precisions    *)
(* and lines that the commands before and after it ask for, whatever was   *)
(* inherited through MergeHeader on the way.                               *)
THEOREM PrintsWhatIsMeant == Spec => []PrintedAsMeant
  <1>1. IInv /\ BoundsInv /\ PrintInv /\ MeantInv => PrintedAsMeant
    <2> SUFFICES ASSUME IInv, BoundsInv, PrintInv, MeantInv,
                        NEW r \in 1..Len(printed), NEW c \in DOMAIN printed[r]
                 PROVE  LET f == printed[r][c] IN
                        /\ f.sep = MeantColumn(c).sep
                        /\ f.width + f.pad = MeantColumn(c).width
                        /\ IF f.type = "NUMBER" THEN f.prcsn = MeantPrcsn(c, r - 1)
                           ELSE f.align = MeantAlign(c)
                        /\ f.underline <=> \/ r \in {MeantBody, MeantFoot}
                                           \/ meta.summarized /\ meta.summary = <<c, r - 1>>
      BY DEF PrintedAsMeant
    <2> DEFINE f == printed[r][c]
    <2>1. FieldAsMeant(f, c, r - 1)
      BY PrintedField
    <2>2. r - 1 + 1 = r
      OBVIOUS
    <2> HIDE DEF f
    <2>3. /\ f.sep = MeantColumn(c).sep
          /\ f.width + f.pad = MeantColumn(c).width
          /\ IF f.type = "NUMBER" THEN f.prcsn = MeantPrcsn(c, r - 1)
             ELSE f.align = MeantAlign(c)
          /\ f.underline <=> \/ r \in {MeantBody, MeantFoot}
                             \/ meta.summarized /\ meta.summary = <<c, r - 1>>
      BY <2>1, <2>2 DEF FieldAsMeant
    <2> QED BY <2>3 DEF f
  <1> QED BY <1>1, AlwaysIInv, AlwaysBoundsInv, AlwaysPrintInv, AlwaysMeantInv, PTL

(* The decimal points of a column are below each other: all numbers of no  *)
(* more precision than the top cell, as far as they fit their width.       *)
THEOREM PointsAreAligned == Spec => []PointsAligned
  <1>1. IInv /\ BoundsInv /\ PrintInv /\ MeantInv => PointsAligned
    <2> SUFFICES ASSUME IInv, BoundsInv, PrintInv, MeantInv,
                        NEW r1 \in 1..Len(printed), NEW r2 \in 1..Len(printed),
                        NEW c \in DOMAIN printed[1],
                        printed[r1][c].type = "NUMBER", printed[r1][c].prcsn <= MeantPrcsn(c, 0),
                        printed[r2][c].type = "NUMBER", printed[r2][c].prcsn <= MeantPrcsn(c, 0),
                        MeantPrcsn(c, 0) > 0
                 PROVE  printed[r1][c].width - Decimals(printed[r1][c])
                            = printed[r2][c].width - Decimals(printed[r2][c])
      BY DEF PointsAligned
    <2>1. ASSUME NEW f, NEW r, FieldAsMeant(f, c, r), f.type = "NUMBER", f.prcsn <= MeantPrcsn(c, 0)
          PROVE  f.width - Decimals(f) = MeantColumn(c).width - (MeantPrcsn(c, 0) + 1)
      BY <2>1 DEF FieldAsMeant, Narrower, Decimals
    <2>2. 1 \in 1..Len(printed)
      <3>1. Len(printed) \in Nat
        BY DEF PrintInv, IInv, IsTable
      <3> QED BY <3>1
    <2>3. DOMAIN printed[1] = DOMAIN printed[r1] /\ DOMAIN printed[1] = DOMAIN printed[r2]
      BY <2>2, PrintedField
    <2>4. FieldAsMeant(printed[r1][c], c, r1 - 1) /\ FieldAsMeant(printed[r2][c], c, r2 - 1)
      BY <2>3, PrintedField
    <2> QED BY <2>1, <2>4
  <1> QED BY <1>1, AlwaysIInv, AlwaysBoundsInv, AlwaysPrintInv, AlwaysMeantInv, PTL

-----------------------------------------------------------------------------
(* Why the program stops.                                                  *)

(* While a file is read, an argument of a command stops the program. *)
LEMMA LoaderStops ==
    ASSUME IInv, PrintInv, LoaderNext, UNCHANGED outVars, pc' = "ABORTED"
    PROVE  /\ UNCHANGED <<lines, pos, state, meta>> /\ printed' = << >>
           /\ \/ state = "SEP" /\ Word.text \notin {"-", "|"}
              \/ state = "SUMMARY" /\ Word.ref.ok /\ Word.ref.row < 0
              \/ state = "DEFINE" /\ Len(meta.macros) < MaxMacros
  <1>1. ASSUME NEW l \in Lines, EmptyLine(l) \/ CommentLine(l) \/ WordsLine(l) PROVE FALSE
    BY <1>1 DEF EmptyLine, CommentLine, WordsLine, Read
  <1>2. ASSUME EndRow \/ CommandName \/ FmtWord \/ PrcsnWord \/ ExtraWord \/ EndCommand \/ EndOfFile PROVE FALSE
    BY <1>2 DEF EndRow, CommandName, FmtWord, PrcsnWord, ExtraWord, EndCommand, EndOfFile, Argument, WordOf, Done
  <1>3. ASSUME RowCell PROVE FALSE
    <2>1. Done /\ pc = "ROW"
      BY <1>3, RowCellFacts DEF RowCell, WordOf
    <2> QED BY <2>1 DEF Done
  <1>4. SepWord \/ SummaryWord \/ DefineWord
    BY <1>1, <1>2, <1>3 DEF LoaderNext
  <1>5. WordOf("COMMAND") /\ pc = "COMMAND" /\ Word \in CommandWord /\ rowIdx \in Nat
    <2>1. WordOf("COMMAND") /\ pc = "COMMAND"
      BY <1>4 DEF SepWord, SummaryWord, DefineWord, Argument, WordOf
    <2>2. LoopInv /\ rowIdx \in Nat
      BY DEF IInv, LoopInv
    <2> QED BY <2>1, <2>2, WordFacts
  <1>6. Stop /\ printed' = << >>
    <2>1. ~Done
      BY <1>5 DEF Done
    <2>2. printed = << >>
      BY <1>5 DEF PrintInv, Loading
    <2> QED BY <1>4, <2>1, <2>2 DEF SepWord, SummaryWord, DefineWord, outVars
  <1>7. CASE SepWord
    <2>1. state = "SEP" /\ Word.text \notin {"-", "|"}
      BY <1>5, <1>7 DEF SepWord, Argument, Done
    <2> QED BY <1>6, <2>1 DEF Stop
  <1>8. CASE SummaryWord
    <2> DEFINE ref == Word.ref
               col == AbsoluteDim(ref.col, 0)
               row == AbsoluteDim(ref.row, rowIdx)
    <2>1. state = "SUMMARY" /\ ref.ok /\ (col < 0 \/ row < 0)
      BY <1>5, <1>8 DEF SummaryWord, Argument, Done
    <2>2. ref.col \in Nat \cup {THIS} /\ ref.row \in Int
      BY <1>5 DEF CommandWord
    <2> HIDE DEF ref
    <2>3. ~(col < 0)
      BY <2>2 DEF AbsoluteDim, PREV, THIS, NEXT
    <2>4. row < 0 => ref.row < 0
      BY <1>5, <2>2 DEF AbsoluteDim, PREV, THIS, NEXT
    <2>5. state = "SUMMARY" /\ ref.ok /\ ref.row < 0
      BY <2>1, <2>3, <2>4
    <2> QED BY <1>6, <2>5 DEF Stop, ref
  <1>9. CASE DefineWord
    <2>1. state = "DEFINE" /\ ~NoMacroLeft
      BY <1>5, <1>9 DEF DefineWord, Argument, Done
    <2>2. Len(meta.macros) \in Nat /\ MaxMacros \in Nat
      <3>1. meta.macros \in Seq(Macro)
        BY DEF IInv, MetaInv
      <3> QED BY <3>1, LenProperties, LinesAssumption
    <2>3. Len(meta.macros) < MaxMacros
      BY <2>1, <2>2 DEF NoMacroLeft
    <2> QED BY <1>6, <2>1, <2>3 DEF Stop
  <1> QED BY <1>4, <1>7, <1>8, <1>9

(* While a row is printed, a column that is too narrow does.               *)
LEMMA PrinterStops ==
    ASSUME IInv, PrintInv, MeantInv, PrintRow, pc' = "ABORTED"
    PROVE  /\ UNCHANGED <<lines, table, printed>>
           /\ \E c \in 0..(table.cols - 1) :
                MeantColumn(c).width <= MeantPrcsn(c, 0) /\ MeantPrcsn(c, Len(printed)) < MeantPrcsn(c, 0)
  <1> DEFINE row == Len(printed)
  <1>1. /\ pc = "PRINT" /\ row < table.rows /\ UNCHANGED <<lines, table, printed>>
        /\ \E col \in 0..(table.cols - 1) : TooNarrow(col, row)
    BY DEF PrintRow, docVars
  <1>2. PICK c \in 0..(table.cols - 1) : TooNarrow(c, row)
    BY <1>1
  <1>3. IsTable(table) /\ table.rows \in Nat /\ table.cols \in Nat /\ row \in Nat
    <2>1. IsTable(table)
      BY DEF IInv
    <2>2. table.rows \in Nat /\ table.cols \in Nat
      BY <2>1 DEF IsTable
    <2> QED BY <2>1, <2>2 DEF PrintInv
  <1> HIDE DEF row
  <1>4. row \in 0..(table.rows - 1) /\ 0 \in 0..(table.rows - 1) /\ c \in Nat /\ c < table.cols /\ 0 \in Nat
    BY <1>1, <1>3
  <1>5. GetCell(table, c, row) = CellAt(table, c, row) /\ GetCell(table, c, 0) = CellAt(table, c, 0)
    BY <1>3, <1>4, UsedCell
  <1>6. table.columns[c] = ColumnAt(table, c)
    <2>1. c \in 0..(table.tcols - 1)
      BY <1>3, <1>4 DEF IsTable
    <2> QED BY <2>1 DEF ColumnAt
  <1>7. MeantFmt(table, c, row)
    BY <1>1, <1>3, <1>4 DEF MeantInv, Completing, AsMeant
  <1>8. /\ CellAt(table, c, row).type = "NUMBER"
        /\ CellAt(table, c, row).fmt.prcsn < CellAt(table, c, 0).fmt.prcsn
        /\ ColumnAt(table, c).width <= CellAt(table, c, 0).fmt.prcsn
    BY <1>2, <1>5, <1>6 DEF TooNarrow, Shortened
  <1>9. MeantColumn(c).width <= MeantPrcsn(c, 0) /\ MeantPrcsn(c, row) < MeantPrcsn(c, 0)
    BY <1>7, <1>8 DEF MeantFmt
  <1> QED BY <1>1, <1>9 DEF row

(* The program stops for a reason the file gives: a separator other than   *)
(* `-` and `|`, a summary cell above the first row or in the foot, a macro *)
(* the parser stops at, a column that is narrower than its precision.  The *)
(* assertions of the table and of the format row never fail.               *)
THEOREM StopsForAReason == Spec => []StopsAsMeant
  <1>1. Init => StopsAsMeant
    BY DEF Init, LoaderInit, StopsAsMeant
  <1>2. IInv /\ PrintInv /\ MeantInv /\ StopsAsMeant /\ [Next]_vars => StopsAsMeant'
    <2> SUFFICES ASSUME IInv, PrintInv, MeantInv, StopsAsMeant, [Next]_vars, pc' = "ABORTED"
                 PROVE  StopsAsMeant'
      BY DEF StopsAsMeant
    <2>1. CASE LoaderNext /\ UNCHANGED outVars
      <3>1. /\ UNCHANGED <<lines, pos, state, meta>> /\ printed' = << >>
            /\ \/ state = "SEP" /\ Word.text \notin {"-", "|"}
               \/ state = "SUMMARY" /\ Word.ref.ok /\ Word.ref.row < 0
               \/ state = "DEFINE" /\ Len(meta.macros) < MaxMacros
        BY <2>1, LoaderStops
      <3>2. Word' = Word
        BY <3>1 DEF Word, Line
      <3> QED BY <3>1, <3>2 DEF StopsAsMeant
    <2>2. CASE PrintRow
      <3>1. UNCHANGED <<lines, table, printed>>
        BY <2>2, PrinterStops
      <3>2. PICK c \in 0..(table.cols - 1) :
                MeantColumn(c).width <= MeantPrcsn(c, 0) /\ MeantPrcsn(c, Len(printed)) < MeantPrcsn(c, 0)
        BY <2>2, PrinterStops
      <3>3. (MeantColumn(c).width <= MeantPrcsn(c, 0) /\ MeantPrcsn(c, Len(printed)) < MeantPrcsn(c, 0))'
        BY <3>1, <3>2, SameMeaning
      <3>4. c \in 0..(table'.cols - 1)
        BY <3>1
      <3> QED BY <3>3, <3>4 DEF StopsAsMeant
    <2>3. CASE Exit \/ UNCHANGED vars
      <3>1. UNCHANGED vars
        BY <2>3 DEF Exit
      <3>2. UNCHANGED <<lines, pos, state, meta, printed, table, pc>> /\ Word' = Word
        BY <3>1 DEF vars, Word, Line
      <3>3. \/ printed = << >> /\ state = "SEP" /\ Word.text \notin {"-", "|"}
            \/ printed = << >> /\ state = "SUMMARY" /\ Word.ref.ok /\ Word.ref.row < 0
            \/ printed = << >> /\ state = "DEFINE" /\ Len(meta.macros) < MaxMacros
            \/ \E c \in 0..(table.cols - 1) :
                MeantColumn(c).width <= MeantPrcsn(c, 0) /\ MeantPrcsn(c, Len(printed)) < MeantPrcsn(c, 0)
        BY <3>2 DEF StopsAsMeant
      <3>4. CASE \E c \in 0..(table.cols - 1) :
                MeantColumn(c).width <= MeantPrcsn(c, 0) /\ MeantPrcsn(c, Len(printed)) < MeantPrcsn(c, 0)
        <4>1. PICK c \in 0..(table.cols - 1) :
                MeantColumn(c).width <= MeantPrcsn(c, 0) /\ MeantPrcsn(c, Len(printed)) < MeantPrcsn(c, 0)
          BY <3>4
        <4>2. (MeantColumn(c).width <= MeantPrcsn(c, 0) /\ MeantPrcsn(c, Len(printed)) < MeantPrcsn(c, 0))'
          BY <3>2, <4>1, SameMeaning
        <4>3. c \in 0..(table'.cols - 1)
          BY <3>2
        <4> QED BY <4>2, <4>3 DEF StopsAsMeant
      <3> QED BY <3>2, <3>3, <3>4 DEF StopsAsMeant
    <2>4. ~(Evaluate \/ CompleteFormats \/ EndPrint \/ Again)
      BY DEF Evaluate, CompleteFormats, EndPrint, Again
    <2> QED BY <2>1, <2>2, <2>3, <2>4 DEF Next
  <1> QED BY <1>1, <1>2, AlwaysIInv, AlwaysPrintInv, AlwaysMeantInv, PTL DEF Spec
=============================================================================
