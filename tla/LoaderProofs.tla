---------------------------- MODULE LoaderProofs ----------------------------
(***************************************************************************)
(* That growth never disturbs what is in a table, that a document is       *)
(* loaded as its lines say, and that it implements Grid: for any lines,    *)
(* any least size of a table and any way its room is rounded up.           *)
(***************************************************************************)
EXTENDS SheetMeaning, NumberLemmas, SequenceTheorems, FiniteSetTheorems

CellTypes == {"NULL", "EXPR", "STRING", "NUMBER", "ERROR"}
Cell   == [fmt : Fmt, type : CellTypes, text : STRING]
Column == [width : Int, sep : STRING]

(* A table whose places outside the used area are blank. *)
IsTable(t) ==
    /\ t = [cols |-> t.cols, rows |-> t.rows, tcols |-> t.tcols, trows |-> t.trows,
            columns |-> t.columns, cells |-> t.cells]
    /\ t.tcols \in Nat /\ t.trows \in Nat
    /\ t.cols \in 0..t.tcols /\ t.rows \in 0..t.trows
    /\ t.columns \in [0..(t.tcols - 1) -> Column]
    /\ t.cells \in [0..(t.tcols * t.trows - 1) -> Cell]
    /\ \A c \in 0..(t.tcols - 1) : c >= t.cols => t.columns[c] = DefaultColumn
    /\ \A c \in 0..(t.tcols - 1), r \in 0..(t.trows - 1) :
            c >= t.cols \/ r >= t.rows => GetCell(t, c, r) = BlankCell

(* What a reader finds, whatever is allocated. *)
CellAt(t, c, r) == IF CellExists(t, c, r) THEN GetCell(t, c, r) ELSE BlankCell
ColumnAt(t, c)  == IF c \in 0..(t.tcols - 1) THEN t.columns[c] ELSE DefaultColumn
SameCells(g, t)   == \A c, r \in Nat : CellAt(g, c, r) = CellAt(t, c, r)
SameColumns(g, t) == \A c \in Nat : ColumnAt(g, c) = ColumnAt(t, c)

-----------------------------------------------------------------------------
(* Indices.                                                                *)

LEMMA IndexFacts ==
    ASSUME NEW cols \in Nat, NEW rows \in Nat, NEW c \in 0..(cols - 1), NEW r \in 0..(rows - 1)
    PROVE  /\ r + c * rows \in 0..(cols * rows - 1)
           /\ (r + c * rows) \div rows = c
           /\ (r + c * rows) % rows = r
  <1>1. r + c * rows = c * rows + r
    OBVIOUS
  <1>2. (c * rows + r) \div rows = c /\ (c * rows + r) % rows = r
    <2>1. c \in Nat /\ r \in Nat /\ r < rows
      OBVIOUS
    <2> QED BY <2>1, QuotientOfIndex
  <1>3. c * rows + r \in 0..(cols * rows - 1)
    <2>1. PICK d \in Nat : cols = c + 1 + d
      <3>1. cols - c - 1 \in Nat /\ cols = c + 1 + (cols - c - 1)
        OBVIOUS
      <3> QED BY <3>1
    <2>2. cols * rows = c * rows + rows + d * rows /\ d * rows >= 0
      BY <2>1
    <2>3. c * rows >= 0
      OBVIOUS
    <2> QED BY <2>2, <2>3
  <1> QED BY <1>1, <1>2, <1>3

LEMMA PlaceOfIndex ==
    ASSUME NEW cols \in Nat, NEW rows \in Nat, NEW i \in 0..(cols * rows - 1)
    PROVE  /\ i \div rows \in 0..(cols - 1) /\ i % rows \in 0..(rows - 1)
           /\ i = (i % rows) + (i \div rows) * rows
  <1>1. rows > 0
    OBVIOUS
  <1> DEFINE q == i \div rows
             m == i % rows
  <1>2. q \in Nat /\ m \in 0..(rows - 1) /\ i = m + q * rows
    BY <1>1
  <1> HIDE DEF q, m
  <1>3. q < cols
    <2> SUFFICES ASSUME q >= cols PROVE FALSE
      BY <1>2
    <2>1. PICK d \in Nat : q = cols + d
      <3>1. q - cols \in Nat /\ q = cols + (q - cols)
        BY <1>2
      <3> QED BY <3>1
    <2>2. q * rows = cols * rows + d * rows /\ d * rows >= 0
      BY <2>1
    <2> QED BY <1>2, <2>2
  <1> QED BY <1>2, <1>3 DEF q, m

-----------------------------------------------------------------------------
(* Tables.                                                                 *)

LEMMA LargerFacts ==
    ASSUME NEW a \in Int, NEW b \in Int
    PROVE  Larger(a, b) \in {a, b} /\ Larger(a, b) >= a /\ Larger(a, b) >= b
  BY DEF Larger

(* Growth keeps what a reader finds, and the rest of the room is blank.    *)
LEMMA GrownFacts ==
    ASSUME NEW t, IsTable(t), NEW tcols \in Nat, NEW trows \in Nat, tcols >= t.tcols, trows >= t.trows
    PROVE  LET g == Grown(t, tcols, trows) IN
           /\ IsTable(g)
           /\ g.cols = t.cols /\ g.rows = t.rows /\ g.tcols = tcols /\ g.trows = trows
           /\ SameCells(g, t) /\ SameColumns(g, t)
  <1> DEFINE g == Grown(t, tcols, trows)
             columns == [c \in 0..(tcols - 1) |->
                            IF c < t.cols THEN t.columns[c] ELSE DefaultColumn]
             cells   == [i \in 0..(tcols * trows - 1) |->
                            IF <<i \div trows, i % trows>> \in Used(t)
                            THEN GetCell(t, i \div trows, i % trows) ELSE BlankCell]
  <1>1. /\ t.tcols \in Nat /\ t.trows \in Nat /\ t.cols \in Nat /\ t.rows \in Nat
        /\ t.cols <= t.tcols /\ t.rows <= t.trows
    BY DEF IsTable
  <1>2. g = [cols |-> t.cols, rows |-> t.rows, tcols |-> tcols, trows |-> trows,
             columns |-> columns, cells |-> cells]
    <2>1. t = [cols |-> t.cols, rows |-> t.rows, tcols |-> t.tcols, trows |-> t.trows,
               columns |-> t.columns, cells |-> t.cells]
      BY DEF IsTable
    <2>2. g = [t EXCEPT !.tcols = tcols, !.trows = trows, !.columns = columns, !.cells = cells]
      BY DEF Grown
    <2> HIDE DEF g, columns, cells
    <2> QED BY <2>1, <2>2
  <1>3. ASSUME NEW c \in 0..(t.tcols - 1), NEW r \in 0..(t.trows - 1)
        PROVE  GetCell(t, c, r) \in Cell
    <2>1. GetCellIdx(t, c, r) \in 0..(t.tcols * t.trows - 1)
      BY <1>1, IndexFacts DEF GetCellIdx
    <2> QED BY <2>1 DEF GetCell, IsTable
  <1>4. ASSUME NEW c \in 0..(tcols - 1), NEW r \in 0..(trows - 1)
        PROVE  GetCell(g, c, r) = IF c < t.cols /\ r < t.rows THEN GetCell(t, c, r) ELSE BlankCell
    <2> DEFINE i == r + c * trows
    <2>1. i \in 0..(tcols * trows - 1) /\ i \div trows = c /\ i % trows = r
      BY IndexFacts
    <2>2. GetCell(g, c, r) = cells[i]
      BY <1>2 DEF GetCell, GetCellIdx
    <2>3. cells[i] = IF <<c, r>> \in Used(t) THEN GetCell(t, c, r) ELSE BlankCell
      <3> HIDE DEF i
      <3> QED BY <2>1
    <2>4. <<c, r>> \in Used(t) <=> c < t.cols /\ r < t.rows
      BY <1>1 DEF Used
    <2> QED BY <2>2, <2>3, <2>4
  <1>5. BlankCell \in Cell /\ DefaultColumn \in Column
    BY DefaultsAssumption DEF Cell, CellTypes, Column
  <1>6. columns \in [0..(tcols - 1) -> Column]
    <2>1. \A c \in 0..(t.tcols - 1) : t.columns[c] \in Column
      BY DEF IsTable
    <2> QED BY <1>1, <1>5, <2>1
  <1>7. cells \in [0..(tcols * trows - 1) -> Cell]
    <2> SUFFICES ASSUME NEW i \in 0..(tcols * trows - 1),
                        <<i \div trows, i % trows>> \in Used(t)
                 PROVE  GetCell(t, i \div trows, i % trows) \in Cell
      BY <1>5
    <2>1. i \div trows \in 0..(t.tcols - 1) /\ i % trows \in 0..(t.trows - 1)
      BY <1>1 DEF Used
    <2> QED BY <1>3, <2>1
  <1> HIDE DEF g, columns, cells
  <1>8. g.cols = t.cols /\ g.rows = t.rows /\ g.tcols = tcols /\ g.trows = trows
        /\ g.columns = columns /\ g.cells = cells
    BY <1>2
  <1>9. IsTable(g)
    <2>1. \A c \in 0..(tcols - 1) : c >= t.cols => columns[c] = DefaultColumn
      BY <1>1 DEF columns
    <2>2. \A c \in 0..(tcols - 1), r \in 0..(trows - 1) :
            c >= t.cols \/ r >= t.rows => GetCell(g, c, r) = BlankCell
      BY <1>1, <1>4
    <2>3. g.cols \in 0..g.tcols /\ g.rows \in 0..g.trows
      BY <1>1, <1>8
    <2> QED BY <1>2, <1>6, <1>7, <1>8, <2>1, <2>2, <2>3 DEF IsTable
  <1>10. ASSUME NEW c \in Nat, NEW r \in Nat PROVE CellAt(g, c, r) = CellAt(t, c, r)
    <2>1. CASE CellExists(t, c, r)
      <3>1. c \in 0..(t.tcols - 1) /\ r \in 0..(t.trows - 1)
            /\ c \in 0..(tcols - 1) /\ r \in 0..(trows - 1)
        BY <1>1, <2>1 DEF CellExists
      <3>2. c >= t.cols \/ r >= t.rows => GetCell(t, c, r) = BlankCell
        BY <3>1 DEF IsTable
      <3>3. CellExists(g, c, r)
        BY <1>8, <3>1 DEF CellExists
      <3>4. GetCell(g, c, r) = GetCell(t, c, r)
        BY <1>1, <1>4, <3>1, <3>2
      <3> QED BY <2>1, <3>3, <3>4 DEF CellAt
    <2>2. CASE ~CellExists(t, c, r) /\ CellExists(g, c, r)
      <3>1. c \in 0..(tcols - 1) /\ r \in 0..(trows - 1)
        BY <1>8, <2>2 DEF CellExists
      <3>2. ~(c < t.cols /\ r < t.rows)
        BY <1>1, <2>2 DEF CellExists
      <3>3. GetCell(g, c, r) = BlankCell
        BY <1>4, <3>1, <3>2
      <3> QED BY <2>2, <3>3 DEF CellAt
    <2>3. CASE ~CellExists(t, c, r) /\ ~CellExists(g, c, r)
      BY <2>3 DEF CellAt
    <2> QED BY <2>1, <2>2, <2>3
  <1>11. ASSUME NEW c \in Nat PROVE ColumnAt(g, c) = ColumnAt(t, c)
    <2>1. CASE c \in 0..(t.tcols - 1)
      <3>1. c \in 0..(tcols - 1)
        BY <1>1, <2>1
      <3>2. c >= t.cols => t.columns[c] = DefaultColumn
        BY <2>1 DEF IsTable
      <3>3. columns[c] = t.columns[c]
        BY <1>1, <3>1, <3>2 DEF columns
      <3> QED BY <1>8, <2>1, <3>1, <3>3 DEF ColumnAt
    <2>2. CASE c \notin 0..(t.tcols - 1) /\ c \in 0..(tcols - 1)
      <3>1. columns[c] = DefaultColumn
        BY <1>1, <2>2 DEF columns
      <3> QED BY <1>8, <2>2, <3>1 DEF ColumnAt
    <2>3. CASE c \notin 0..(t.tcols - 1) /\ c \notin 0..(tcols - 1)
      BY <1>8, <2>3 DEF ColumnAt
    <2> QED BY <2>1, <2>2, <2>3
  <1>12. SameCells(g, t) /\ SameColumns(g, t)
    BY <1>10, <1>11 DEF SameCells, SameColumns
  <1> QED BY <1>8, <1>9, <1>12 DEF g

LEMMA SpaceFacts ==
    ASSUME NEW t, IsTable(t), NEW col \in 0..(MaxDim - 1), NEW row \in 0..(MaxDim - 1)
    PROVE  LET g == ReserveDocumentSpace(t, col, row) IN
           /\ IsTable(g) /\ CellExists(g, col, row)
           /\ g.cols = t.cols /\ g.rows = t.rows
           /\ SameCells(g, t) /\ SameColumns(g, t)
  <1> DEFINE g == ReserveDocumentSpace(t, col, row)
             tcols == Larger(t.tcols, Larger(NextPow2(col + 1), InitCols))
             trows == Larger(t.trows, Larger(NextPow2(row + 1), InitRows))
  <1>1. CASE CellExists(t, col, row)
    BY <1>1 DEF ReserveDocumentSpace, SameCells, SameColumns
  <1>2. CASE ~CellExists(t, col, row)
    <2>1. g = Grown(t, tcols, trows)
      BY <1>2 DEF ReserveDocumentSpace
    <2>2. t.tcols \in Nat /\ t.trows \in Nat
      BY DEF IsTable
    <2>3. InitCols \in Nat /\ InitRows \in Nat /\ MaxDim \in Nat
      BY TableAssumption
    <2>4. col + 1 \in 1..MaxDim /\ row + 1 \in 1..MaxDim /\ col \in Nat /\ row \in Nat
      BY <2>3
    <2>5. /\ NextPow2(col + 1) \in Nat /\ NextPow2(col + 1) >= col + 1
          /\ NextPow2(row + 1) \in Nat /\ NextPow2(row + 1) >= row + 1
      BY <2>4, TableAssumption
    <2>6. tcols \in Nat /\ tcols >= t.tcols /\ tcols >= col + 1
      <3> DEFINE n == NextPow2(col + 1)
                 m == Larger(n, InitCols)
      <3>1. m \in Nat /\ m >= n
        BY <2>3, <2>5 DEF Larger
      <3>2. n \in Nat /\ n >= col + 1 /\ col \in Nat
        BY <2>4, <2>5
      <3> HIDE DEF n, m
      <3>3. Larger(t.tcols, m) \in Nat /\ Larger(t.tcols, m) >= t.tcols /\ Larger(t.tcols, m) >= col + 1
        BY <2>2, <3>1, <3>2 DEF Larger
      <3> QED BY <3>3 DEF n, m
    <2>7. trows \in Nat /\ trows >= t.trows /\ trows >= row + 1
      <3> DEFINE n == NextPow2(row + 1)
                 m == Larger(n, InitRows)
      <3>1. m \in Nat /\ m >= n
        BY <2>3, <2>5 DEF Larger
      <3>2. n \in Nat /\ n >= row + 1 /\ row \in Nat
        BY <2>4, <2>5
      <3> HIDE DEF n, m
      <3>3. Larger(t.trows, m) \in Nat /\ Larger(t.trows, m) >= t.trows /\ Larger(t.trows, m) >= row + 1
        BY <2>2, <3>1, <3>2 DEF Larger
      <3> QED BY <3>3 DEF n, m
    <2> HIDE DEF g, tcols, trows
    <2>8. /\ IsTable(g) /\ g.cols = t.cols /\ g.rows = t.rows
          /\ g.tcols = tcols /\ g.trows = trows
          /\ SameCells(g, t) /\ SameColumns(g, t)
      BY <2>1, <2>6, <2>7, GrownFacts
    <2>9. CellExists(g, col, row)
      BY <2>4, <2>6, <2>7, <2>8 DEF CellExists
    <2> QED BY <2>8, <2>9 DEF g
  <1> QED BY <1>1, <1>2

(* More of the room is used: nothing changes for a reader.                 *)
WithUsed(t, cols, rows) == [t EXCEPT !.cols = cols, !.rows = rows]

LEMMA UsedFacts ==
    ASSUME NEW t, IsTable(t), NEW cols \in t.cols..t.tcols, NEW rows \in t.rows..t.trows
    PROVE  LET g == WithUsed(t, cols, rows) IN
           /\ IsTable(g) /\ g.tcols = t.tcols /\ g.trows = t.trows
           /\ g.cols = cols /\ g.rows = rows
           /\ SameCells(g, t) /\ SameColumns(g, t)
  <1> DEFINE g == WithUsed(t, cols, rows)
  <1>1. t = [cols |-> t.cols, rows |-> t.rows, tcols |-> t.tcols, trows |-> t.trows,
             columns |-> t.columns, cells |-> t.cells]
    BY DEF IsTable
  <1>2. g = [cols |-> cols, rows |-> rows, tcols |-> t.tcols, trows |-> t.trows,
             columns |-> t.columns, cells |-> t.cells]
    <2>1. g = [t EXCEPT !.cols = cols, !.rows = rows]
      BY DEF WithUsed
    <2> HIDE DEF g
    <2> QED BY <1>1, <2>1
  <1> HIDE DEF g
  <1>3. /\ g.cols = cols /\ g.rows = rows /\ g.tcols = t.tcols /\ g.trows = t.trows
        /\ g.columns = t.columns /\ g.cells = t.cells
    BY <1>2
  <1>4. /\ t.tcols \in Nat /\ t.trows \in Nat /\ t.cols \in 0..t.tcols /\ t.rows \in 0..t.trows
        /\ t.columns \in [0..(t.tcols - 1) -> Column]
        /\ t.cells \in [0..(t.tcols * t.trows - 1) -> Cell]
    BY DEF IsTable
  <1>5. \A c, r : GetCell(g, c, r) = GetCell(t, c, r) /\ (CellExists(g, c, r) <=> CellExists(t, c, r))
    BY <1>3 DEF GetCell, GetCellIdx, CellExists
  <1>6. \A c \in 0..(t.tcols - 1) : c >= cols => t.columns[c] = DefaultColumn
    BY <1>4 DEF IsTable
  <1>7. \A c \in 0..(t.tcols - 1), r \in 0..(t.trows - 1) :
            c >= cols \/ r >= rows => GetCell(g, c, r) = BlankCell
    <2> SUFFICES ASSUME NEW c \in 0..(t.tcols - 1), NEW r \in 0..(t.trows - 1),
                        c >= cols \/ r >= rows
                 PROVE  GetCell(g, c, r) = BlankCell
      OBVIOUS
    <2>1. c >= t.cols \/ r >= t.rows
      BY <1>4
    <2>2. GetCell(t, c, r) = BlankCell
      BY <2>1 DEF IsTable
    <2> QED BY <1>5, <2>2
  <1>8. cols \in 0..t.tcols /\ rows \in 0..t.trows
    BY <1>4
  <1>9. IsTable(g)
    BY <1>2, <1>3, <1>4, <1>6, <1>7, <1>8 DEF IsTable
  <1>10. SameCells(g, t) /\ SameColumns(g, t)
    BY <1>3, <1>5 DEF SameCells, SameColumns, CellAt, ColumnAt
  <1> QED BY <1>3, <1>9, <1>10 DEF g

LEMMA ReserveCellFacts ==
    ASSUME NEW t, IsTable(t), NEW col \in 0..(MaxDim - 1), NEW row \in 0..(MaxDim - 1)
    PROVE  LET g == ReserveCell(t, col, row) IN
           /\ IsTable(g)
           /\ g.cols = Larger(t.cols, col + 1) /\ g.rows = Larger(t.rows, row + 1)
           /\ SameCells(g, t) /\ SameColumns(g, t)
  <1> DEFINE s == ReserveDocumentSpace(t, col, row)
             cols == Larger(t.cols, col + 1)
             rows == Larger(t.rows, row + 1)
             g == WithUsed(s, cols, rows)
  <1>1. /\ IsTable(s) /\ CellExists(s, col, row)
        /\ s.cols = t.cols /\ s.rows = t.rows
        /\ SameCells(s, t) /\ SameColumns(s, t)
    BY SpaceFacts
  <1>2. ReserveCell(t, col, row) = g
    BY <1>1 DEF ReserveCell, WithUsed
  <1> HIDE DEF s
  <1>3. cols \in s.cols..s.tcols /\ rows \in s.rows..s.trows
    <2>1. s.tcols \in Nat /\ s.trows \in Nat /\ s.cols \in 0..s.tcols /\ s.rows \in 0..s.trows
      BY <1>1 DEF IsTable
    <2>2. col + 1 <= s.tcols /\ row + 1 <= s.trows
      BY <1>1, <2>1 DEF CellExists
    <2> QED BY <1>1, <2>1, <2>2 DEF Larger
  <1>4. /\ IsTable(g) /\ g.cols = cols /\ g.rows = rows
        /\ SameCells(g, s) /\ SameColumns(g, s)
    <2>1. IsTable(s)
      BY <1>1
    <2> HIDE DEF cols, rows
    <2> QED BY <1>3, <2>1, UsedFacts
  <1> HIDE DEF cols, rows, g
  <1>5. SameCells(g, t) /\ SameColumns(g, t)
    BY <1>1, <1>4 DEF SameCells, SameColumns
  <1> QED BY <1>2, <1>4, <1>5 DEF cols, rows

LEMMA ReserveColumnFacts ==
    ASSUME NEW t, IsTable(t), NEW col \in 0..(MaxDim - 1)
    PROVE  LET g == ReserveColumn(t, col) IN
           /\ IsTable(g)
           /\ g.cols = Larger(t.cols, col + 1) /\ g.rows = t.rows
           /\ SameCells(g, t) /\ SameColumns(g, t)
  <1> DEFINE s == ReserveDocumentSpace(t, col, 0)
             cols == Larger(t.cols, col + 1)
             rows == t.rows
             g == WithUsed(s, cols, rows)
  <1>0. 0 \in 0..(MaxDim - 1)
    BY TableAssumption
  <1>1. /\ IsTable(s) /\ CellExists(s, col, 0)
        /\ s.cols = t.cols /\ s.rows = t.rows
        /\ SameCells(s, t) /\ SameColumns(s, t)
    BY <1>0, SpaceFacts
  <1>2. ReserveColumn(t, col) = g
    <2> HIDE DEF s
    <2>1. s = [cols |-> s.cols, rows |-> s.rows, tcols |-> s.tcols, trows |-> s.trows,
               columns |-> s.columns, cells |-> s.cells]
      BY <1>1 DEF IsTable
    <2>2. ReserveColumn(t, col) = [s EXCEPT !.cols = cols]
      BY <1>1 DEF ReserveColumn, s
    <2> HIDE DEF cols
    <2>3. [s EXCEPT !.cols = cols] = [s EXCEPT !.cols = cols, !.rows = s.rows]
      BY <2>1
    <2> QED BY <1>1, <2>2, <2>3 DEF WithUsed
  <1> HIDE DEF s
  <1>3. cols \in s.cols..s.tcols /\ rows \in s.rows..s.trows
    <2>1. s.tcols \in Nat /\ s.trows \in Nat /\ s.cols \in 0..s.tcols /\ s.rows \in 0..s.trows
      BY <1>1 DEF IsTable
    <2>2. col + 1 <= s.tcols
      BY <1>1, <2>1 DEF CellExists
    <2> QED BY <1>1, <2>1, <2>2 DEF Larger
  <1>4. /\ IsTable(g) /\ g.cols = cols /\ g.rows = rows
        /\ SameCells(g, s) /\ SameColumns(g, s)
    <2>1. IsTable(s)
      BY <1>1
    <2> HIDE DEF cols, rows
    <2> QED BY <1>3, <2>1, UsedFacts
  <1> HIDE DEF cols, rows, g
  <1>5. SameCells(g, t) /\ SameColumns(g, t)
    BY <1>1, <1>4 DEF SameCells, SameColumns
  <1> QED BY <1>2, <1>4, <1>5 DEF cols, rows

LEMMA CellIdxFacts ==
    ASSUME NEW t, t.tcols \in Nat, t.trows \in Nat,
           NEW c \in 0..(t.tcols - 1), NEW r \in 0..(t.trows - 1)
    PROVE  /\ GetCellIdx(t, c, r) \in 0..(t.tcols * t.trows - 1)
           /\ GetCellIdx(t, c, r) \div t.trows = c
           /\ GetCellIdx(t, c, r) % t.trows = r
  BY IndexFacts DEF GetCellIdx

(* A cell of the used area is what a reader finds there.                   *)
LEMMA UsedCell ==
    ASSUME NEW t, IsTable(t), NEW c \in 0..(t.cols - 1), NEW r \in 0..(t.rows - 1)
    PROVE  CellExists(t, c, r) /\ GetCell(t, c, r) = CellAt(t, c, r) /\ c \in Nat /\ r \in Nat
  <1>1. t.tcols \in Nat /\ t.trows \in Nat /\ t.cols \in 0..t.tcols /\ t.rows \in 0..t.trows
    BY DEF IsTable
  <1>2. CellExists(t, c, r)
    BY <1>1 DEF CellExists
  <1> QED BY <1>1, <1>2 DEF CellAt

LEMMA CellAtType ==
    ASSUME NEW t, IsTable(t), NEW c \in Nat, NEW r \in Nat
    PROVE  CellAt(t, c, r) \in Cell
  <1>1. BlankCell \in Cell
    BY DefaultsAssumption DEF Cell, CellTypes
  <1>2. CASE CellExists(t, c, r)
    <2>1. t.tcols \in Nat /\ t.trows \in Nat /\ c \in 0..(t.tcols - 1) /\ r \in 0..(t.trows - 1)
      BY <1>2 DEF IsTable, CellExists
    <2>2. GetCellIdx(t, c, r) \in 0..(t.tcols * t.trows - 1)
      BY <2>1, IndexFacts DEF GetCellIdx
    <2> QED BY <1>2, <2>2 DEF CellAt, GetCell, IsTable
  <1> QED BY <1>1, <1>2 DEF CellAt

LEMMA ColumnAtType ==
    ASSUME NEW t, IsTable(t), NEW c \in Nat
    PROVE  ColumnAt(t, c) \in Column
  <1>1. DefaultColumn \in Column
    BY DefaultsAssumption DEF Column
  <1>2. \A k \in 0..(t.tcols - 1) : t.columns[k] \in Column
    BY DEF IsTable
  <1> QED BY <1>1, <1>2 DEF ColumnAt

LEMMA PutCellFacts ==
    ASSUME NEW t, IsTable(t), NEW col \in 0..(t.cols - 1), NEW row \in 0..(t.rows - 1), NEW cell \in Cell
    PROVE  LET g == PutCell(t, col, row, cell) IN
           /\ IsTable(g) /\ g.cols = t.cols /\ g.rows = t.rows
           /\ \A c, r \in Nat :
                CellAt(g, c, r) = IF c = col /\ r = row THEN cell ELSE CellAt(t, c, r)
           /\ SameColumns(g, t)
  <1> DEFINE k == GetCellIdx(t, col, row)
             cells == [t.cells EXCEPT ![k] = cell]
             g == [t EXCEPT !.cells[GetCellIdx(t, col, row)] = cell]
  <1>0. PutCell(t, col, row, cell) = g
    BY DEF PutCell
  <1>1. /\ t.tcols \in Nat /\ t.trows \in Nat /\ t.cols \in 0..t.tcols /\ t.rows \in 0..t.trows
        /\ t.columns \in [0..(t.tcols - 1) -> Column]
        /\ t.cells \in [0..(t.tcols * t.trows - 1) -> Cell]
    BY DEF IsTable
  <1>2. col \in 0..(t.tcols - 1) /\ row \in 0..(t.trows - 1)
    BY <1>1
  <1>3. g = [cols |-> t.cols, rows |-> t.rows, tcols |-> t.tcols, trows |-> t.trows,
             columns |-> t.columns, cells |-> cells]
    <2>1. t = [cols |-> t.cols, rows |-> t.rows, tcols |-> t.tcols, trows |-> t.trows,
               columns |-> t.columns, cells |-> t.cells]
      BY DEF IsTable
    <2>2. g = [t EXCEPT !.cells = cells]
      OBVIOUS
    <2> HIDE DEF g, cells
    <2> QED BY <2>1, <2>2
  <1> HIDE DEF g
  <1>4. k \in 0..(t.tcols * t.trows - 1)
    BY <1>1, <1>2, IndexFacts DEF GetCellIdx
  <1>5. cells \in [0..(t.tcols * t.trows - 1) -> Cell]
    BY <1>1
  <1>6. ASSUME NEW c \in 0..(t.tcols - 1), NEW r \in 0..(t.trows - 1)
        PROVE  cells[GetCellIdx(t, c, r)] = IF c = col /\ r = row THEN cell ELSE GetCell(t, c, r)
    <2> DEFINE i == GetCellIdx(t, c, r)
    <2>1. i \in 0..(t.tcols * t.trows - 1) /\ i \div t.trows = c /\ i % t.trows = r
      BY <1>1, CellIdxFacts
    <2>2. k \div t.trows = col /\ k % t.trows = row
      BY <1>1, <1>2, CellIdxFacts
    <2>3. cells[i] = IF i = k THEN cell ELSE t.cells[i]
      <3> HIDE DEF i, k
      <3> QED BY <1>1, <1>4, <2>1
    <2>4. i = k <=> c = col /\ r = row
      BY <2>1, <2>2
    <2>5. GetCell(t, c, r) = t.cells[i]
      BY DEF GetCell
    <2> QED BY <2>3, <2>4, <2>5
  <1> HIDE DEF cells, k
  <1>7. /\ g.cols = t.cols /\ g.rows = t.rows /\ g.tcols = t.tcols /\ g.trows = t.trows
        /\ g.columns = t.columns /\ g.cells = cells
    BY <1>3
  <1>8. ASSUME NEW c \in 0..(t.tcols - 1), NEW r \in 0..(t.trows - 1)
        PROVE  GetCell(g, c, r) = IF c = col /\ r = row THEN cell ELSE GetCell(t, c, r)
    BY <1>6, <1>7 DEF GetCell, GetCellIdx
  <1>9. IsTable(g)
    <2>1. \A c \in 0..(t.tcols - 1) : c >= t.cols => t.columns[c] = DefaultColumn
      BY DEF IsTable
    <2>2. \A c \in 0..(t.tcols - 1), r \in 0..(t.trows - 1) :
            c >= t.cols \/ r >= t.rows => GetCell(t, c, r) = BlankCell
      BY DEF IsTable
    <2>3. \A c \in 0..(t.tcols - 1), r \in 0..(t.trows - 1) :
            c >= t.cols \/ r >= t.rows => GetCell(g, c, r) = BlankCell
      BY <1>1, <1>8, <2>2
    <2> QED BY <1>1, <1>3, <1>5, <1>7, <2>1, <2>3 DEF IsTable
  <1>10. ASSUME NEW c \in Nat, NEW r \in Nat
         PROVE  CellAt(g, c, r) = IF c = col /\ r = row THEN cell ELSE CellAt(t, c, r)
    <2>1. CellExists(g, c, r) <=> CellExists(t, c, r)
      BY <1>7 DEF CellExists
    <2>2. CellExists(t, col, row)
      BY <1>2 DEF CellExists
    <2>3. CASE CellExists(t, c, r)
      <3>1. c \in 0..(t.tcols - 1) /\ r \in 0..(t.trows - 1)
        BY <2>3 DEF CellExists
      <3> QED BY <1>8, <2>1, <2>3, <3>1 DEF CellAt
    <2>4. CASE ~CellExists(t, c, r)
      BY <2>1, <2>2, <2>4 DEF CellAt
    <2> QED BY <2>3, <2>4
  <1>11. SameColumns(g, t)
    BY <1>7 DEF SameColumns, ColumnAt
  <1> QED BY <1>0, <1>7, <1>9, <1>10, <1>11

LEMMA PutColumnFacts ==
    ASSUME NEW t, IsTable(t), NEW col \in 0..(t.cols - 1), NEW column \in Column
    PROVE  LET g == PutColumn(t, col, column) IN
           /\ IsTable(g) /\ g.cols = t.cols /\ g.rows = t.rows
           /\ SameCells(g, t)
           /\ \A c \in Nat : ColumnAt(g, c) = IF c = col THEN column ELSE ColumnAt(t, c)
  <1> DEFINE columns == [t.columns EXCEPT ![col] = column]
             g == [t EXCEPT !.columns[col] = column]
  <1>0. PutColumn(t, col, column) = g
    BY DEF PutColumn
  <1>1. /\ t.tcols \in Nat /\ t.trows \in Nat /\ t.cols \in 0..t.tcols /\ t.rows \in 0..t.trows
        /\ t.columns \in [0..(t.tcols - 1) -> Column]
        /\ t.cells \in [0..(t.tcols * t.trows - 1) -> Cell]
    BY DEF IsTable
  <1>2. col \in 0..(t.tcols - 1)
    BY <1>1
  <1>3. g = [cols |-> t.cols, rows |-> t.rows, tcols |-> t.tcols, trows |-> t.trows,
             columns |-> columns, cells |-> t.cells]
    <2>1. t = [cols |-> t.cols, rows |-> t.rows, tcols |-> t.tcols, trows |-> t.trows,
               columns |-> t.columns, cells |-> t.cells]
      BY DEF IsTable
    <2>2. g = [t EXCEPT !.columns = columns]
      OBVIOUS
    <2> HIDE DEF g, columns
    <2> QED BY <2>1, <2>2
  <1> HIDE DEF g
  <1>4. columns \in [0..(t.tcols - 1) -> Column]
    BY <1>1
  <1>5. \A c \in 0..(t.tcols - 1) : columns[c] = IF c = col THEN column ELSE t.columns[c]
    BY <1>1
  <1> HIDE DEF columns
  <1>6. /\ g.cols = t.cols /\ g.rows = t.rows /\ g.tcols = t.tcols /\ g.trows = t.trows
        /\ g.columns = columns /\ g.cells = t.cells
    BY <1>3
  <1>7. \A c, r : GetCell(g, c, r) = GetCell(t, c, r) /\ (CellExists(g, c, r) <=> CellExists(t, c, r))
    BY <1>6 DEF GetCell, GetCellIdx, CellExists
  <1>8. IsTable(g)
    <2>1. \A c \in 0..(t.tcols - 1) : c >= t.cols => t.columns[c] = DefaultColumn
      BY DEF IsTable
    <2>2. ASSUME NEW c \in 0..(t.tcols - 1), c >= t.cols PROVE columns[c] = DefaultColumn
      <3>1. c # col
        BY <1>1, <2>2
      <3>2. columns[c] = t.columns[c]
        BY <1>5, <3>1
      <3> QED BY <2>1, <2>2, <3>2
    <2>3. \A c \in 0..(t.tcols - 1), r \in 0..(t.trows - 1) :
            c >= t.cols \/ r >= t.rows => GetCell(g, c, r) = BlankCell
      BY <1>7 DEF IsTable
    <2> QED BY <1>1, <1>3, <1>4, <1>6, <2>2, <2>3 DEF IsTable
  <1>9. SameCells(g, t)
    BY <1>7 DEF SameCells, CellAt
  <1>10. \A c \in Nat : ColumnAt(g, c) = IF c = col THEN column ELSE ColumnAt(t, c)
    BY <1>2, <1>5, <1>6 DEF ColumnAt
  <1> QED BY <1>0, <1>6, <1>8, <1>9, <1>10

LEMMA EmptyTableFacts ==
    /\ IsTable(EmptyTable)
    /\ \A c, r \in Nat : CellAt(EmptyTable, c, r) = BlankCell
    /\ \A c \in Nat : ColumnAt(EmptyTable, c) = DefaultColumn
  <1> DEFINE t == EmptyTable
  <1>1. /\ t = [cols |-> 0, rows |-> 0, tcols |-> 0, trows |-> 0, columns |-> << >>, cells |-> << >>]
        /\ t.cols = 0 /\ t.rows = 0 /\ t.tcols = 0 /\ t.trows = 0
        /\ t.columns = << >> /\ t.cells = << >>
    BY DEF EmptyTable
  <1>2. 0..(0 - 1) = {} /\ 0..(0 * 0 - 1) = {}
    OBVIOUS
  <1>3. << >> \in [{} -> Column] /\ << >> \in [{} -> Cell]
    OBVIOUS
  <1> HIDE DEF t
  <1>4. \A c : c \notin 0..(t.tcols - 1)
    BY <1>1, <1>2
  <1>5. t.columns \in [0..(t.tcols - 1) -> Column]
    BY <1>1, <1>2, <1>3
  <1>6. t.cells \in [0..(t.tcols * t.trows - 1) -> Cell]
    BY <1>1, <1>2, <1>3
  <1>7. IsTable(t)
    <2>1. t = [cols |-> t.cols, rows |-> t.rows, tcols |-> t.tcols, trows |-> t.trows,
               columns |-> t.columns, cells |-> t.cells]
      BY <1>1
    <2>2. t.tcols \in Nat /\ t.trows \in Nat /\ t.cols \in 0..t.tcols /\ t.rows \in 0..t.trows
      BY <1>1
    <2> QED BY <1>4, <1>5, <1>6, <2>1, <2>2 DEF IsTable
  <1>8. \A c, r \in Nat : CellAt(t, c, r) = BlankCell
    BY <1>4 DEF CellAt, CellExists
  <1>9. \A c \in Nat : ColumnAt(t, c) = DefaultColumn
    BY <1>4 DEF ColumnAt
  <1> QED BY <1>7, <1>8, <1>9 DEF t

-----------------------------------------------------------------------------
(* Formats and words.                                                      *)

LEMMA HeaderTypes ==
    /\ DefaultHeader \in Fmt
    /\ \A d, s \in Fmt : MergeHeader(d, s) \in Fmt
    /\ \A w \in CommandWord : FmtOf(w) \in Fmt /\ PrcsnOf(w) \in 0..255
  <1>1. DefaultPrcsn \in 0..255
    BY DefaultsAssumption
  <1>2. DefaultHeader \in Fmt
    BY <1>1 DEF DefaultHeader, Fmt, Alignment
  <1>3. ASSUME NEW d \in Fmt, NEW s \in Fmt PROVE MergeHeader(d, s) \in Fmt
    <2>1. /\ d.align \in Alignment /\ d.prcsn \in 0..255 /\ d.set \in SUBSET {"ALIGN", "PRCSN"}
          /\ s.align \in Alignment /\ s.prcsn \in 0..255 /\ s.set \in SUBSET {"ALIGN", "PRCSN"}
      BY DEF Fmt
    <2>2. d.set \cup s.set \in SUBSET {"ALIGN", "PRCSN"}
      BY <2>1
    <2> QED BY <2>1, <2>2 DEF MergeHeader, Fmt
  <1>4. ASSUME NEW n \in Int PROVE n % 256 \in 0..255
    OBVIOUS
  <1>5. ASSUME NEW w \in CommandWord PROVE FmtOf(w) \in Fmt /\ PrcsnOf(w) \in 0..255
    <2>1. w.align \in Alignment \cup {"NONE"} /\ w.prcsn \in Int /\ w.digits \in Int
      BY DEF CommandWord
    <2>2. w.prcsn % 256 \in 0..255 /\ w.digits % 256 \in 0..255
      BY <1>4, <2>1
    <2>3. DefaultHeader.set \in SUBSET {"ALIGN", "PRCSN"} /\ DefaultHeader.align \in Alignment
      BY DEF DefaultHeader, Alignment
    <2>4. (IF w.align = "NONE" THEN DefaultHeader.align ELSE w.align) \in Alignment
      BY <2>1, <2>3
    <2>5. (IF w.prcsn = None THEN DefaultPrcsn ELSE w.prcsn % 256) \in 0..255
      BY <1>1, <2>2
    <2>6. FmtOf(w) \in Fmt
      BY <2>3, <2>4, <2>5 DEF FmtOf, Fmt
    <2> QED BY <1>1, <2>2, <2>6 DEF PrcsnOf
  <1> QED BY <1>2, <1>3, <1>5

LEMMA FilledType ==
    ASSUME NEW cell \in Cell, NEW w \in CellText
    PROVE  /\ Filled(cell, w) = [fmt |-> cell.fmt, type |-> CellType(w), text |-> w.text]
           /\ Filled(cell, w) \in Cell
           /\ CellType(w) \in CellTypes \ {"NULL"}
  <1>1. CellType(w) \in {"EXPR", "STRING", "NUMBER"} /\ w.text \in STRING
    BY DEF CellType, CellText
  <1>2. Filled(cell, w) = [fmt |-> cell.fmt, type |-> CellType(w), text |-> w.text]
    <2>1. cell = [fmt |-> cell.fmt, type |-> cell.type, text |-> cell.text]
      BY DEF Cell
    <2>2. Filled(cell, w) = [cell EXCEPT !.type = CellType(w), !.text = w.text]
      BY DEF Filled
    <2> QED BY <2>1, <2>2
  <1> QED BY <1>1, <1>2 DEF Cell, CellTypes

-----------------------------------------------------------------------------
(* The inductive invariant of the loop over the lines.                     *)

Macro == [name : STRING, body : Body]

LoopInv ==
    /\ lines \in Seq(Lines) /\ Len(lines) <= MaxLines
    /\ pos \in Nat /\ rowIdx \in Nat /\ fmtRowIdx \in -1..rowIdx
    /\ rowIdx <= Len(lines)
    /\ pc \in {"ROW", "COMMAND"} =>
        /\ lines # << >> /\ Line.type = pc /\ pos <= Len(Line.words)
        /\ rowIdx + 1 <= Len(lines)
    /\ pc = "COMMAND" /\ state # "FIRST" => pos > 0
    /\ pc = "COMMAND" /\ state = "PRCSN" => fmtRowIdx = rowIdx
    /\ pc \in {"READ", "ROW", "COMMAND", "LOADED", "EVALUATED", "PRINT", "PRINTED", "ABORTED"}

MetaInv ==
    /\ meta \in [firstBodyRow : Nat, firstFootRow : Nat, summarized : BOOLEAN,
                 summary : Nat \X Nat, macros : Seq(Macro)]
    /\ Len(meta.macros) <= MaxMacros

IInv == IsTable(table) /\ LoopInv /\ MetaInv

(* The word that is read.                                                  *)
LEMMA WordFacts ==
    ASSUME LoopInv, NEW type \in {"ROW", "COMMAND"}, WordOf(type)
    PROVE  /\ Line \in Lines /\ Line.type = type /\ pc = type
           /\ lines # << >> /\ Len(lines) \in Nat \ {0}
           /\ pos \in 0..(MaxDim - 1) /\ pos < Len(Line.words) /\ Len(Line.words) \in Nat
           /\ rowIdx \in 0..(MaxDim - 1)
           /\ type = "ROW" => Word \in CellText
           /\ type = "COMMAND" => Word \in CommandWord
  <1>1. pc = type /\ lines # << >> /\ Line.type = type
    BY DEF WordOf, LoopInv
  <1>2. lines \in Seq(Lines) /\ Len(lines) \in Nat \ {0}
    BY <1>1, EmptySeq, LenProperties DEF LoopInv
  <1>3. Line \in Lines
    BY <1>2, ElementOfSeq DEF Line
  <1> DEFINE S == IF type = "ROW" THEN CellText ELSE CommandWord
  <1>4. Line.words \in Seq(S) /\ Len(Line.words) <= MaxDim
    BY <1>1, <1>3, LinesAssumption
  <1>5. pos \in Nat /\ pos < Len(Line.words)
    BY DEF LoopInv, WordOf, More
  <1>6. Len(Line.words) \in Nat
    BY <1>4, LenProperties
  <1>7. Word \in S
    <2>1. pos + 1 \in 1..Len(Line.words)
      BY <1>5, <1>6
    <2> QED BY <1>4, <2>1, ElementOfSeq DEF Word
  <1>8. MaxDim \in Nat /\ MaxLines \in Nat /\ MaxLines <= MaxDim
    BY TableAssumption, LinesAssumption
  <1>9. rowIdx \in 0..(MaxDim - 1)
    <2>1. rowIdx \in Nat /\ rowIdx + 1 <= Len(lines) /\ Len(lines) <= MaxLines
      BY <1>1 DEF LoopInv
    <2> QED BY <1>2, <1>8, <2>1
  <1> QED BY <1>1, <1>2, <1>3, <1>4, <1>5, <1>6, <1>7, <1>8, <1>9

-----------------------------------------------------------------------------
(* What the words do to the table, as a reader finds it.                   *)

CellPut(g, t, col, row, cell) ==
    \A c, r \in Nat : CellAt(g, c, r) = IF c = col /\ r = row THEN cell ELSE CellAt(t, c, r)
ColumnPut(g, t, col, column) ==
    \A c \in Nat : ColumnAt(g, c) = IF c = col THEN column ELSE ColumnAt(t, c)

(* The cell a row writes: a row below the row of the precisions inherits.  *)
Inherits == fmtRowIdx >= 0 /\ fmtRowIdx # rowIdx
RowCellOf(t) ==
    LET cell == Filled(CellAt(t, pos, rowIdx), Word) IN
    IF Inherits
    THEN [cell EXCEPT !.fmt = MergeHeader(@, CellAt(t, pos, fmtRowIdx).fmt)]
    ELSE cell

(* The assertion on the cell of the row of the precisions never fails: the *)
(* row is above.                                                           *)
LEMMA RowCellFacts ==
    ASSUME IInv, RowCell
    PROVE  /\ IsTable(table')
           /\ table'.cols = Larger(table.cols, pos + 1) /\ table'.rows = Larger(table.rows, rowIdx + 1)
           /\ RowCellOf(table) \in Cell
           /\ CellPut(table', table, pos, rowIdx, RowCellOf(table))
           /\ SameColumns(table', table)
           /\ Done /\ UNCHANGED <<state, fmtRowIdx, meta>>
  <1> DEFINE t == ReserveCell(table, pos, rowIdx)
             cell == RowCellOf(table)
  <1>1. /\ pos \in 0..(MaxDim - 1) /\ rowIdx \in 0..(MaxDim - 1) /\ Word \in CellText
    BY WordFacts DEF IInv, RowCell
  <1>2. /\ IsTable(t) /\ t.cols = Larger(table.cols, pos + 1) /\ t.rows = Larger(table.rows, rowIdx + 1)
        /\ SameCells(t, table) /\ SameColumns(t, table)
    BY <1>1, ReserveCellFacts DEF IInv
  <1>3. t.cols \in Nat /\ t.rows \in Nat /\ table.cols \in Nat /\ table.rows \in Nat
        /\ t.tcols \in Nat /\ t.trows \in Nat
    BY <1>2 DEF IsTable, IInv
  <1>4. pos \in 0..(t.cols - 1) /\ rowIdx \in 0..(t.rows - 1) /\ pos \in Nat /\ rowIdx \in Nat
    <2> HIDE DEF t
    <2> QED BY <1>1, <1>2, <1>3 DEF Larger
  <1>5. GetCell(t, pos, rowIdx) = CellAt(table, pos, rowIdx)
    <2> HIDE DEF t
    <2> QED BY <1>2, <1>4, UsedCell DEF SameCells
  <1>6. Inherits => fmtRowIdx \in 0..(t.rows - 1) /\ fmtRowIdx \in Nat
    <2>1. fmtRowIdx \in -1..rowIdx
      BY DEF IInv, LoopInv
    <2> HIDE DEF t
    <2> QED BY <1>3, <1>4, <2>1 DEF Inherits
  <1>7. Inherits => CellExists(t, pos, fmtRowIdx)
                    /\ GetCell(t, pos, fmtRowIdx) = CellAt(table, pos, fmtRowIdx)
    <2> HIDE DEF t
    <2> QED BY <1>2, <1>4, <1>6, UsedCell DEF SameCells
  <1>8. table' = PutCell(t, pos, rowIdx, cell) /\ Done /\ UNCHANGED <<state, fmtRowIdx, meta>>
    BY <1>5, <1>7 DEF RowCell, RowCellOf, Inherits
  <1>9. cell \in Cell
    <2> DEFINE filled == Filled(CellAt(table, pos, rowIdx), Word)
    <2>1. filled \in Cell
      BY <1>1, <1>4, CellAtType, FilledType DEF IInv
    <2>2. Inherits => CellAt(table, pos, fmtRowIdx) \in Cell
      BY <1>4, <1>6, CellAtType DEF IInv
    <2>3. Inherits => MergeHeader(filled.fmt, CellAt(table, pos, fmtRowIdx).fmt) \in Fmt
      <3> HIDE DEF filled
      <3> QED BY <2>1, <2>2, HeaderTypes DEF Cell
    <2>4. cell = IF Inherits
                 THEN [filled EXCEPT !.fmt = MergeHeader(filled.fmt, CellAt(table, pos, fmtRowIdx).fmt)]
                 ELSE filled
      BY DEF RowCellOf
    <2> HIDE DEF filled, cell
    <2> QED BY <2>1, <2>3, <2>4 DEF Cell
  <1> HIDE DEF t, cell
  <1>10. /\ IsTable(table') /\ table'.cols = t.cols /\ table'.rows = t.rows
         /\ \A c, r \in Nat :
                CellAt(table', c, r) = IF c = pos /\ r = rowIdx THEN cell ELSE CellAt(t, c, r)
         /\ SameColumns(table', t)
    BY <1>2, <1>4, <1>8, <1>9, PutCellFacts
  <1>11. CellPut(table', table, pos, rowIdx, cell) /\ SameColumns(table', table)
    BY <1>2, <1>10 DEF CellPut, SameCells, SameColumns
  <1> QED BY <1>2, <1>8, <1>9, <1>10, <1>11 DEF cell

(* sep: only the word `|` writes.                                          *)
LEMMA SepFacts ==
    ASSUME IInv, SepWord
    PROVE  \/ /\ Word.text = "-" /\ UNCHANGED <<state, fmtRowIdx, table, meta>> /\ Done
           \/ /\ Word.text = "|" /\ UNCHANGED <<state, fmtRowIdx, meta>> /\ Done
              /\ IsTable(table')
              /\ table'.cols = Larger(table.cols, pos + 1) /\ table'.rows = table.rows
              /\ SameCells(table', table)
              /\ ColumnPut(table', table, pos, [ColumnAt(table, pos) EXCEPT !.sep = Bar])
           \/ Word.text \notin {"-", "|"} /\ Stop
  <1> DEFINE t == ReserveColumn(table, pos)
             column == [ColumnAt(table, pos) EXCEPT !.sep = Bar]
  <1> SUFFICES ASSUME Word.text = "|", table' = PutColumn(t, pos, [t.columns[pos] EXCEPT !.sep = Bar])
               PROVE  /\ IsTable(table')
                      /\ table'.cols = Larger(table.cols, pos + 1) /\ table'.rows = table.rows
                      /\ SameCells(table', table)
                      /\ ColumnPut(table', table, pos, column)
    BY DEF SepWord
  <1>1. pos \in 0..(MaxDim - 1) /\ pos \in Nat
    <2>1. pos \in 0..(MaxDim - 1)
      BY WordFacts DEF IInv, SepWord, Argument
    <2> QED BY <2>1
  <1>2. /\ IsTable(t) /\ t.cols = Larger(table.cols, pos + 1) /\ t.rows = table.rows
        /\ SameCells(t, table) /\ SameColumns(t, table)
    BY <1>1, ReserveColumnFacts DEF IInv
  <1> HIDE DEF t
  <1>3. pos \in 0..(t.cols - 1) /\ pos \in 0..(t.tcols - 1)
    <2>1. t.cols \in 0..t.tcols /\ t.tcols \in Nat /\ table.cols \in Nat
      BY <1>2 DEF IsTable, IInv
    <2> QED BY <1>1, <1>2, <2>1 DEF Larger
  <1>4. t.columns[pos] = ColumnAt(table, pos)
    BY <1>1, <1>2, <1>3 DEF SameColumns, ColumnAt
  <1>5. column \in Column
    <2>1. ColumnAt(table, pos) \in Column /\ Bar \in STRING
      BY <1>1, ColumnAtType, DefaultsAssumption DEF IInv
    <2> QED BY <2>1 DEF Column
  <1>6. table' = PutColumn(t, pos, column)
    BY <1>4
  <1> HIDE DEF column
  <1>7. /\ IsTable(table') /\ table'.cols = t.cols /\ table'.rows = t.rows
        /\ SameCells(table', t)
        /\ \A c \in Nat : ColumnAt(table', c) = IF c = pos THEN column ELSE ColumnAt(t, c)
    <2>1. IsTable(t) /\ pos \in 0..(t.cols - 1) /\ column \in Column
      BY <1>2, <1>3, <1>5
    <2> DEFINE g == PutColumn(t, pos, column)
    <2>2. /\ IsTable(g) /\ g.cols = t.cols /\ g.rows = t.rows
          /\ SameCells(g, t)
          /\ \A c \in Nat : ColumnAt(g, c) = IF c = pos THEN column ELSE ColumnAt(t, c)
      BY <2>1, PutColumnFacts
    <2>3. table' = g
      BY <1>6
    <2> HIDE DEF g
    <2> QED BY <2>2, <2>3
  <1>8. SameCells(table', table) /\ ColumnPut(table', table, pos, column)
    BY <1>2, <1>7 DEF ColumnPut, SameCells, SameColumns
  <1> QED BY <1>2, <1>7, <1>8

(* fmt: the word `-` makes the column and writes nothing, a word without a *)
(* width leaves the column as it is.                                       *)
FmtColumn(t, col) ==
    IF Word.width = None THEN ColumnAt(t, col)
    ELSE [ColumnAt(t, col) EXCEPT !.width = Larger(Word.width, MinWidth)]
FmtCell(t, col) == [CellAt(t, col, 0) EXCEPT !.fmt = MergeHeader(@, FmtOf(Word))]

LEMMA FmtFacts ==
    ASSUME IInv, FmtWord
    PROVE  /\ pos > 0 /\ UNCHANGED <<state, fmtRowIdx, meta>> /\ Done
           /\ IsTable(table')
           /\ table'.cols = Larger(table.cols, pos)
           /\ Word.text = "-" => /\ table'.rows = table.rows
                                 /\ SameCells(table', table) /\ SameColumns(table', table)
           /\ Word.text # "-" => /\ table'.rows = Larger(table.rows, 1)
                                 /\ FmtCell(table, pos - 1) \in Cell
                                 /\ CellPut(table', table, pos - 1, 0, FmtCell(table, pos - 1))
                                 /\ ColumnPut(table', table, pos - 1, FmtColumn(table, pos - 1))
  <1> DEFINE col == pos - 1
             t   == ReserveColumn(table, col)
             column == FmtColumn(table, col)
             t2  == IF Word.width = None THEN t
                    ELSE PutColumn(t, col, [t.columns[col] EXCEPT !.width = Larger(Word.width, MinWidth)])
             t3  == ReserveCell(t2, col, 0)
             cell == FmtCell(table, col)
  <1>1. col \in 0..(MaxDim - 1) /\ col \in Nat /\ pos > 0 /\ col + 1 = pos /\ Word \in CommandWord
        /\ 0 \in 0..(MaxDim - 1)
    <2>1. pos \in 0..(MaxDim - 1) /\ Word \in CommandWord /\ pc = "COMMAND"
      BY WordFacts DEF IInv, FmtWord, Argument
    <2>2. pos > 0
      BY <2>1 DEF IInv, LoopInv, FmtWord, Argument
    <2> QED BY <2>1, <2>2, TableAssumption
  <1>2. /\ IsTable(t) /\ t.cols = Larger(table.cols, col + 1) /\ t.rows = table.rows
        /\ SameCells(t, table) /\ SameColumns(t, table)
    BY <1>1, ReserveColumnFacts DEF IInv
  <1>3. UNCHANGED <<state, fmtRowIdx, meta>> /\ Done
    BY DEF FmtWord
  <1>4. Word.text = "-" => table' = t
    BY DEF FmtWord
  <1>5. Word.text # "-" =>
            table' = PutCell(t3, col, 0, [GetCell(t3, col, 0) EXCEPT !.fmt = MergeHeader(@, FmtOf(Word))])
    BY DEF FmtWord
  <1> HIDE DEF t
  <1>6. col \in 0..(t.cols - 1) /\ col \in 0..(t.tcols - 1) /\ t.cols \in Nat /\ t.rows \in Nat
    <2>1. t.cols \in 0..t.tcols /\ t.tcols \in Nat /\ table.cols \in Nat /\ t.rows \in 0..t.trows /\ t.trows \in Nat
      BY <1>2 DEF IsTable, IInv
    <2> QED BY <1>1, <1>2, <2>1 DEF Larger
  <1>7. t.columns[col] = ColumnAt(table, col) /\ ColumnAt(table, col) \in Column
    BY <1>1, <1>2, <1>6, ColumnAtType DEF SameColumns, ColumnAt, IInv
  <1>8. column \in Column
    <2>1. Larger(Word.width, MinWidth) \in Int
      <3>1. Word.width \in Int /\ MinWidth \in Int
        BY <1>1, DefaultsAssumption DEF CommandWord
      <3> QED BY <3>1 DEF Larger
    <2> QED BY <1>7, <2>1 DEF FmtColumn, Column
  <1>9. /\ IsTable(t2) /\ t2.cols = t.cols /\ t2.rows = t.rows
        /\ SameCells(t2, table) /\ ColumnPut(t2, table, col, column)
    <2>1. CASE Word.width = None
      <3>1. t2 = t /\ column = ColumnAt(table, col)
        BY <2>1 DEF FmtColumn
      <3> HIDE DEF t2, column, col
      <3> QED BY <1>2, <3>1 DEF ColumnPut, SameCells, SameColumns
    <2>2. CASE Word.width # None
      <3>1. t2 = PutColumn(t, col, column)
        BY <1>7, <2>2 DEF FmtColumn
      <3> HIDE DEF t2, column, col
      <3>2. /\ IsTable(t2) /\ t2.cols = t.cols /\ t2.rows = t.rows
            /\ SameCells(t2, t)
            /\ \A c \in Nat : ColumnAt(t2, c) = IF c = col THEN column ELSE ColumnAt(t, c)
        BY <1>2, <1>6, <1>8, <3>1, PutColumnFacts
      <3> QED BY <1>2, <3>2 DEF ColumnPut, SameCells, SameColumns
    <2> QED BY <2>1, <2>2
  <1> HIDE DEF t2, column
  <1>10. /\ IsTable(t3) /\ t3.cols = Larger(t2.cols, col + 1) /\ t3.rows = Larger(t2.rows, 1)
         /\ SameCells(t3, t2) /\ SameColumns(t3, t2)
    <2>1. /\ IsTable(t3) /\ t3.cols = Larger(t2.cols, col + 1) /\ t3.rows = Larger(t2.rows, 0 + 1)
          /\ SameCells(t3, t2) /\ SameColumns(t3, t2)
      <3> HIDE DEF col
      <3> QED BY <1>1, <1>9, ReserveCellFacts
    <2> QED BY <2>1
  <1> HIDE DEF t3
  <1>11. t3.cols = t.cols /\ t3.rows = Larger(table.rows, 1)
    BY <1>1, <1>2, <1>6, <1>9, <1>10 DEF Larger
  <1>12. col \in 0..(t3.cols - 1) /\ 0 \in 0..(t3.rows - 1) /\ 0 \in Nat
    <2>1. t3.cols \in Nat /\ t3.rows \in Nat /\ table.rows \in Nat
      BY <1>10 DEF IsTable, IInv
    <2> QED BY <1>6, <1>11, <2>1 DEF Larger
  <1>13. GetCell(t3, col, 0) = CellAt(table, col, 0)
    <2> HIDE DEF col
    <2> QED BY <1>1, <1>9, <1>10, <1>12, UsedCell DEF SameCells
  <1>14. cell \in Cell
    <2>1. CellAt(table, col, 0) \in Cell /\ FmtOf(Word) \in Fmt
      BY <1>1, <1>12, CellAtType, HeaderTypes DEF IInv
    <2>2. MergeHeader(CellAt(table, col, 0).fmt, FmtOf(Word)) \in Fmt
      BY <2>1, HeaderTypes DEF Cell
    <2>3. cell = [CellAt(table, col, 0) EXCEPT !.fmt = MergeHeader(CellAt(table, col, 0).fmt, FmtOf(Word))]
      BY DEF FmtCell
    <2> HIDE DEF cell
    <2> QED BY <2>1, <2>2, <2>3 DEF Cell
  <1>15. Word.text # "-" => table' = PutCell(t3, col, 0, cell)
    BY <1>5, <1>13 DEF FmtCell
  <1> HIDE DEF cell, col
  <1>16. ASSUME Word.text # "-"
         PROVE  /\ IsTable(table') /\ table'.cols = t3.cols /\ table'.rows = t3.rows
                /\ CellPut(table', t3, col, 0, cell) /\ SameColumns(table', t3)
    <2>1. table' = PutCell(t3, col, 0, cell)
      BY <1>15, <1>16
    <2>2. /\ IsTable(table') /\ table'.cols = t3.cols /\ table'.rows = t3.rows
          /\ \A c, r \in Nat :
                CellAt(table', c, r) = IF c = col /\ r = 0 THEN cell ELSE CellAt(t3, c, r)
          /\ SameColumns(table', t3)
      BY <1>10, <1>12, <1>14, <2>1, PutCellFacts
    <2> QED BY <2>2 DEF CellPut
  <1>17. ASSUME Word.text # "-"
         PROVE  CellPut(table', table, col, 0, cell) /\ ColumnPut(table', table, col, column)
    BY <1>9, <1>10, <1>16, <1>17 DEF CellPut, ColumnPut, SameCells, SameColumns
  <1>18. IsTable(table') /\ table'.cols = t.cols
    BY <1>2, <1>4, <1>11, <1>16
  <1> QED BY <1>1, <1>2, <1>3, <1>4, <1>11, <1>14, <1>16, <1>17, <1>18 DEF col, cell, column

(* prcsn: each word but reset writes the cell in the next row.             *)
PrcsnCell(t, col, row) ==
    [CellAt(t, col, row) EXCEPT !.fmt.prcsn = PrcsnOf(Word), !.fmt.set = @ \cup {"PRCSN"}]

LEMMA PrcsnFacts ==
    ASSUME IInv, PrcsnWord
    PROVE  /\ pos > 0 /\ fmtRowIdx = rowIdx /\ UNCHANGED meta /\ Done
           /\ Word.text = "reset" => fmtRowIdx' = -1 /\ state' = "ERROR" /\ table' = table
           /\ Word.text # "reset" =>
                /\ UNCHANGED <<state, fmtRowIdx>>
                /\ IsTable(table')
                /\ table'.cols = Larger(table.cols, pos) /\ table'.rows = Larger(table.rows, rowIdx + 1)
                /\ PrcsnCell(table, pos - 1, rowIdx) \in Cell
                /\ CellPut(table', table, pos - 1, rowIdx, PrcsnCell(table, pos - 1, rowIdx))
                /\ SameColumns(table', table)
  <1> DEFINE col == pos - 1
             t   == ReserveCell(table, col, rowIdx)
             cell == PrcsnCell(table, col, rowIdx)
  <1>1. /\ col \in 0..(MaxDim - 1) /\ col \in Nat /\ pos > 0 /\ col + 1 = pos /\ Word \in CommandWord
        /\ rowIdx \in 0..(MaxDim - 1) /\ rowIdx \in Nat /\ fmtRowIdx = rowIdx
    <2>1. pos \in 0..(MaxDim - 1) /\ rowIdx \in 0..(MaxDim - 1) /\ Word \in CommandWord /\ pc = "COMMAND"
      BY WordFacts DEF IInv, PrcsnWord, Argument
    <2>2. pos > 0 /\ fmtRowIdx = rowIdx
      BY <2>1 DEF IInv, LoopInv, PrcsnWord, Argument
    <2> QED BY <2>1, <2>2, TableAssumption
  <1>2. UNCHANGED meta /\ Done /\ (Word.text = "reset" => fmtRowIdx' = -1 /\ state' = "ERROR" /\ table' = table)
    BY DEF PrcsnWord
  <1> SUFFICES ASSUME Word.text # "reset"
               PROVE  /\ UNCHANGED <<state, fmtRowIdx>>
                      /\ IsTable(table')
                      /\ table'.cols = Larger(table.cols, pos) /\ table'.rows = Larger(table.rows, rowIdx + 1)
                      /\ cell \in Cell
                      /\ CellPut(table', table, col, rowIdx, cell)
                      /\ SameColumns(table', table)
    BY <1>1, <1>2
  <1>3. /\ UNCHANGED <<state, fmtRowIdx>>
        /\ table' = PutCell(t, col, rowIdx, [GetCell(t, col, rowIdx) EXCEPT
                        !.fmt.prcsn = PrcsnOf(Word), !.fmt.set = @ \cup {"PRCSN"}])
    BY <1>1 DEF PrcsnWord
  <1>4. /\ IsTable(t) /\ t.cols = Larger(table.cols, col + 1) /\ t.rows = Larger(table.rows, rowIdx + 1)
        /\ SameCells(t, table) /\ SameColumns(t, table)
    BY <1>1, ReserveCellFacts DEF IInv
  <1> HIDE DEF t
  <1>5. col \in 0..(t.cols - 1) /\ rowIdx \in 0..(t.rows - 1)
    <2>1. table.cols \in Nat /\ table.rows \in Nat
      BY DEF IsTable, IInv
    <2> QED BY <1>1, <1>4, <2>1 DEF Larger
  <1>6. GetCell(t, col, rowIdx) = CellAt(table, col, rowIdx)
    <2> HIDE DEF col
    <2> QED BY <1>1, <1>4, <1>5, UsedCell DEF SameCells
  <1>7. table' = PutCell(t, col, rowIdx, cell)
    BY <1>3, <1>6 DEF PrcsnCell
  <1>8. cell \in Cell
    <2> DEFINE old == CellAt(table, col, rowIdx)
    <2>1. old \in Cell /\ PrcsnOf(Word) \in 0..255
      BY <1>1, CellAtType, HeaderTypes DEF IInv
    <2>2. cell = [old EXCEPT !.fmt.prcsn = PrcsnOf(Word), !.fmt.set = @ \cup {"PRCSN"}]
      BY DEF PrcsnCell
    <2> HIDE DEF old, cell
    <2>3. old = [fmt |-> old.fmt, type |-> old.type, text |-> old.text]
          /\ old.type \in CellTypes /\ old.text \in STRING
      BY <2>1 DEF Cell
    <2>4. old.fmt \in Fmt
      BY <2>1 DEF Cell
    <2>5. old.fmt = [align |-> old.fmt.align, prcsn |-> old.fmt.prcsn, set |-> old.fmt.set]
          /\ old.fmt.align \in Alignment /\ old.fmt.set \in SUBSET {"ALIGN", "PRCSN"}
      BY <2>4 DEF Fmt
    <2> DEFINE fmt == [align |-> old.fmt.align, prcsn |-> PrcsnOf(Word), set |-> old.fmt.set \cup {"PRCSN"}]
    <2>6. cell = [fmt |-> fmt, type |-> old.type, text |-> old.text]
      BY <2>2, <2>3, <2>5
    <2>7. fmt \in Fmt
      BY <2>1, <2>5 DEF Fmt
    <2> HIDE DEF fmt
    <2> QED BY <2>3, <2>6, <2>7 DEF Cell
  <1> HIDE DEF cell, col
  <1>9. /\ IsTable(table') /\ table'.cols = t.cols /\ table'.rows = t.rows
        /\ \A c, r \in Nat :
                CellAt(table', c, r) = IF c = col /\ r = rowIdx THEN cell ELSE CellAt(t, c, r)
        /\ SameColumns(table', t)
    BY <1>4, <1>5, <1>7, <1>8, PutCellFacts
  <1>10. CellPut(table', table, col, rowIdx, cell) /\ SameColumns(table', table)
    BY <1>4, <1>9 DEF CellPut, SameCells, SameColumns
  <1> QED BY <1>1, <1>3, <1>4, <1>8, <1>9, <1>10

-----------------------------------------------------------------------------
(* What evaluation and the completion of the formats do to the table.      *)

WithCells(t, cells) == [t EXCEPT !.cells = cells]

LEMMA CellsFacts ==
    ASSUME NEW t, IsTable(t), NEW cells \in [0..(t.tcols * t.trows - 1) -> Cell],
           \A i \in 0..(t.tcols * t.trows - 1) :
                <<i \div t.trows, i % t.trows>> \notin Used(t) => cells[i] = t.cells[i]
    PROVE  LET g == WithCells(t, cells) IN
           /\ IsTable(g) /\ g.cols = t.cols /\ g.rows = t.rows
           /\ \A c, r \in Nat : CellAt(g, c, r) = IF c < t.cols /\ r < t.rows
                                                  THEN cells[GetCellIdx(t, c, r)]
                                                  ELSE CellAt(t, c, r)
           /\ SameColumns(g, t)
  <1> DEFINE g == WithCells(t, cells)
  <1>1. t = [cols |-> t.cols, rows |-> t.rows, tcols |-> t.tcols, trows |-> t.trows,
             columns |-> t.columns, cells |-> t.cells]
    BY DEF IsTable
  <1>2. g = [cols |-> t.cols, rows |-> t.rows, tcols |-> t.tcols, trows |-> t.trows,
             columns |-> t.columns, cells |-> cells]
    <2>1. g = [t EXCEPT !.cells = cells]
      BY DEF WithCells
    <2> HIDE DEF g
    <2> QED BY <1>1, <2>1
  <1> HIDE DEF g
  <1>3. /\ g.cols = t.cols /\ g.rows = t.rows /\ g.tcols = t.tcols /\ g.trows = t.trows
        /\ g.columns = t.columns /\ g.cells = cells
    BY <1>2
  <1>4. /\ t.tcols \in Nat /\ t.trows \in Nat /\ t.cols \in 0..t.tcols /\ t.rows \in 0..t.trows
        /\ t.columns \in [0..(t.tcols - 1) -> Column]
        /\ t.cells \in [0..(t.tcols * t.trows - 1) -> Cell]
    BY DEF IsTable
  <1>5. ASSUME NEW c \in 0..(t.tcols - 1), NEW r \in 0..(t.trows - 1)
        PROVE  /\ GetCell(g, c, r) = cells[GetCellIdx(t, c, r)]
               /\ ~(c < t.cols /\ r < t.rows) => GetCell(g, c, r) = GetCell(t, c, r)
    <2> DEFINE i == GetCellIdx(t, c, r)
    <2>1. GetCell(g, c, r) = cells[i]
      BY <1>3 DEF GetCell, GetCellIdx
    <2>2. i \in 0..(t.tcols * t.trows - 1) /\ i \div t.trows = c /\ i % t.trows = r
      BY <1>4, CellIdxFacts
    <2>3. <<c, r>> \in Used(t) => c < t.cols /\ r < t.rows
      BY <1>4 DEF Used
    <2>4. ~(c < t.cols /\ r < t.rows) => cells[i] = t.cells[i]
      <3> HIDE DEF i
      <3> QED BY <2>2, <2>3
    <2>5. GetCell(t, c, r) = t.cells[i]
      BY DEF GetCell
    <2> QED BY <2>1, <2>4, <2>5
  <1>6. IsTable(g)
    <2>1. \A c \in 0..(t.tcols - 1) : c >= t.cols => t.columns[c] = DefaultColumn
      BY DEF IsTable
    <2>2. ASSUME NEW c \in 0..(t.tcols - 1), NEW r \in 0..(t.trows - 1),
                 c >= t.cols \/ r >= t.rows
          PROVE  GetCell(g, c, r) = BlankCell
      <3>1. GetCell(t, c, r) = BlankCell
        BY <2>2 DEF IsTable
      <3>2. ~(c < t.cols /\ r < t.rows)
        BY <1>4, <2>2
      <3> QED BY <1>5, <3>1, <3>2
    <2> QED BY <1>2, <1>3, <1>4, <2>1, <2>2 DEF IsTable
  <1>7. ASSUME NEW c \in Nat, NEW r \in Nat
        PROVE  CellAt(g, c, r) = IF c < t.cols /\ r < t.rows THEN cells[GetCellIdx(t, c, r)]
                                 ELSE CellAt(t, c, r)
    <2>1. CellExists(g, c, r) <=> CellExists(t, c, r)
      BY <1>3 DEF CellExists
    <2>2. CASE CellExists(t, c, r)
      <3>1. c \in 0..(t.tcols - 1) /\ r \in 0..(t.trows - 1)
        BY <2>2 DEF CellExists
      <3>2. CellAt(g, c, r) = GetCell(g, c, r) /\ CellAt(t, c, r) = GetCell(t, c, r)
        BY <2>1, <2>2 DEF CellAt
      <3> QED BY <1>5, <3>1, <3>2
    <2>3. CASE ~CellExists(t, c, r)
      <3>1. ~(c < t.cols /\ r < t.rows)
        BY <1>4, <2>3 DEF CellExists
      <3> QED BY <2>1, <2>3, <3>1 DEF CellAt
    <2> QED BY <2>2, <2>3
  <1>8. SameColumns(g, t)
    BY <1>3 DEF SameColumns, ColumnAt
  <1> QED BY <1>3, <1>6, <1>7, <1>8 DEF g

(* The cell an index stands for. *)
LEMMA IndexedCell ==
    ASSUME NEW t, IsTable(t), NEW i \in 0..(t.tcols * t.trows - 1)
    PROVE  /\ t.cells[i] = CellAt(t, i \div t.trows, i % t.trows)
           /\ t.cells[i] = GetCell(t, i \div t.trows, i % t.trows)
           /\ i \div t.trows \in 0..(t.tcols - 1) /\ i % t.trows \in 0..(t.trows - 1)
           /\ i \div t.trows \in Nat /\ i % t.trows \in Nat
           /\ t.cells[i] \in Cell
  <1> DEFINE c == i \div t.trows
             r == i % t.trows
  <1>1. t.tcols \in Nat /\ t.trows \in Nat
    BY DEF IsTable
  <1>2. c \in 0..(t.tcols - 1) /\ r \in 0..(t.trows - 1) /\ i = r + c * t.trows
    BY <1>1, PlaceOfIndex
  <1> HIDE DEF c, r
  <1>3. GetCell(t, c, r) = t.cells[i]
    BY <1>2 DEF GetCell, GetCellIdx
  <1>4. CellExists(t, c, r)
    BY <1>2 DEF CellExists
  <1>5. t.cells[i] \in Cell
    BY DEF IsTable
  <1>6. c \in Nat /\ r \in Nat
    BY <1>2
  <1> QED BY <1>2, <1>3, <1>4, <1>5, <1>6 DEF CellAt, c, r

(* Evaluation gives the expressions another type, and nothing else.        *)
Results == {"NUMBER", "STRING", "ERROR"}

LEMMA EvaluateFacts ==
    ASSUME IInv, Evaluate
    PROVE  /\ IsTable(table') /\ table'.cols = table.cols /\ table'.rows = table.rows
           /\ SameColumns(table', table)
           /\ \A c, r \in Nat :
                \/ CellAt(table, c, r).type # "EXPR" /\ CellAt(table', c, r) = CellAt(table, c, r)
                \/ /\ CellAt(table, c, r).type = "EXPR"
                   /\ \E type \in Results : CellAt(table', c, r) = [CellAt(table, c, r) EXCEPT !.type = type]
  <1> DEFINE exprs == {p \in Used(table) : Unevaluated(GetCell(table, p[1], p[2]))}
             Size == table.tcols * table.trows - 1
  <1>1. PICK type \in [exprs -> Results] :
            table' = [table EXCEPT !.cells = [i \in DOMAIN @ |->
                LET p == <<i \div table.trows, i % table.trows>> IN
                IF p \in exprs THEN [@[i] EXCEPT !.type = type[p]] ELSE @[i]]]
    BY DEF Evaluate, Results
  <1> DEFINE cells == [i \in 0..Size |->
                IF <<i \div table.trows, i % table.trows>> \in exprs
                THEN [table.cells[i] EXCEPT !.type = type[<<i \div table.trows, i % table.trows>>]]
                ELSE table.cells[i]]
  <1>2. IsTable(table) /\ table.cells \in [0..Size -> Cell]
        /\ table.tcols \in Nat /\ table.trows \in Nat /\ table.cols \in 0..table.tcols /\ table.rows \in 0..table.trows
    BY DEF IInv, IsTable
  <1>3. table' = WithCells(table, cells)
    <2>1. DOMAIN table.cells = 0..Size
      BY <1>2
    <2> HIDE DEF exprs
    <2> QED BY <1>1, <2>1 DEF WithCells
  <1>4. ASSUME NEW cell \in Cell, NEW ty \in Results
        PROVE  [cell EXCEPT !.type = ty] \in Cell
    <2>1. cell = [fmt |-> cell.fmt, type |-> cell.type, text |-> cell.text] /\ cell.fmt \in Fmt /\ cell.text \in STRING
      BY DEF Cell
    <2>2. [cell EXCEPT !.type = ty] = [fmt |-> cell.fmt, type |-> ty, text |-> cell.text]
      BY <2>1
    <2> QED BY <2>1, <2>2 DEF Cell, CellTypes, Results
  <1>5. cells \in [0..Size -> Cell]
    <2> SUFFICES ASSUME NEW i \in 0..Size PROVE cells[i] \in Cell
      OBVIOUS
    <2>1. table.cells[i] \in Cell
      BY <1>2
    <2> DEFINE p == <<i \div table.trows, i % table.trows>>
    <2>2. cells[i] = IF p \in exprs THEN [table.cells[i] EXCEPT !.type = type[p]] ELSE table.cells[i]
      OBVIOUS
    <2>3. p \in exprs => type[p] \in Results
      BY <1>1
    <2> HIDE DEF p, exprs, cells
    <2> QED BY <1>4, <2>1, <2>2, <2>3
  <1>6. \A i \in 0..Size : <<i \div table.trows, i % table.trows>> \notin Used(table) => cells[i] = table.cells[i]
    OBVIOUS
  <1>7. /\ IsTable(table') /\ table'.cols = table.cols /\ table'.rows = table.rows
        /\ \A c, r \in Nat : CellAt(table', c, r) = IF c < table.cols /\ r < table.rows
                                                    THEN cells[GetCellIdx(table, c, r)]
                                                    ELSE CellAt(table, c, r)
        /\ SameColumns(table', table)
    <2> HIDE DEF cells
    <2> QED BY <1>2, <1>3, <1>5, <1>6, CellsFacts
  <1> SUFFICES ASSUME NEW c \in Nat, NEW r \in Nat
               PROVE  \/ CellAt(table, c, r).type # "EXPR" /\ CellAt(table', c, r) = CellAt(table, c, r)
                      \/ /\ CellAt(table, c, r).type = "EXPR"
                         /\ \E ty \in Results : CellAt(table', c, r) = [CellAt(table, c, r) EXCEPT !.type = ty]
    BY <1>7
  <1>8. CASE c < table.cols /\ r < table.rows
    <2> DEFINE i == GetCellIdx(table, c, r)
    <2>1. c \in 0..(table.cols - 1) /\ r \in 0..(table.rows - 1)
          /\ c \in 0..(table.tcols - 1) /\ r \in 0..(table.trows - 1)
      BY <1>2, <1>8
    <2>2. i \in 0..Size /\ i \div table.trows = c /\ i % table.trows = r
      BY <1>2, <2>1, CellIdxFacts
    <2>3. table.cells[i] = CellAt(table, c, r) /\ GetCell(table, c, r) = CellAt(table, c, r)
      BY <1>2, <2>1, UsedCell DEF GetCell
    <2>4. <<c, r>> \in exprs <=> CellAt(table, c, r).type = "EXPR"
      BY <2>1, <2>3 DEF Used, Unevaluated
    <2>5. CellAt(table', c, r) = cells[i]
      BY <1>7, <1>8
    <2>6. cells[i] = IF <<c, r>> \in exprs THEN [table.cells[i] EXCEPT !.type = type[<<c, r>>]]
                     ELSE table.cells[i]
      <3> HIDE DEF i, exprs
      <3> QED BY <2>2
    <2>7. <<c, r>> \in exprs => type[<<c, r>>] \in Results
      BY <1>1
    <2> HIDE DEF i, exprs, cells
    <2> QED BY <2>3, <2>4, <2>5, <2>6, <2>7
  <1>9. CASE ~(c < table.cols /\ r < table.rows)
    <2>1. CellAt(table', c, r) = CellAt(table, c, r)
      BY <1>7, <1>9
    <2>2. CellAt(table, c, r) = BlankCell
      BY <1>2, <1>9 DEF CellAt, CellExists, IsTable
    <2>3. BlankCell.type # "EXPR"
      BY DefaultsAssumption
    <2> QED BY <2>1, <2>2, <2>3
  <1> QED BY <1>8, <1>9

(* The formats are completed from the top of the column.                   *)
CompletedFmt(t, c, r) ==
    MergeHeader(CellAt(t, c, r).fmt, MergeHeader(CellAt(t, c, 0).fmt, DefaultHeader))

LEMMA CompleteFacts ==
    ASSUME IInv, CompleteFormats
    PROVE  /\ IsTable(table') /\ table'.cols = table.cols /\ table'.rows = table.rows
           /\ SameColumns(table', table)
           /\ \A c, r \in Nat :
                CellAt(table', c, r) =
                    IF c < table.cols /\ r < table.rows
                    THEN [CellAt(table, c, r) EXCEPT !.fmt = CompletedFmt(table, c, r)]
                    ELSE CellAt(table, c, r)
  <1> DEFINE Size == table.tcols * table.trows - 1
             fmt(c) == MergeHeader(GetCell(table, c, 0).fmt, DefaultHeader)
             cells == [i \in 0..Size |->
                IF <<i \div table.trows, i % table.trows>> \in Used(table)
                THEN [table.cells[i] EXCEPT !.fmt = MergeHeader(table.cells[i].fmt, fmt(i \div table.trows))]
                ELSE table.cells[i]]
  <1>1. IsTable(table) /\ table.cells \in [0..Size -> Cell]
        /\ table.tcols \in Nat /\ table.trows \in Nat /\ table.cols \in 0..table.tcols /\ table.rows \in 0..table.trows
    BY DEF IInv, IsTable
  <1>2. table' = WithCells(table, cells)
    <2>1. DOMAIN table.cells = 0..Size
      BY <1>1
    <2> DEFINE new == [i \in DOMAIN table.cells |->
            LET col == i \div table.trows
                f == MergeHeader(GetCell(table, col, 0).fmt, DefaultHeader)
            IN  IF <<col, i % table.trows>> \in Used(table)
                THEN [table.cells[i] EXCEPT !.fmt = MergeHeader(table.cells[i].fmt, f)]
                ELSE table.cells[i]]
    <2>2. table' = [table EXCEPT !.cells = new]
      BY DEF CompleteFormats, Completed
    <2>3. new = cells
      BY <2>1
    <2> HIDE DEF new, cells
    <2> QED BY <2>2, <2>3 DEF WithCells
  <1>3. ASSUME NEW cell \in Cell, NEW f \in Fmt
        PROVE  [cell EXCEPT !.fmt = f] \in Cell
    BY DEF Cell
  <1>4. ASSUME NEW c \in 0..(table.cols - 1), table.rows > 0
        PROVE  GetCell(table, c, 0) = CellAt(table, c, 0) /\ CellAt(table, c, 0) \in Cell
               /\ fmt(c) \in Fmt
    <2>1. 0 \in 0..(table.rows - 1) /\ c \in Nat /\ 0 \in Nat
      BY <1>1, <1>4
    <2>2. GetCell(table, c, 0) = CellAt(table, c, 0) /\ CellAt(table, c, 0) \in Cell
      BY <1>1, <2>1, UsedCell, CellAtType
    <2> QED BY <2>2, HeaderTypes DEF Cell
  <1>5. ASSUME NEW c \in 0..(table.cols - 1), NEW r \in 0..(table.rows - 1)
        PROVE  /\ CellAt(table, c, r) \in Cell
               /\ MergeHeader(CellAt(table, c, r).fmt, fmt(c)) = CompletedFmt(table, c, r)
               /\ CompletedFmt(table, c, r) \in Fmt
    <2>1. table.rows > 0 /\ c \in Nat /\ r \in Nat
      BY <1>1
    <2>2. CellAt(table, c, r) \in Cell
      BY <1>1, <2>1, CellAtType
    <2>3. GetCell(table, c, 0) = CellAt(table, c, 0) /\ fmt(c) \in Fmt
      BY <1>4, <2>1
    <2>4. MergeHeader(CellAt(table, c, r).fmt, fmt(c)) = CompletedFmt(table, c, r)
      BY <2>3 DEF CompletedFmt
    <2>5. MergeHeader(CellAt(table, c, r).fmt, fmt(c)) \in Fmt
      <3> HIDE DEF fmt
      <3> QED BY <2>2, <2>3, HeaderTypes DEF Cell
    <2> QED BY <2>2, <2>4, <2>5
  <1> HIDE DEF fmt
  <1>6. ASSUME NEW i \in 0..Size,
               <<i \div table.trows, i % table.trows>> \in Used(table)
        PROVE  cells[i] = [table.cells[i] EXCEPT !.fmt = CompletedFmt(table, i \div table.trows, i % table.trows)]
               /\ cells[i] \in Cell
    <2> DEFINE c == i \div table.trows
               r == i % table.trows
    <2>1. c \in 0..(table.cols - 1) /\ r \in 0..(table.rows - 1)
      BY <1>6 DEF Used
    <2>2. table.cells[i] = CellAt(table, c, r) /\ table.cells[i] \in Cell
      BY <1>1, IndexedCell
    <2>3. cells[i] = [table.cells[i] EXCEPT !.fmt = MergeHeader(table.cells[i].fmt, fmt(c))]
      BY <1>6
    <2> HIDE DEF c, r, cells
    <2>4. MergeHeader(table.cells[i].fmt, fmt(c)) = CompletedFmt(table, c, r) /\ CompletedFmt(table, c, r) \in Fmt
      BY <1>5, <2>1, <2>2
    <2>5. cells[i] = [table.cells[i] EXCEPT !.fmt = CompletedFmt(table, c, r)]
      BY <2>3, <2>4
    <2> QED BY <1>3, <2>2, <2>4, <2>5 DEF c, r
  <1>7. ASSUME NEW i \in 0..Size,
               <<i \div table.trows, i % table.trows>> \notin Used(table)
        PROVE  cells[i] = table.cells[i]
    BY <1>7
  <1>8. cells \in [0..Size -> Cell]
    <2> SUFFICES ASSUME NEW i \in 0..Size PROVE cells[i] \in Cell
      OBVIOUS
    <2> HIDE DEF cells
    <2> QED BY <1>1, <1>6, <1>7
  <1> HIDE DEF cells
  <1>9. /\ IsTable(table') /\ table'.cols = table.cols /\ table'.rows = table.rows
        /\ \A c, r \in Nat : CellAt(table', c, r) = IF c < table.cols /\ r < table.rows
                                                    THEN cells[GetCellIdx(table, c, r)]
                                                    ELSE CellAt(table, c, r)
        /\ SameColumns(table', table)
    BY <1>1, <1>2, <1>7, <1>8, CellsFacts
  <1>10. ASSUME NEW c \in Nat, NEW r \in Nat, c < table.cols, r < table.rows
         PROVE  cells[GetCellIdx(table, c, r)] = [CellAt(table, c, r) EXCEPT !.fmt = CompletedFmt(table, c, r)]
    <2> DEFINE i == GetCellIdx(table, c, r)
    <2>1. c \in 0..(table.cols - 1) /\ r \in 0..(table.rows - 1)
          /\ c \in 0..(table.tcols - 1) /\ r \in 0..(table.trows - 1)
      BY <1>1, <1>10
    <2>2. i \in 0..Size /\ i \div table.trows = c /\ i % table.trows = r
      BY <1>1, <2>1, CellIdxFacts
    <2>3. table.cells[i] = CellAt(table, c, r)
      BY <1>1, <2>1, UsedCell DEF GetCell
    <2>4. <<c, r>> \in Used(table)
      BY <2>1 DEF Used
    <2> HIDE DEF i
    <2> QED BY <1>6, <2>2, <2>3, <2>4 DEF i
  <1> QED BY <1>9, <1>10

-----------------------------------------------------------------------------
(* Every step keeps the invariant.                                         *)

LEMMA InitIInv == Init => IInv
  <1> SUFFICES ASSUME Init PROVE IInv
    OBVIOUS
  <1>1. IsTable(table)
    BY EmptyTableFacts DEF Init, LoaderInit
  <1>2. LoopInv
    <2>1. lines = << >> /\ pos = 0 /\ state = "FIRST" /\ rowIdx = 0 /\ fmtRowIdx = -1 /\ pc = "READ"
      BY DEF Init, LoaderInit
    <2>2. lines \in Seq(Lines) /\ Len(lines) = 0
      BY <2>1, EmptySeq
    <2>3. 0 <= MaxLines
      BY LinesAssumption, TableAssumption
    <2> QED BY <2>1, <2>2, <2>3 DEF LoopInv
  <1>3. MetaInv
    <2>1. meta = NoMeta
      BY DEF Init, LoaderInit
    <2>2. << >> \in Seq(Macro) /\ Len(<< >>) = 0
      BY EmptySeq
    <2>3. IntMax \in Nat /\ MaxMacros \in Nat
      BY LinesAssumption
    <2>4. NoMeta \in [firstBodyRow : Nat, firstFootRow : Nat, summarized : BOOLEAN,
                      summary : Nat \X Nat, macros : Seq(Macro)]
      BY <2>2, <2>3 DEF NoMeta
    <2>5. Len(NoMeta.macros) <= MaxMacros
      BY <2>2, <2>3 DEF NoMeta
    <2> QED BY <2>1, <2>4, <2>5 DEF MetaInv
  <1> QED BY <1>1, <1>2, <1>3 DEF IInv

(* A line more.                                                            *)
LEMMA ReadFacts ==
    ASSUME IInv, NEW l \in Lines, Read(l)
    PROVE  /\ lines' \in Seq(Lines) /\ Len(lines') = Len(lines) + 1 /\ Len(lines') <= MaxLines
           /\ Len(lines) \in Nat /\ lines' # << >>
           /\ \A i \in 1..Len(lines) : lines'[i] = lines[i]
           /\ lines'[Len(lines')] = l /\ Line' = l
           /\ l.words \in Seq(IF l.type = "ROW" THEN CellText ELSE CommandWord)
           /\ Len(l.words) \in Nat
  <1>1. lines \in Seq(Lines) /\ lines' = Append(lines, l) /\ Len(lines) < MaxLines
    BY DEF Read, IInv, LoopInv
  <1>2. /\ lines' \in Seq(Lines) /\ lines' # << >> /\ Len(lines') = Len(lines) + 1
        /\ \A i \in 1..Len(lines) : lines'[i] = lines[i]
        /\ lines'[Len(lines) + 1] = l
    BY <1>1, AppendProperties
  <1>3. Len(lines) \in Nat /\ MaxLines \in Nat
    BY <1>1, LenProperties, LinesAssumption, TableAssumption
  <1>4. l.words \in Seq(IF l.type = "ROW" THEN CellText ELSE CommandWord)
    BY LinesAssumption
  <1>5. Len(l.words) \in Nat
    BY <1>4, LenProperties
  <1>6. Line' = l
    BY <1>2 DEF Line
  <1> QED BY <1>1, <1>2, <1>3, <1>4, <1>5, <1>6

LEMMA ReadKeeps ==
    ASSUME IInv, NEW l \in Lines, Read(l),
           fmtRowIdx' \in {fmtRowIdx, -1},
           pc' = pc \/ (pc' = l.type /\ l.type \in {"ROW", "COMMAND"})
    PROVE  LoopInv'
  <1>1. /\ lines' \in Seq(Lines) /\ Len(lines') = Len(lines) + 1 /\ Len(lines') <= MaxLines
        /\ Len(lines) \in Nat /\ lines' # << >> /\ Line' = l /\ Len(l.words) \in Nat
    BY ReadFacts
  <1>2. pc = "READ" /\ pos' = 0 /\ state' = "FIRST" /\ rowIdx' = rowIdx
    BY DEF Read
  <1>3. rowIdx \in Nat /\ fmtRowIdx \in -1..rowIdx /\ rowIdx <= Len(lines)
    BY DEF IInv, LoopInv
  <1>4. fmtRowIdx' \in -1..rowIdx'
    BY <1>2, <1>3
  <1>5. rowIdx' <= Len(lines') /\ rowIdx' + 1 <= Len(lines')
    BY <1>1, <1>2, <1>3
  <1>6. (pc \in {"ROW", "COMMAND"} => Line.type = pc /\ pos <= Len(Line.words))'
    BY <1>1, <1>2
  <1>7. pc' \in {"READ", "ROW", "COMMAND"}
    BY <1>2
  <1> QED BY <1>1, <1>2, <1>3, <1>4, <1>5, <1>6, <1>7 DEF LoopInv

(* A word of a row or a command is read.                                   *)
LEMMA DoneKeeps ==
    ASSUME IInv, NEW type \in {"ROW", "COMMAND"}, WordOf(type), Done,
           \/ fmtRowIdx' = fmtRowIdx /\ state' = state
           \/ fmtRowIdx' = fmtRowIdx /\ state' # "PRCSN"
           \/ fmtRowIdx' = -1 /\ state' = "ERROR"
           \/ fmtRowIdx' = rowIdx
    PROVE  LoopInv'
  <1>1. /\ Line.type = type /\ pc = type /\ lines # << >>
        /\ pos \in Nat /\ pos < Len(Line.words) /\ Len(Line.words) \in Nat
    <2>1. /\ Line.type = type /\ pc = type /\ lines # << >>
          /\ pos < Len(Line.words) /\ Len(Line.words) \in Nat
      BY WordFacts DEF IInv
    <2> QED BY <2>1 DEF IInv, LoopInv
  <1>2. pos' = pos + 1 /\ lines' = lines /\ rowIdx' = rowIdx /\ pc' = pc
    BY DEF Done
  <1>3. pos' \in Nat /\ pos' <= Len(Line.words) /\ pos' > 0
    BY <1>1, <1>2
  <1>4. Line' = Line
    BY <1>2 DEF Line
  <1>5. /\ lines \in Seq(Lines) /\ Len(lines) <= MaxLines
        /\ rowIdx \in Nat /\ fmtRowIdx \in -1..rowIdx /\ rowIdx + 1 <= Len(lines)
        /\ rowIdx <= Len(lines)
        /\ state = "PRCSN" /\ pc = "COMMAND" => fmtRowIdx = rowIdx
    BY <1>1 DEF IInv, LoopInv
  <1>6. fmtRowIdx' \in -1..rowIdx'
    BY <1>2, <1>5
  <1>7. pc' = "COMMAND" /\ state' = "PRCSN" => fmtRowIdx' = rowIdx'
    BY <1>2, <1>5
  <1> QED BY <1>1, <1>2, <1>3, <1>4, <1>5, <1>6, <1>7 DEF LoopInv

(* The program stops, or goes on without a line in progress.               *)
LEMMA PhaseKeeps ==
    ASSUME IInv, UNCHANGED <<lines, pos, state, fmtRowIdx>>,
           \/ rowIdx' = rowIdx
           \/ rowIdx' = rowIdx + 1 /\ pc = "ROW",
           pc' \in {"READ", "LOADED", "EVALUATED", "PRINT", "PRINTED", "ABORTED"}
    PROVE  LoopInv'
  <1>1. /\ lines' = lines /\ pos' = pos /\ state' = state /\ fmtRowIdx' = fmtRowIdx
    OBVIOUS
  <1>2. /\ lines \in Seq(Lines) /\ Len(lines) <= MaxLines /\ pos \in Nat
        /\ rowIdx \in Nat /\ fmtRowIdx \in -1..rowIdx /\ rowIdx <= Len(lines)
        /\ pc = "ROW" => rowIdx + 1 <= Len(lines)
    BY DEF IInv, LoopInv
  <1>3. rowIdx' \in Nat /\ fmtRowIdx' \in -1..rowIdx' /\ rowIdx' <= Len(lines')
    BY <1>1, <1>2
  <1> QED BY <1>1, <1>2, <1>3 DEF LoopInv

LEMMA MetaKeeps == ASSUME IInv, meta' = meta PROVE MetaInv'
  BY DEF IInv, MetaInv

LEMMA SectionMeta ==
    ASSUME IInv, meta' = SectionEnd(meta)
    PROVE  MetaInv'
  <1>1. meta = [firstBodyRow |-> meta.firstBodyRow, firstFootRow |-> meta.firstFootRow,
                summarized |-> meta.summarized, summary |-> meta.summary, macros |-> meta.macros]
    BY DEF IInv, MetaInv
  <1>2. /\ meta.firstBodyRow \in Nat /\ meta.firstFootRow \in Nat /\ meta.summarized \in BOOLEAN
        /\ meta.summary \in Nat \X Nat /\ meta.macros \in Seq(Macro) /\ Len(meta.macros) <= MaxMacros
        /\ rowIdx \in Nat
    BY DEF IInv, MetaInv, LoopInv
  <1>3. CASE meta.firstBodyRow = 0
    <2>1. meta' = [meta EXCEPT !.firstBodyRow = rowIdx]
      BY <1>3 DEF SectionEnd
    <2>2. meta' = [firstBodyRow |-> rowIdx, firstFootRow |-> meta.firstFootRow,
                   summarized |-> meta.summarized, summary |-> meta.summary, macros |-> meta.macros]
      BY <1>1, <2>1
    <2> QED BY <1>2, <2>2 DEF MetaInv
  <1>4. CASE meta.firstBodyRow # 0
    <2>1. meta' = [meta EXCEPT !.firstFootRow = rowIdx]
      BY <1>4 DEF SectionEnd
    <2>2. meta' = [firstBodyRow |-> meta.firstBodyRow, firstFootRow |-> rowIdx,
                   summarized |-> meta.summarized, summary |-> meta.summary, macros |-> meta.macros]
      BY <1>1, <2>1
    <2> QED BY <1>2, <2>2 DEF MetaInv
  <1> QED BY <1>3, <1>4

LEMMA SummaryKeeps == ASSUME IInv, SummaryWord PROVE IInv'
  <1> DEFINE col == AbsoluteDim(Word.ref.col, 0)
             row == AbsoluteDim(Word.ref.row, rowIdx)
  <1>1. /\ WordOf("COMMAND") /\ Word \in CommandWord /\ rowIdx \in Nat
    BY WordFacts DEF SummaryWord, Argument, IInv, LoopInv
  <1>2. col \in Int /\ row \in Int
    <2>1. Word.ref.col \in Nat \cup {THIS} /\ Word.ref.row \in Int /\ THIS \in Int
      BY <1>1 DEF CommandWord, THIS
    <2> QED BY <1>1, <2>1 DEF AbsoluteDim
  <1>3. CASE Stop
    <2>1. LoopInv'
      BY <1>3, PhaseKeeps DEF Stop
    <2>2. table' = table /\ MetaInv'
      BY <1>3, MetaKeeps DEF Stop
    <2> QED BY <2>1, <2>2 DEF IInv
  <1>4. CASE ~Stop
    <2>1. /\ Done /\ state' = "ERROR" /\ fmtRowIdx' = fmtRowIdx /\ table' = table
          /\ Word.ref.ok => ~(col < 0 \/ row < 0)
          /\ meta' = IF Word.ref.ok THEN [meta EXCEPT !.summarized = TRUE, !.summary = <<col, row>>]
                     ELSE meta
      BY <1>4 DEF SummaryWord
    <2>2. LoopInv'
      BY <1>1, <2>1, DoneKeeps
    <2>3. MetaInv'
      <3>1. meta = [firstBodyRow |-> meta.firstBodyRow, firstFootRow |-> meta.firstFootRow,
                    summarized |-> meta.summarized, summary |-> meta.summary, macros |-> meta.macros]
        BY DEF IInv, MetaInv
      <3>2. /\ meta.firstBodyRow \in Nat /\ meta.firstFootRow \in Nat
            /\ meta.macros \in Seq(Macro) /\ Len(meta.macros) <= MaxMacros
        BY DEF IInv, MetaInv
      <3> HIDE DEF col, row
      <3>3. CASE Word.ref.ok
        <4>1. meta' = [meta EXCEPT !.summarized = TRUE, !.summary = <<col, row>>]
          BY <2>1, <3>3
        <4>2. meta' = [firstBodyRow |-> meta.firstBodyRow, firstFootRow |-> meta.firstFootRow,
                       summarized |-> TRUE, summary |-> <<col, row>>, macros |-> meta.macros]
          BY <3>1, <4>1
        <4>3. <<col, row>> \in Nat \X Nat
          BY <1>2, <2>1, <3>3
        <4> QED BY <3>2, <4>2, <4>3 DEF MetaInv
      <3>4. CASE ~Word.ref.ok
        BY <2>1, <3>4, MetaKeeps
      <3> QED BY <3>3, <3>4
    <2> QED BY <2>1, <2>2, <2>3 DEF IInv
  <1> QED BY <1>3, <1>4

LEMMA DefineKeeps == ASSUME IInv, DefineWord PROVE IInv'
  <1>1. WordOf("COMMAND") /\ Word \in CommandWord
    BY WordFacts DEF DefineWord, Argument, IInv
  <1>2. PICK body \in Body :
        IF NoMacroLeft
        THEN Done /\ state' = "ERROR" /\ UNCHANGED <<fmtRowIdx, table, meta>>
        ELSE IF body = Stopped THEN Stop
        ELSE /\ meta' = [meta EXCEPT !.macros = Append(@, [name |-> Word.text, body |-> body])]
             /\ Done /\ state' = "ERROR" /\ UNCHANGED <<fmtRowIdx, table>>
    BY DEF DefineWord
  <1>3. CASE NoMacroLeft
    <2>1. LoopInv'
      BY <1>1, <1>2, <1>3, DoneKeeps
    <2>2. table' = table /\ MetaInv'
      BY <1>2, <1>3, MetaKeeps
    <2> QED BY <2>1, <2>2 DEF IInv
  <1>4. CASE ~NoMacroLeft /\ body = Stopped
    <2>1. Stop
      BY <1>2, <1>4
    <2>2. LoopInv'
      BY <2>1, PhaseKeeps DEF Stop
    <2>3. table' = table /\ MetaInv'
      BY <2>1, MetaKeeps DEF Stop
    <2> QED BY <2>2, <2>3 DEF IInv
  <1>5. CASE ~NoMacroLeft /\ body # Stopped
    <2> DEFINE macro == [name |-> Word.text, body |-> body]
    <2>1. /\ meta' = [meta EXCEPT !.macros = Append(meta.macros, macro)]
          /\ Done /\ state' = "ERROR" /\ UNCHANGED <<fmtRowIdx, table>>
      BY <1>2, <1>5
    <2>2. LoopInv'
      BY <1>1, <2>1, DoneKeeps
    <2>3. macro \in Macro
      BY <1>1 DEF Macro, CommandWord
    <2>4. meta = [firstBodyRow |-> meta.firstBodyRow, firstFootRow |-> meta.firstFootRow,
                  summarized |-> meta.summarized, summary |-> meta.summary, macros |-> meta.macros]
      BY DEF IInv, MetaInv
    <2>5. /\ meta.firstBodyRow \in Nat /\ meta.firstFootRow \in Nat /\ meta.summarized \in BOOLEAN
          /\ meta.summary \in Nat \X Nat /\ meta.macros \in Seq(Macro) /\ Len(meta.macros) <= MaxMacros
      BY DEF IInv, MetaInv
    <2> HIDE DEF macro
    <2> DEFINE new == Append(meta.macros, macro)
    <2>6. new \in Seq(Macro) /\ Len(new) = Len(meta.macros) + 1
      BY <2>3, <2>5, AppendProperties
    <2>7. Len(new) <= MaxMacros
      <3>1. Len(meta.macros) \in Nat /\ MaxMacros \in Nat
        BY <2>5, LenProperties, LinesAssumption
      <3>2. ~(Len(meta.macros) >= MaxMacros)
        BY <1>5 DEF NoMacroLeft
      <3> QED BY <2>6, <3>1, <3>2
    <2> HIDE DEF new
    <2>8. meta' = [firstBodyRow |-> meta.firstBodyRow, firstFootRow |-> meta.firstFootRow,
                   summarized |-> meta.summarized, summary |-> meta.summary, macros |-> new]
      BY <2>1, <2>4 DEF new
    <2>9. MetaInv'
      BY <2>5, <2>6, <2>7, <2>8 DEF MetaInv
    <2> QED BY <2>1, <2>2, <2>9 DEF IInv
  <1> QED BY <1>3, <1>4, <1>5

(* A word that leaves the bounds, the summary and the macros alone.        *)
LEMMA WordKeeps ==
    ASSUME IInv, IsTable(table'), meta' = meta, LoopInv' PROVE IInv'
  BY MetaKeeps DEF IInv

(* The invariant is inductive: one step for each action of the program.    *)
LEMMA NextIInv == IInv /\ [Next]_vars => IInv'
  <1> SUFFICES ASSUME IInv, [Next]_vars PROVE IInv'
    OBVIOUS
  <1>0. IsTable(table) /\ LoopInv /\ MetaInv
    BY DEF IInv
  <1>1. ASSUME NEW l \in Lines, EmptyLine(l) PROVE IInv'
    <2>1. Read(l) /\ meta' = SectionEnd(meta) /\ fmtRowIdx' = -1 /\ pc' = pc /\ table' = table
      BY <1>1 DEF EmptyLine, Read
    <2>2. LoopInv'
      BY <2>1, ReadKeeps
    <2>3. MetaInv'
      BY <2>1, SectionMeta
    <2> QED BY <1>0, <2>1, <2>2, <2>3 DEF IInv
  <1>2. ASSUME NEW l \in Lines, CommentLine(l) \/ WordsLine(l) PROVE IInv'
    <2>1. /\ Read(l) /\ meta' = meta /\ fmtRowIdx' = fmtRowIdx /\ table' = table
          /\ pc' = pc \/ (pc' = l.type /\ l.type \in {"ROW", "COMMAND"})
      BY <1>2 DEF CommentLine, WordsLine, Read
    <2>2. LoopInv'
      BY <2>1, ReadKeeps
    <2> QED BY <1>0, <2>1, <2>2, WordKeeps
  <1>3. CASE RowCell
    <2>1. IsTable(table') /\ Done /\ UNCHANGED <<state, fmtRowIdx, meta>>
      BY <1>3, RowCellFacts
    <2>2. LoopInv'
      BY <1>3, <2>1, DoneKeeps DEF RowCell
    <2> QED BY <2>1, <2>2, WordKeeps
  <1>4. CASE CommandName
    <2>1. /\ Done /\ UNCHANGED <<table, meta>> /\ WordOf("COMMAND")
          /\ state' = IF Word.text \in DOMAIN Commands THEN Commands[Word.text] ELSE "ERROR"
          /\ fmtRowIdx' = IF Word.text = "prcsn" THEN rowIdx ELSE fmtRowIdx
      BY <1>4 DEF CommandName, Argument
    <2>2. Word.text # "prcsn" => state' # "PRCSN"
      BY <2>1 DEF Commands
    <2>3. LoopInv'
      BY <2>1, <2>2, DoneKeeps
    <2> QED BY <1>0, <2>1, <2>3, WordKeeps
  <1>5. CASE SepWord
    <2>1. CASE Word.text \notin {"-", "|"}
      <3>1. Stop
        BY <1>5, <2>1 DEF SepWord
      <3>2. LoopInv'
        BY <3>1, PhaseKeeps DEF Stop
      <3> QED BY <1>0, <3>1, <3>2, WordKeeps DEF Stop
    <2>2. CASE Word.text \in {"-", "|"}
      <3>1. IsTable(table') /\ Done /\ UNCHANGED <<state, fmtRowIdx, meta>>
        BY <1>0, <1>5, <2>2, SepFacts
      <3>2. LoopInv'
        BY <1>5, <3>1, DoneKeeps DEF SepWord, Argument
      <3> QED BY <3>1, <3>2, WordKeeps
    <2> QED BY <2>1, <2>2
  <1>6. CASE FmtWord
    <2>1. IsTable(table') /\ Done /\ UNCHANGED <<state, fmtRowIdx, meta>>
      BY <1>6, FmtFacts
    <2>2. LoopInv'
      BY <1>6, <2>1, DoneKeeps DEF FmtWord, Argument
    <2> QED BY <2>1, <2>2, WordKeeps
  <1>7. CASE PrcsnWord
    <2>1. /\ UNCHANGED meta /\ Done /\ IsTable(table')
          /\ \/ fmtRowIdx' = -1 /\ state' = "ERROR"
             \/ fmtRowIdx' = fmtRowIdx /\ state' = state
      BY <1>0, <1>7, PrcsnFacts
    <2>2. LoopInv'
      BY <1>7, <2>1, DoneKeeps DEF PrcsnWord, Argument
    <2> QED BY <2>1, <2>2, WordKeeps
  <1>8. CASE ExtraWord
    <2>1. /\ Done /\ UNCHANGED <<state, fmtRowIdx, table, meta>> /\ WordOf("COMMAND")
      BY <1>8 DEF ExtraWord, Argument
    <2>2. LoopInv'
      BY <2>1, DoneKeeps
    <2> QED BY <1>0, <2>1, <2>2, WordKeeps
  <1>9. CASE EndRow \/ EndCommand \/ EndOfFile
    <2>1. /\ UNCHANGED <<lines, pos, state, fmtRowIdx, table, meta>>
          /\ rowIdx' = rowIdx \/ (rowIdx' = rowIdx + 1 /\ pc = "ROW")
          /\ pc' \in {"READ", "LOADED"}
      BY <1>9 DEF EndRow, EndCommand, EndOfFile
    <2>2. LoopInv'
      BY <2>1, PhaseKeeps
    <2> QED BY <1>0, <2>1, <2>2, WordKeeps
  <1>10. CASE Evaluate \/ CompleteFormats
    <2>1. IsTable(table')
      BY <1>10, EvaluateFacts, CompleteFacts
    <2>2. UNCHANGED docVars /\ pc' \in {"EVALUATED", "PRINT"}
      BY <1>10 DEF Evaluate, CompleteFormats
    <2>3. UNCHANGED <<lines, pos, state, rowIdx, fmtRowIdx, meta>>
      BY <2>2 DEF docVars
    <2>4. LoopInv'
      BY <2>2, <2>3, PhaseKeeps
    <2> QED BY <2>1, <2>3, <2>4, WordKeeps
  <1>11. CASE PrintRow \/ EndPrint \/ Again
    <2>1. UNCHANGED docVars /\ table' = table /\ pc' \in {"PRINT", "PRINTED", "LOADED", "ABORTED"}
      BY <1>11 DEF PrintRow, EndPrint, Again
    <2>2. UNCHANGED <<lines, pos, state, rowIdx, fmtRowIdx, meta>>
      BY <2>1 DEF docVars
    <2>3. LoopInv'
      BY <2>1, <2>2, PhaseKeeps
    <2> QED BY <1>0, <2>1, <2>2, <2>3, WordKeeps
  <1>12. CASE Exit \/ UNCHANGED vars
    <2>1. UNCHANGED <<lines, pos, state, rowIdx, fmtRowIdx, table, meta, pc>>
      BY <1>12 DEF Exit, vars
    <2>2. LoopInv'
      BY <1>0, <2>1 DEF LoopInv, Line
    <2> QED BY <1>0, <2>1, <2>2, WordKeeps
  <1> QED BY <1>1, <1>2, <1>3, <1>4, <1>5, <1>6, <1>7, <1>8, <1>9, <1>10, <1>11, <1>12,
             SummaryKeeps, DefineKeeps DEF Next, LoaderNext

LEMMA AlwaysIInv == Spec => []IInv
  BY InitIInv, NextIInv, PTL DEF Spec

(* The document is one the evaluator and the printer may work on, whatever *)
(* the lines: the arrays have the size of the table, the used area is in   *)
(* it, a bound is a row, the macros fit (MakeDocument, main.c:2551).       *)
THEOREM DocumentIsTyped == Spec => []TypeOK
  <1>1. IInv => TypeOK
    <2> SUFFICES ASSUME IInv PROVE TypeOK
      OBVIOUS
    <2>1. /\ table.cols \in 0..table.tcols /\ table.rows \in 0..table.trows
          /\ table.columns \in [0..(table.tcols - 1) -> Column]
          /\ table.cells \in [0..(table.tcols * table.trows - 1) -> Cell]
      BY DEF IInv, IsTable
    <2>2. \A i \in DOMAIN table.cells : table.cells[i].fmt \in Fmt
      BY <2>1 DEF Cell
    <2>3. rowIdx \in 0..MaxLines
      <3>1. rowIdx \in Nat /\ rowIdx <= Len(lines) /\ Len(lines) <= MaxLines /\ lines \in Seq(Lines)
        BY DEF IInv, LoopInv
      <3>2. Len(lines) \in Nat /\ MaxLines \in Nat
        BY <3>1, LenProperties, LinesAssumption, TableAssumption
      <3> QED BY <3>1, <3>2
    <2>4. /\ fmtRowIdx \in -1..rowIdx /\ Len(meta.macros) <= MaxMacros
          /\ meta.summary \in Nat \X Nat
          /\ pc \in {"READ", "ROW", "COMMAND", "LOADED", "EVALUATED", "PRINT", "PRINTED", "ABORTED"}
      BY DEF IInv, LoopInv, MetaInv
    <2> QED BY <2>1, <2>2, <2>3, <2>4 DEF TypeOK
  <1> QED BY <1>1, AlwaysIInv, PTL

-----------------------------------------------------------------------------
(* The loader implements Grid.                                             *)

LEMMA GridView ==
    ASSUME NEW t, IsTable(t)
    PROVE  /\ \A p \in Dims \X Dims :
                (IF CellExists(t, p[1], p[2]) THEN GetCell(t, p[1], p[2]) ELSE BlankCell)
                    = CellAt(t, p[1], p[2])
           /\ \A c \in Dims :
                (IF c \in DOMAIN t.columns THEN t.columns[c] ELSE DefaultColumn) = ColumnAt(t, c)
           /\ \A p \in Dims \X Dims : p[1] \in Nat /\ p[2] \in Nat /\ p = <<p[1], p[2]>>
           /\ \A c \in Dims : c \in Nat
  <1>1. DOMAIN t.columns = 0..(t.tcols - 1)
    BY DEF IsTable
  <1> QED BY <1>1 DEF CellAt, ColumnAt, Dims

LEMMA GridWrite ==
    ASSUME IsTable(table), IsTable(table'),
           NEW p \in Dims \X Dims, NEW c \in Dims,
           \A q \in Dims \X Dims :
                q # p => CellAt(table', q[1], q[2]) = CellAt(table, q[1], q[2]),
           \A d \in Dims : d # c => ColumnAt(table', d) = ColumnAt(table, d)
    PROVE  AsGrid!Write
  <1>1. \A q \in (Dims \X Dims) \ {p} : CellOf(q)' = CellOf(q)
    BY GridView DEF CellOf
  <1>2. \A d \in Dims \ {c} : ColumnOf(d)' = ColumnOf(d)
    BY GridView DEF ColumnOf
  <1> QED BY <1>1, <1>2 DEF AsGrid!Write, AsGrid!Place

LEMMA GridSame ==
    ASSUME IsTable(table), IsTable(table'), SameCells(table', table), SameColumns(table', table)
    PROVE  /\ [p \in Dims \X Dims |-> CellOf(p)]' = [p \in Dims \X Dims |-> CellOf(p)]
           /\ [c \in Dims |-> ColumnOf(c)]' = [c \in Dims |-> ColumnOf(c)]
  <1>1. \A q \in Dims \X Dims : CellOf(q)' = CellOf(q)
    BY GridView DEF CellOf, SameCells
  <1>2. \A d \in Dims : ColumnOf(d)' = ColumnOf(d)
    BY GridView DEF ColumnOf, SameColumns
  <1> QED BY <1>1, <1>2

LEMMA GridReplace == ASSUME IInv, IsTable(table'), Evaluate PROVE AsGrid!Replace
  <1>1. /\ SameColumns(table', table)
        /\ \A c, r \in Nat :
            \/ CellAt(table, c, r).type # "EXPR" /\ CellAt(table', c, r) = CellAt(table, c, r)
            \/ /\ CellAt(table, c, r).type = "EXPR"
               /\ \E type \in Results : CellAt(table', c, r) = [CellAt(table, c, r) EXCEPT !.type = type]
    BY EvaluateFacts
  <1>2. IsTable(table)
    BY DEF IInv
  <1>3. ASSUME NEW q \in Dims \X Dims, CellOf(q)' # CellOf(q)
        PROVE  /\ CellOf(q).type = "EXPR" /\ CellOf(q)'.type # "EXPR"
               /\ CellOf(q)'.fmt = CellOf(q).fmt
    <2> DEFINE c == q[1]
               r == q[2]
    <2>1. c \in Nat /\ r \in Nat /\ CellOf(q) = CellAt(table, c, r) /\ CellOf(q)' = CellAt(table', c, r)
      BY <1>2, GridView DEF CellOf
    <2>2. CellAt(table, c, r) \in Cell
      BY <1>2, <2>1, CellAtType
    <2> HIDE DEF c, r
    <2>3. PICK type \in Results : CellAt(table', c, r) = [CellAt(table, c, r) EXCEPT !.type = type]
      BY <1>1, <1>3, <2>1
    <2>4. CellAt(table, c, r).type = "EXPR"
      BY <1>1, <1>3, <2>1
    <2>5. CellAt(table', c, r).type = type /\ CellAt(table', c, r).fmt = CellAt(table, c, r).fmt
      BY <2>2, <2>3 DEF Cell
    <2> QED BY <2>1, <2>4, <2>5 DEF Results
  <1>4. \A d \in Dims : ColumnOf(d)' = ColumnOf(d)
    BY <1>1, <1>2, GridView DEF ColumnOf, SameColumns
  <1> QED BY <1>3, <1>4 DEF AsGrid!Replace, AsGrid!Place

(* A completed format keeps what was set.                                  *)
LEMMA MergeKeeps ==
    ASSUME NEW d, NEW s
    PROVE  /\ d.set \subseteq MergeHeader(d, s).set
           /\ "PRCSN" \in d.set => MergeHeader(d, s).prcsn = d.prcsn
           /\ "ALIGN" \in d.set => MergeHeader(d, s).align = d.align
  BY DEF MergeHeader

LEMMA GridComplete == ASSUME IInv, IsTable(table'), CompleteFormats PROVE AsGrid!Complete
  <1>1. /\ SameColumns(table', table)
        /\ \A c, r \in Nat :
            CellAt(table', c, r) =
                IF c < table.cols /\ r < table.rows
                THEN [CellAt(table, c, r) EXCEPT !.fmt = CompletedFmt(table, c, r)]
                ELSE CellAt(table, c, r)
    BY CompleteFacts
  <1>2. IsTable(table)
    BY DEF IInv
  <1>3. ASSUME NEW q \in Dims \X Dims
        PROVE  /\ CellOf(q)' = [CellOf(q) EXCEPT !.fmt = CellOf(q)'.fmt]
               /\ CellOf(q).fmt.set \subseteq CellOf(q)'.fmt.set
               /\ "PRCSN" \in CellOf(q).fmt.set => CellOf(q)'.fmt.prcsn = CellOf(q).fmt.prcsn
               /\ "ALIGN" \in CellOf(q).fmt.set => CellOf(q)'.fmt.align = CellOf(q).fmt.align
    <2> DEFINE c == q[1]
               r == q[2]
               old == CellAt(table, c, r)
               new == CellAt(table', c, r)
               f == CompletedFmt(table, c, r)
    <2>1. c \in Nat /\ r \in Nat /\ CellOf(q) = old /\ CellOf(q)' = new
      BY <1>2, GridView DEF CellOf
    <2>2. old \in Cell
      BY <1>2, <2>1, CellAtType
    <2>3. new = [old EXCEPT !.fmt = f] \/ new = old
      BY <1>1, <2>1
    <2>4. /\ old.fmt.set \subseteq f.set
          /\ "PRCSN" \in old.fmt.set => f.prcsn = old.fmt.prcsn
          /\ "ALIGN" \in old.fmt.set => f.align = old.fmt.align
      BY MergeKeeps DEF CompletedFmt
    <2> HIDE DEF old, new, f
    <2>5. /\ new = [old EXCEPT !.fmt = new.fmt]
          /\ new.fmt \in {f, old.fmt}
      BY <2>2, <2>3 DEF Cell
    <2> QED BY <2>1, <2>4, <2>5
  <1>4. \A d \in Dims : ColumnOf(d)' = ColumnOf(d)
    BY <1>1, <1>2, GridView DEF ColumnOf, SameColumns
  <1> QED BY <1>3, <1>4 DEF AsGrid!Complete, AsGrid!Place

LEMMA GridStep ==
    ASSUME IInv, IInv', [Next]_vars
    PROVE  [AsGrid!Write \/ AsGrid!Replace \/ AsGrid!Complete]_<<
                [p \in Dims \X Dims |-> CellOf(p)], [c \in Dims |-> ColumnOf(c)]>>
  <1>0. IsTable(table) /\ IsTable(table') /\ LoopInv
    BY DEF IInv
  <1>1. ASSUME NEW col \in Dims, NEW row \in Dims, NEW cell, NEW column,
               CellPut(table', table, col, row, cell) \/ SameCells(table', table),
               ColumnPut(table', table, col, column) \/ SameColumns(table', table)
        PROVE  AsGrid!Write
    <2>1. <<col, row>> \in Dims \X Dims
      OBVIOUS
    <2>2. ASSUME NEW q \in Dims \X Dims, q # <<col, row>>
          PROVE  CellAt(table', q[1], q[2]) = CellAt(table, q[1], q[2])
      <3>1. q[1] \in Nat /\ q[2] \in Nat /\ q = <<q[1], q[2]>>
        BY <1>0, GridView
      <3>2. ~(q[1] = col /\ q[2] = row)
        BY <2>2, <3>1
      <3> QED BY <1>1, <3>1, <3>2 DEF CellPut, SameCells
    <2>3. \A d \in Dims : d # col => ColumnAt(table', d) = ColumnAt(table, d)
      BY <1>0, <1>1, GridView DEF ColumnPut, SameColumns
    <2> QED BY <1>0, <2>1, <2>2, <2>3, GridWrite
  <1>2. CASE table' = table
    BY <1>0, <1>2, GridSame DEF SameCells, SameColumns
  <1>3. CASE RowCell
    <2>1. pos \in Dims /\ rowIdx \in Dims
      BY <1>0, <1>3, WordFacts DEF RowCell, Dims
    <2>2. CellPut(table', table, pos, rowIdx, RowCellOf(table)) /\ SameColumns(table', table)
      BY <1>3, RowCellFacts
    <2> QED BY <1>1, <2>1, <2>2
  <1>4. CASE SepWord
    <2>1. pos \in Dims
      BY <1>0, <1>4, WordFacts DEF SepWord, Argument, Dims
    <2>2. \/ table' = table
          \/ /\ SameCells(table', table)
             /\ ColumnPut(table', table, pos, [ColumnAt(table, pos) EXCEPT !.sep = Bar])
      BY <1>4, SepFacts DEF Stop
    <2> QED BY <1>1, <1>2, <2>1, <2>2
  <1>5. CASE FmtWord
    <2>1. pos - 1 \in Dims /\ 0 \in Dims
      <3>1. pos \in 0..(MaxDim - 1) /\ pos > 0
        BY <1>0, <1>5, WordFacts, FmtFacts DEF FmtWord, Argument
      <3> QED BY <3>1, TableAssumption DEF Dims
    <2>2. CASE Word.text = "-"
      BY <1>0, <1>5, <2>2, FmtFacts, GridSame
    <2>3. CASE Word.text # "-"
      <3>1. /\ CellPut(table', table, pos - 1, 0, FmtCell(table, pos - 1))
            /\ ColumnPut(table', table, pos - 1, FmtColumn(table, pos - 1))
        BY <1>5, <2>3, FmtFacts
      <3> QED BY <1>1, <2>1, <3>1
    <2> QED BY <2>2, <2>3
  <1>6. CASE PrcsnWord
    <2>1. pos - 1 \in Dims /\ rowIdx \in Dims
      <3>1. pos \in 0..(MaxDim - 1) /\ rowIdx \in 0..(MaxDim - 1) /\ pos > 0
        BY <1>0, <1>6, WordFacts, PrcsnFacts DEF PrcsnWord, Argument
      <3> QED BY <3>1, TableAssumption DEF Dims
    <2>2. CASE Word.text = "reset"
      BY <1>2, <1>6, <2>2, PrcsnFacts
    <2>3. CASE Word.text # "reset"
      <3>1. /\ CellPut(table', table, pos - 1, rowIdx, PrcsnCell(table, pos - 1, rowIdx))
            /\ SameColumns(table', table)
        BY <1>6, <2>3, PrcsnFacts
      <3> QED BY <1>1, <2>1, <3>1
    <2> QED BY <2>2, <2>3
  <1>7. CASE Evaluate
    BY <1>0, <1>7, GridReplace
  <1>8. CASE CompleteFormats
    BY <1>0, <1>8, GridComplete
  <1>9. CASE ~(RowCell \/ SepWord \/ FmtWord \/ PrcsnWord \/ Evaluate \/ CompleteFormats)
    <2>1. table' = table
      BY <1>9 DEF Next, LoaderNext, vars, docVars, EmptyLine, CommentLine, WordsLine, Read, EndRow,
                  CommandName, SummaryWord, DefineWord, ExtraWord, EndCommand, EndOfFile, Stop,
                  PrintRow, EndPrint, Again, Exit
    <2> QED BY <1>2, <2>1
  <1> QED BY <1>3, <1>4, <1>5, <1>6, <1>7, <1>8, <1>9

(* The loader implements Grid: whatever grows, a step changes what a reader *)
(* finds in one cell and one column at most; evaluation touches expressions *)
(* only, and printing completes formats and no more.                       *)
THEOREM LoaderRefinesGrid == Spec => ImplementsGrid
  <1>1. Init => AsGrid!GridInit
    <2> SUFFICES ASSUME Init PROVE AsGrid!GridInit
      OBVIOUS
    <2>1. table = EmptyTable /\ IsTable(table)
      BY EmptyTableFacts DEF Init, LoaderInit
    <2>2. \A q \in Dims \X Dims : CellOf(q) = BlankCell
      BY <2>1, GridView, EmptyTableFacts DEF CellOf
    <2>3. \A d \in Dims : ColumnOf(d) = DefaultColumn
      BY <2>1, GridView, EmptyTableFacts DEF ColumnOf
    <2> QED BY <2>2, <2>3 DEF AsGrid!GridInit, AsGrid!Place
  <1>2. IInv /\ IInv' /\ [Next]_vars
            => [AsGrid!Write \/ AsGrid!Replace \/ AsGrid!Complete]_<<
                    [p \in Dims \X Dims |-> CellOf(p)], [c \in Dims |-> ColumnOf(c)]>>
    BY GridStep
  <1>3. Spec => Init /\ [][Next]_vars
    BY PTL DEF Spec
  <1> QED BY <1>1, <1>2, <1>3, AlwaysIInv, PTL DEF ImplementsGrid, AsGrid!GridSpec

-----------------------------------------------------------------------------
(* Counting the rows of a file.                                            *)

RowsIn(s, n) == {j \in 1..n : s[j].type = "ROW"}
RowNo(s, i)  == Cardinality(RowsIn(s, i - 1))

LEMMA RowsInFacts ==
    ASSUME NEW s, NEW n \in Nat
    PROVE  /\ IsFiniteSet(RowsIn(s, n)) /\ Cardinality(RowsIn(s, n)) \in Nat
           /\ Cardinality(RowsIn(s, n)) <= n
  <1>1. IsFiniteSet(1..n) /\ Cardinality(1..n) = n
    BY FS_Interval
  <1>2. RowsIn(s, n) \in SUBSET (1..n)
    BY DEF RowsIn
  <1>3. IsFiniteSet(RowsIn(s, n)) /\ Cardinality(RowsIn(s, n)) <= n
    BY <1>1, <1>2, FS_Subset
  <1> QED BY <1>3, FS_CardinalityType

LEMMA RowNoFacts ==
    ASSUME NEW s, NEW i \in Nat \ {0}
    PROVE  /\ RowNo(s, i) \in Nat
           /\ s[i].type = "ROW" => RowNo(s, i + 1) = RowNo(s, i) + 1
           /\ s[i].type # "ROW" => RowNo(s, i + 1) = RowNo(s, i)
           /\ i = 1 => RowNo(s, i) = 0
  <1>1. i - 1 \in Nat /\ i + 1 - 1 = i
    OBVIOUS
  <1>2. IsFiniteSet(RowsIn(s, i - 1)) /\ RowNo(s, i) \in Nat
    BY <1>1, RowsInFacts DEF RowNo
  <1>3. s[i].type # "ROW" => RowsIn(s, i) = RowsIn(s, i - 1)
    BY DEF RowsIn
  <1>4. s[i].type = "ROW" => RowsIn(s, i) = RowsIn(s, i - 1) \cup {i} /\ i \notin RowsIn(s, i - 1)
    BY DEF RowsIn
  <1>5. s[i].type = "ROW" => Cardinality(RowsIn(s, i)) = Cardinality(RowsIn(s, i - 1)) + 1
    BY <1>2, <1>4, FS_AddElement
  <1>6. i = 1 => RowsIn(s, i - 1) = {}
    BY DEF RowsIn
  <1>7. i = 1 => RowNo(s, i) = 0
    BY <1>6, FS_EmptySet DEF RowNo
  <1>8. RowNo(s, i + 1) = Cardinality(RowsIn(s, i))
    BY <1>1 DEF RowNo
  <1> QED BY <1>2, <1>3, <1>5, <1>7, <1>8 DEF RowNo

(* Lines after a row belong to later rows. *)
LEMMA RowNoOrder ==
    ASSUME NEW s, NEW i \in Nat \ {0}, NEW j \in Nat, i <= j
    PROVE  /\ RowNo(s, i) <= RowNo(s, j)
           /\ i < j /\ s[i].type = "ROW" => RowNo(s, i) < RowNo(s, j)
  <1>1. i - 1 \in Nat /\ j - 1 \in Nat /\ i + 1 \in Nat \ {0} /\ i + 1 - 1 = i
    OBVIOUS
  <1>2. RowsIn(s, i - 1) \in SUBSET RowsIn(s, j - 1)
    BY DEF RowsIn
  <1>3. RowNo(s, i) <= RowNo(s, j)
    BY <1>1, <1>2, RowsInFacts, FS_Subset DEF RowNo
  <1>4. ASSUME i < j, s[i].type = "ROW" PROVE RowNo(s, i) < RowNo(s, j)
    <2>1. RowsIn(s, i) \in SUBSET RowsIn(s, j - 1)
      BY <1>4 DEF RowsIn
    <2>2. RowNo(s, i + 1) <= RowNo(s, j)
      <3>1. RowNo(s, i + 1) = Cardinality(RowsIn(s, i))
        BY <1>1 DEF RowNo
      <3> QED BY <1>1, <2>1, <3>1, RowsInFacts, FS_Subset DEF RowNo
    <2>3. RowNo(s, i) \in Nat /\ RowNo(s, j) \in Nat /\ RowNo(s, i + 1) = RowNo(s, i) + 1
      <3>1. j \in Nat \ {0}
        OBVIOUS
      <3> QED BY <1>4, <3>1, RowNoFacts
    <2> QED BY <2>2, <2>3
  <1> QED BY <1>3, <1>4

(* What comes later in a file does not change the number of a row. *)
LEMMA RowNoPrefix ==
    ASSUME NEW s, NEW g, NEW n \in Nat, \A i \in 1..n : g[i] = s[i],
           NEW i \in 1..(n + 1)
    PROVE  RowNo(g, i) = RowNo(s, i)
  <1>1. RowsIn(g, i - 1) = RowsIn(s, i - 1)
    BY DEF RowsIn
  <1> QED BY <1>1 DEF RowNo

LEMMA RowsBeforeIsRowNo == ASSUME NEW i PROVE RowsBefore(i) = RowNo(lines, i)
  BY DEF RowsBefore, RowNo, RowsIn

-----------------------------------------------------------------------------
(* The number of the row that is read.                                     *)

RowInv ==
    /\ pc = "ROW" => rowIdx = RowNo(lines, Len(lines))
    /\ pc \notin {"ROW", "ABORTED"} => rowIdx = RowNo(lines, Len(lines) + 1)
    /\ pc = "READ" /\ lines # << >> /\ Line.type = "ROW" => pos = Len(Line.words)

(* What a step does that reads a line. *)
LEMMA ReadLines ==
    ASSUME IInv, RowInv, NEW l \in Lines, Read(l)
    PROVE  /\ RowNo(lines', Len(lines')) = rowIdx'
           /\ l.type # "ROW" => RowNo(lines', Len(lines') + 1) = rowIdx'
           /\ \A i \in 1..(Len(lines) + 1) : RowNo(lines', i) = RowNo(lines, i)
  <1>1. /\ Len(lines') = Len(lines) + 1 /\ Len(lines) \in Nat
        /\ \A i \in 1..Len(lines) : lines'[i] = lines[i]
        /\ lines'[Len(lines')] = l
    BY ReadFacts
  <1>2. rowIdx' = rowIdx /\ rowIdx = RowNo(lines, Len(lines) + 1)
    BY DEF Read, RowInv
  <1>3. \A i \in 1..(Len(lines) + 1) : RowNo(lines', i) = RowNo(lines, i)
    BY <1>1, RowNoPrefix
  <1>4. RowNo(lines', Len(lines')) = rowIdx'
    BY <1>1, <1>2, <1>3
  <1>5. l.type # "ROW" => RowNo(lines', Len(lines') + 1) = RowNo(lines', Len(lines'))
    <2>1. Len(lines') \in Nat \ {0}
      BY <1>1
    <2> QED BY <1>1, <2>1, RowNoFacts
  <1> QED BY <1>3, <1>4, <1>5

LEMMA RowInvInit == Init => RowInv
  <1> SUFFICES ASSUME Init PROVE RowInv
    OBVIOUS
  <1>1. lines = << >> /\ pc = "READ" /\ rowIdx = 0
    BY DEF Init, LoaderInit
  <1>2. Len(lines) + 1 = 1
    BY <1>1, EmptySeq
  <1>3. RowNo(lines, 1) = 0
    BY RowNoFacts
  <1> QED BY <1>1, <1>2, <1>3 DEF RowInv

LEMMA RowInvNext == IInv /\ RowInv /\ [Next]_vars => RowInv'
  <1> SUFFICES ASSUME IInv, RowInv, [Next]_vars PROVE RowInv'
    OBVIOUS
  <1>1. ASSUME NEW l \in Lines, EmptyLine(l) \/ CommentLine(l) \/ WordsLine(l) PROVE RowInv'
    <2>1. Read(l) /\ pc = "READ" /\ (pc' = pc \/ (pc' = l.type /\ l.type \in {"ROW", "COMMAND"}))
          /\ (pc' = pc => l.type # "ROW")
      BY <1>1 DEF EmptyLine, CommentLine, WordsLine, Read
    <2>2. Line' = l
      BY <2>1, ReadFacts
    <2>3. /\ RowNo(lines', Len(lines')) = rowIdx'
          /\ l.type # "ROW" => RowNo(lines', Len(lines') + 1) = rowIdx'
      BY <2>1, ReadLines
    <2> QED BY <2>1, <2>2, <2>3 DEF RowInv
  <1>2. CASE EndRow
    <2>1. /\ pc = "ROW" /\ ~More /\ rowIdx' = rowIdx + 1 /\ pc' = "READ" /\ lines' = lines /\ pos' = pos
      BY <1>2 DEF EndRow
    <2>2. lines # << >> /\ Line.type = "ROW" /\ pos <= Len(Line.words) /\ lines \in Seq(Lines) /\ pos \in Nat
      BY <2>1 DEF IInv, LoopInv
    <2>3. Len(lines) \in Nat \ {0} /\ Line \in Lines
      BY <2>2, EmptySeq, LenProperties, ElementOfSeq DEF Line
    <2>4. RowNo(lines, Len(lines) + 1) = RowNo(lines, Len(lines)) + 1
      BY <2>2, <2>3, RowNoFacts DEF Line
    <2>5. Line.words \in Seq(CellText)
      BY <2>2, <2>3, LinesAssumption
    <2>6. pos = Len(Line.words)
      BY <2>1, <2>2, <2>5, LenProperties DEF More
    <2>7. Line' = Line
      BY <2>1 DEF Line
    <2> QED BY <2>1, <2>4, <2>6, <2>7 DEF RowInv
  <1>3. CASE EndCommand
    <2>1. /\ pc = "COMMAND" /\ rowIdx' = rowIdx /\ pc' = "READ" /\ lines' = lines
      BY <1>3 DEF EndCommand
    <2>2. Line' = Line /\ Line.type = "COMMAND"
      BY <2>1 DEF IInv, LoopInv, Line
    <2> QED BY <2>1, <2>2 DEF RowInv
  <1>4. CASE EndOfFile
    BY <1>4 DEF EndOfFile, RowInv
  <1>5. ASSUME lines' = lines, rowIdx' = rowIdx, pc' = pc \/ pc' = "ABORTED",
               pos' = pos \/ pc # "READ"
        PROVE  RowInv'
    <2>1. Line' = Line
      BY <1>5 DEF Line
    <2> QED BY <1>5, <2>1 DEF RowInv
  <1>6. CASE RowCell \/ CommandName \/ SepWord \/ FmtWord \/ PrcsnWord \/ SummaryWord \/ DefineWord \/ ExtraWord
    <2>1. \/ Done
          \/ Stop
      BY <1>6 DEF RowCell, CommandName, SepWord, FmtWord, PrcsnWord, SummaryWord, DefineWord, ExtraWord
    <2>2. pc # "READ"
      BY <1>6 DEF RowCell, CommandName, SepWord, FmtWord, PrcsnWord, SummaryWord, DefineWord, ExtraWord,
                  Argument, WordOf
    <2> QED BY <1>5, <2>1, <2>2 DEF Done, Stop
  <1>7. CASE Evaluate \/ CompleteFormats \/ PrintRow \/ EndPrint \/ Again \/ Exit \/ UNCHANGED vars
    <2>1. UNCHANGED <<lines, rowIdx, pos>>
      BY <1>7 DEF Evaluate, CompleteFormats, PrintRow, EndPrint, Again, Exit, docVars, vars
    <2>2. \/ pc' = pc
          \/ pc \notin {"ROW", "ABORTED"} /\ pc' \notin {"READ", "ROW"}
      BY <1>7 DEF Evaluate, CompleteFormats, PrintRow, EndPrint, Again, Exit, vars
    <2>3. Line' = Line
      BY <2>1 DEF Line
    <2> QED BY <2>1, <2>2, <2>3 DEF RowInv
  <1> QED BY <1>1, <1>2, <1>3, <1>4, <1>6, <1>7 DEF Next, LoaderNext

LEMMA AlwaysRowInv == Spec => []RowInv
  BY RowInvInit, RowInvNext, AlwaysIInv, PTL DEF Spec

-----------------------------------------------------------------------------
(* Every cell that was read is in its place, and nothing else is anywhere. *)

RowLine(s, i)      == i \in 1..Len(s) /\ s[i].type = "ROW"
WordsRead(s, p, i) == IF i = Len(s) THEN p ELSE Len(s[i].words)
Holds(cell, w)     == cell.type = CellType(w) /\ cell.text = w.text
Blank(cell)        == cell.type = "NULL" /\ cell.text = BlankCell.text

TextOf(t, s, p) ==
    /\ \A i : RowLine(s, i) => \A c \in 0..(WordsRead(s, p, i) - 1) :
            /\ c < t.cols /\ RowNo(s, i) < t.rows
            /\ Holds(CellAt(t, c, RowNo(s, i)), s[i].words[c + 1])
    /\ \A c, r \in Nat :
            (\A i : RowLine(s, i) /\ RowNo(s, i) = r => c >= WordsRead(s, p, i))
                => Blank(CellAt(t, c, r))

TextInv == Loading => TextOf(table, lines, pos)

(* A step that writes no text, in a line that is no row. *)
SameText(g, t) == \A c, r \in Nat : /\ CellAt(g, c, r).type = CellAt(t, c, r).type
                                    /\ CellAt(g, c, r).text = CellAt(t, c, r).text

LEMMA TextStays ==
    ASSUME NEW t, NEW g, NEW s \in Seq(Lines), NEW p, NEW q,
           TextOf(t, s, p), SameText(g, t),
           t.cols \in Nat, g.cols \in Nat, t.rows \in Nat, g.rows \in Nat,
           g.cols >= t.cols, g.rows >= t.rows,
           q = p \/ ~RowLine(s, Len(s))
    PROVE  TextOf(g, s, q)
  <1>1. \A i : RowLine(s, i) => WordsRead(s, q, i) = WordsRead(s, p, i)
    BY DEF WordsRead
  <1>3. ASSUME NEW i, RowLine(s, i), NEW c \in 0..(WordsRead(s, q, i) - 1)
        PROVE  /\ c < g.cols /\ RowNo(s, i) < g.rows
               /\ Holds(CellAt(g, c, RowNo(s, i)), s[i].words[c + 1])
    <2>1. i \in Nat \ {0}
      BY <1>3, LenProperties DEF RowLine
    <2>2. RowNo(s, i) \in Nat /\ c \in Nat
      BY <2>1, RowNoFacts
    <2>3. c \in 0..(WordsRead(s, p, i) - 1)
      BY <1>1, <1>3
    <2>4. /\ c < t.cols /\ RowNo(s, i) < t.rows
          /\ Holds(CellAt(t, c, RowNo(s, i)), s[i].words[c + 1])
      BY <1>3, <2>3 DEF TextOf
    <2>5. Holds(CellAt(g, c, RowNo(s, i)), s[i].words[c + 1])
      BY <2>2, <2>4 DEF Holds, SameText
    <2> QED BY <2>2, <2>4, <2>5
  <1>4. ASSUME NEW c \in Nat, NEW r \in Nat,
               \A i : RowLine(s, i) /\ RowNo(s, i) = r => c >= WordsRead(s, q, i)
        PROVE  Blank(CellAt(g, c, r))
    <2>1. \A i : RowLine(s, i) /\ RowNo(s, i) = r => c >= WordsRead(s, p, i)
      BY <1>1, <1>4
    <2>2. Blank(CellAt(t, c, r))
      BY <2>1 DEF TextOf
    <2> QED BY <2>2 DEF Blank, SameText
  <1> QED BY <1>3, <1>4 DEF TextOf

(* A new line has no words yet, and the words of the one before are read.  *)
LEMMA TextRead ==
    ASSUME IInv, RowInv, TextInv, NEW l \in Lines, Read(l)
    PROVE  TextOf(table, lines', 0)
  <1> DEFINE n == Len(lines)
  <1>1. /\ Len(lines') = n + 1 /\ n \in Nat
        /\ \A i \in 1..n : lines'[i] = lines[i]
        /\ \A i \in 1..(n + 1) : RowNo(lines', i) = RowNo(lines, i)
    BY ReadFacts, ReadLines
  <1>2. TextOf(table, lines, pos)
    BY DEF TextInv, Loading, Read
  <1>3. RowLine(lines, n) => pos = Len(lines[n].words)
    BY <1>1 DEF RowLine, RowInv, Read, Line
  <1>4. \A i : RowLine(lines, i) => WordsRead(lines', 0, i) = WordsRead(lines, pos, i)
    BY <1>1, <1>3 DEF RowLine, WordsRead
  <1>5. WordsRead(lines', 0, n + 1) = 0
    BY <1>1 DEF WordsRead
  <1>6. \A i : RowLine(lines, i) => RowLine(lines', i) /\ RowNo(lines', i) = RowNo(lines, i)
                                    /\ lines'[i] = lines[i]
    BY <1>1 DEF RowLine
  <1>7. \A i : RowLine(lines', i) => RowLine(lines, i) \/ i = n + 1
    BY <1>1 DEF RowLine
  <1> HIDE DEF n
  <1>8. ASSUME NEW i, RowLine(lines', i), NEW c \in 0..(WordsRead(lines', 0, i) - 1)
        PROVE  /\ c < table.cols /\ RowNo(lines', i) < table.rows
               /\ Holds(CellAt(table, c, RowNo(lines', i)), lines'[i].words[c + 1])
    <2>1. i # n + 1
      BY <1>5, <1>8
    <2>2. RowLine(lines, i)
      BY <1>7, <1>8, <2>1
    <2>3. c \in 0..(WordsRead(lines, pos, i) - 1) /\ lines'[i] = lines[i] /\ RowNo(lines', i) = RowNo(lines, i)
      BY <1>4, <1>6, <1>8, <2>2
    <2> QED BY <1>2, <2>2, <2>3 DEF TextOf
  <1>9. ASSUME NEW c \in Nat, NEW r \in Nat,
               \A i : RowLine(lines', i) /\ RowNo(lines', i) = r => c >= WordsRead(lines', 0, i)
        PROVE  Blank(CellAt(table, c, r))
    <2>1. \A i : RowLine(lines, i) /\ RowNo(lines, i) = r => c >= WordsRead(lines, pos, i)
      BY <1>4, <1>6, <1>9
    <2> QED BY <1>2, <2>1 DEF TextOf
  <1> QED BY <1>8, <1>9 DEF TextOf

(* A cell of a row is written in its place, which no line wrote before.    *)
LEMMA TextWritten ==
    ASSUME IInv, RowInv, TextInv, RowCell
    PROVE  TextOf(table', lines', pos')
  <1> DEFINE n == Len(lines)
  <1>1. /\ CellPut(table', table, pos, rowIdx, RowCellOf(table))
        /\ table'.cols = Larger(table.cols, pos + 1) /\ table'.rows = Larger(table.rows, rowIdx + 1)
        /\ pos' = pos + 1 /\ lines' = lines
    BY RowCellFacts DEF Done
  <1>2. /\ n \in Nat \ {0} /\ Line.type = "ROW" /\ Word \in CellText /\ pc = "ROW"
        /\ pos \in 0..(MaxDim - 1) /\ rowIdx \in 0..(MaxDim - 1)
    BY WordFacts DEF IInv, RowCell
  <1>3. pos \in Nat /\ rowIdx \in Nat /\ table.cols \in Nat /\ table.rows \in Nat /\ lines \in Seq(Lines)
    BY <1>2 DEF IInv, IsTable, LoopInv
  <1>4. TextOf(table, lines, pos) /\ rowIdx = RowNo(lines, n)
    BY <1>2 DEF TextInv, Loading, RowInv
  <1>5. RowLine(lines, n) /\ lines[n].words[pos + 1] = Word
    BY <1>2 DEF RowLine, Line, Word
  <1>6. Holds(RowCellOf(table), Word)
    <2> DEFINE old == CellAt(table, pos, rowIdx)
    <2>1. old \in Cell
      BY <1>3, CellAtType DEF IInv
    <2> HIDE DEF old
    <2>2. Filled(old, Word) = [fmt |-> old.fmt, type |-> CellType(Word), text |-> Word.text]
      BY <1>2, <2>1, FilledType
    <2> QED BY <2>2 DEF Holds, RowCellOf, old
  <1>7. /\ table'.cols \in Nat /\ table'.cols >= table.cols /\ table'.cols > pos
        /\ table'.rows \in Nat /\ table'.rows >= table.rows /\ table'.rows > rowIdx
    BY <1>1, <1>3 DEF Larger
  <1>8. \A i : RowLine(lines, i) => i \in 1..n /\ RowNo(lines, i) \in Nat
    BY <1>2, RowNoFacts DEF RowLine
  <1>9. \A i : RowLine(lines, i) /\ i # n => RowNo(lines, i) < rowIdx
               /\ WordsRead(lines, pos', i) = WordsRead(lines, pos, i)
    <2> SUFFICES ASSUME NEW i, RowLine(lines, i), i # n
                 PROVE  RowNo(lines, i) < rowIdx
      BY DEF WordsRead
    <2>1. i \in Nat \ {0} /\ i < n /\ lines[i].type = "ROW"
      BY <1>2 DEF RowLine
    <2> HIDE DEF n
    <2> QED BY <1>2, <1>4, <2>1, RowNoOrder
  <1>10. WordsRead(lines, pos', n) = pos + 1 /\ WordsRead(lines, pos, n) = pos
    BY <1>1 DEF WordsRead
  <1> HIDE DEF n
  <1>11. ASSUME NEW i, RowLine(lines, i), NEW c \in 0..(WordsRead(lines, pos', i) - 1)
         PROVE  /\ c < table'.cols /\ RowNo(lines, i) < table'.rows
                /\ Holds(CellAt(table', c, RowNo(lines, i)), lines[i].words[c + 1])
    <2>1. CASE i = n /\ c = pos
      <3>1. CellAt(table', pos, rowIdx) = RowCellOf(table)
        BY <1>1, <1>3 DEF CellPut
      <3> QED BY <1>4, <1>5, <1>6, <1>7, <2>1, <3>1
    <2>2. CASE ~(i = n /\ c = pos)
      <3>1. c \in Nat /\ RowNo(lines, i) \in Nat
        BY <1>8, <1>11
      <3>2. c \in 0..(WordsRead(lines, pos, i) - 1)
        <4>1. CASE i = n
          BY <1>3, <1>10, <1>11, <2>2, <4>1
        <4>2. CASE i # n
          BY <1>9, <1>11, <4>2
        <4> QED BY <4>1, <4>2
      <3>3. /\ c < table.cols /\ RowNo(lines, i) < table.rows
            /\ Holds(CellAt(table, c, RowNo(lines, i)), lines[i].words[c + 1])
        BY <1>4, <1>11, <3>2 DEF TextOf
      <3>4. ~(c = pos /\ RowNo(lines, i) = rowIdx)
        BY <1>3, <1>8, <1>9, <1>11, <2>2
      <3>5. CellAt(table', c, RowNo(lines, i)) = CellAt(table, c, RowNo(lines, i))
        BY <1>1, <3>1, <3>4 DEF CellPut
      <3> QED BY <1>3, <1>7, <3>1, <3>3, <3>5
    <2> QED BY <2>1, <2>2
  <1>12. ASSUME NEW c \in Nat, NEW r \in Nat,
                \A i : RowLine(lines, i) /\ RowNo(lines, i) = r => c >= WordsRead(lines, pos', i)
         PROVE  Blank(CellAt(table', c, r))
    <2>1. ~(c = pos /\ r = rowIdx)
      BY <1>3, <1>4, <1>5, <1>10, <1>12
    <2>2. CellAt(table', c, r) = CellAt(table, c, r)
      BY <1>1, <2>1 DEF CellPut
    <2>3. \A i : RowLine(lines, i) /\ RowNo(lines, i) = r => c >= WordsRead(lines, pos, i)
      <3> SUFFICES ASSUME NEW i, RowLine(lines, i), RowNo(lines, i) = r
                   PROVE  c >= WordsRead(lines, pos, i)
        OBVIOUS
      <3>1. c >= WordsRead(lines, pos', i)
        BY <1>12
      <3>2. CASE i = n
        BY <1>3, <1>10, <3>1, <3>2
      <3>3. CASE i # n
        BY <1>9, <3>1, <3>3
      <3> QED BY <3>2, <3>3
    <2> QED BY <1>4, <2>2, <2>3 DEF TextOf
  <1> QED BY <1>1, <1>11, <1>12 DEF TextOf

LEMMA TextInvInit == Init => TextInv
  <1> SUFFICES ASSUME Init PROVE TextOf(table, lines, pos)
    BY DEF TextInv
  <1>1. table = EmptyTable /\ lines = << >>
    BY DEF Init, LoaderInit
  <1>2. \A i : ~RowLine(lines, i)
    BY <1>1, EmptySeq DEF RowLine
  <1>3. \A c, r \in Nat : Blank(CellAt(table, c, r))
    BY <1>1, EmptyTableFacts, DefaultsAssumption DEF Blank
  <1> QED BY <1>2, <1>3 DEF TextOf

LEMMA TextInvNext == IInv /\ IInv' /\ RowInv /\ TextInv /\ [Next]_vars => TextInv'
  <1> SUFFICES ASSUME IInv, IInv', RowInv, TextInv, [Next]_vars, Loading'
               PROVE  TextOf(table', lines', pos')
    BY DEF TextInv
  <1>0. /\ table.cols \in Nat /\ table.rows \in Nat /\ table'.cols \in Nat /\ table'.rows \in Nat
        /\ lines \in Seq(Lines)
    BY DEF IInv, IsTable, LoopInv
  <1>1. ASSUME Loading, lines' = lines, SameText(table', table),
               table'.cols >= table.cols, table'.rows >= table.rows,
               pos' = pos \/ Line.type # "ROW"
        PROVE  TextOf(table', lines', pos')
    <2>1. TextOf(table, lines, pos)
      BY <1>1 DEF TextInv
    <2>2. pos' = pos \/ ~RowLine(lines, Len(lines))
      BY <1>1 DEF RowLine, Line
    <2> QED BY <1>0, <1>1, <2>1, <2>2, TextStays
  <1>2. ASSUME WordOf("COMMAND") PROVE Loading /\ Line.type # "ROW"
    BY <1>2, WordFacts DEF IInv, Loading
  <1>3. ASSUME NEW l \in Lines, EmptyLine(l) \/ CommentLine(l) \/ WordsLine(l)
        PROVE  TextOf(table', lines', pos')
    <2>1. Read(l) /\ table' = table /\ pos' = 0
      BY <1>3 DEF EmptyLine, CommentLine, WordsLine, Read
    <2> QED BY <2>1, TextRead
  <1>4. CASE RowCell
    BY <1>4, TextWritten
  <1>5. CASE FmtWord
    <2>1. WordOf("COMMAND") /\ lines' = lines
      BY <1>5 DEF FmtWord, Argument, Done
    <2>2. CASE Word.text = "-"
      <3>1. SameCells(table', table) /\ table'.cols = Larger(table.cols, pos) /\ table'.rows = table.rows
        BY <1>5, <2>2, FmtFacts
      <3>2. pos \in Int
        BY DEF IInv, LoopInv
      <3> QED BY <1>0, <1>1, <1>2, <2>1, <3>1, <3>2, LargerFacts DEF SameText, SameCells
    <2>3. CASE Word.text # "-"
      <3>1. /\ CellPut(table', table, pos - 1, 0, FmtCell(table, pos - 1))
            /\ table'.cols = Larger(table.cols, pos) /\ table'.rows = Larger(table.rows, 1) /\ pos > 0
        BY <1>5, <2>3, FmtFacts
      <3>2. pos \in Int /\ pos - 1 \in Nat
        BY <3>1 DEF IInv, LoopInv
      <3>3. CellAt(table, pos - 1, 0) \in Cell
        BY <3>2, CellAtType DEF IInv
      <3>4. /\ FmtCell(table, pos - 1).type = CellAt(table, pos - 1, 0).type
            /\ FmtCell(table, pos - 1).text = CellAt(table, pos - 1, 0).text
        BY <3>3 DEF FmtCell, Cell
      <3>5. SameText(table', table)
        BY <3>1, <3>4 DEF SameText, CellPut
      <3>6. table'.cols >= table.cols /\ table'.rows >= table.rows
        BY <1>0, <3>1, <3>2, LargerFacts
      <3> QED BY <1>1, <1>2, <2>1, <3>5, <3>6
    <2> QED BY <2>2, <2>3
  <1>6. CASE PrcsnWord
    <2>1. WordOf("COMMAND") /\ lines' = lines
      BY <1>6 DEF PrcsnWord, Argument, Done
    <2>2. CASE Word.text = "reset"
      <3>1. table' = table
        BY <1>6, <2>2, PrcsnFacts
      <3> QED BY <1>0, <1>1, <1>2, <2>1, <3>1 DEF SameText
    <2>3. CASE Word.text # "reset"
      <3> DEFINE old == CellAt(table, pos - 1, rowIdx)
                 new == PrcsnCell(table, pos - 1, rowIdx)
      <3>1. /\ CellPut(table', table, pos - 1, rowIdx, new)
            /\ table'.cols = Larger(table.cols, pos) /\ table'.rows = Larger(table.rows, rowIdx + 1) /\ pos > 0
        BY <1>6, <2>3, PrcsnFacts
      <3>2. pos \in Int /\ pos - 1 \in Nat /\ rowIdx \in Nat
        BY <3>1 DEF IInv, LoopInv
      <3>3. old \in Cell
        BY <3>2, CellAtType DEF IInv
      <3>4. new.type = old.type /\ new.text = old.text
        <4>1. new = [old EXCEPT !.fmt.prcsn = PrcsnOf(Word), !.fmt.set = @ \cup {"PRCSN"}]
          BY DEF PrcsnCell
        <4> HIDE DEF old, new
        <4> QED BY <3>3, <4>1 DEF Cell
      <3> HIDE DEF new
      <3>5. SameText(table', table)
        BY <3>1, <3>4 DEF SameText, CellPut
      <3>6. table'.cols >= table.cols /\ table'.rows >= table.rows
        BY <1>0, <3>1, <3>2, LargerFacts
      <3> QED BY <1>1, <1>2, <2>1, <3>5, <3>6
    <2> QED BY <2>2, <2>3
  <1>7. CASE SepWord
    <2>1. WordOf("COMMAND")
      BY <1>7 DEF SepWord, Argument
    <2>2. CASE Word.text = "|"
      <3>1. /\ SameCells(table', table) /\ lines' = lines
            /\ table'.cols = Larger(table.cols, pos + 1) /\ table'.rows = table.rows
        BY <1>7, <2>2, SepFacts DEF Done
      <3>2. pos + 1 \in Int
        BY DEF IInv, LoopInv
      <3> QED BY <1>0, <1>1, <1>2, <2>1, <3>1, <3>2, LargerFacts DEF SameText, SameCells
    <2>3. CASE Word.text # "|"
      <3>1. table' = table /\ lines' = lines
        BY <1>7, <2>3 DEF SepWord, Stop, Done
      <3> QED BY <1>0, <1>1, <1>2, <2>1, <3>1 DEF SameText
    <2> QED BY <2>2, <2>3
  <1>8. CASE CommandName \/ SummaryWord \/ DefineWord \/ ExtraWord
    <2>1. WordOf("COMMAND") /\ table' = table /\ lines' = lines
      BY <1>8 DEF CommandName, SummaryWord, DefineWord, ExtraWord, Argument, Stop, Done
    <2> QED BY <1>0, <1>1, <1>2, <2>1 DEF SameText
  <1>9. CASE EndRow \/ EndCommand \/ EndOfFile \/ UNCHANGED vars
    <2>1. table' = table /\ lines' = lines /\ pos' = pos
      BY <1>9 DEF EndRow, EndCommand, EndOfFile, vars
    <2>2. Loading
      BY <1>9 DEF EndRow, EndCommand, EndOfFile, Loading, vars
    <2> QED BY <1>0, <1>1, <2>1, <2>2 DEF SameText
  <1>10. CASE Evaluate \/ CompleteFormats \/ PrintRow \/ EndPrint \/ Again \/ Exit
    BY <1>10 DEF Evaluate, CompleteFormats, PrintRow, EndPrint, Again, Exit, Loading, vars
  <1> QED BY <1>3, <1>4, <1>5, <1>6, <1>7, <1>8, <1>9, <1>10 DEF Next, LoaderNext

LEMMA TextInvKept == IInv /\ TextInv => TextKept
  <1> SUFFICES ASSUME IInv, TextInv, Loading PROVE TextKept
    BY DEF TextKept
  <1>1. TextOf(table, lines, pos) /\ lines \in Seq(Lines)
    BY DEF TextInv, IInv, LoopInv
  <1>2. ASSUME NEW i \in {j \in LineNos : lines[j].type = "ROW"}
        PROVE  /\ RowLine(lines, i) /\ ReadWords(i) = WordsRead(lines, pos, i)
               /\ RowsBefore(i) = RowNo(lines, i) /\ RowNo(lines, i) \in Nat
    <2>1. RowLine(lines, i)
      BY DEF RowLine, LineNos
    <2>2. i \in Nat \ {0}
      BY <1>1, LenProperties DEF LineNos
    <2> QED BY <2>1, <2>2, RowNoFacts, RowsBeforeIsRowNo DEF ReadWords, WordsRead
  <1>3. ASSUME NEW i \in {j \in LineNos : lines[j].type = "ROW"},
               NEW c \in 0..(ReadWords(i) - 1)
        PROVE  <<c, RowsBefore(i)>> \in Used(table)
    <2>1. c < table.cols /\ RowNo(lines, i) < table.rows /\ c \in Nat
      BY <1>1, <1>2, <1>3 DEF TextOf
    <2>2. table.cols \in Nat /\ table.rows \in Nat
      BY DEF IInv, IsTable
    <2> QED BY <1>2, <2>1, <2>2 DEF Used
  <1>4. ASSUME NEW i \in {j \in LineNos : lines[j].type = "ROW"}
        PROVE  (0..(ReadWords(i) - 1)) \X {RowsBefore(i)} \subseteq Used(table)
    BY <1>3
  <1>5. ASSUME NEW p \in (0..(table.tcols - 1)) \X (0..(table.trows - 1))
        PROVE  LET cell  == GetCell(table, p[1], p[2])
                   words == {lines[i].words[p[1] + 1] :
                                i \in {j \in LineOfRow(p[2]) : p[1] < ReadWords(j)}}
               IN  IF words = {} THEN cell.type = "NULL" /\ cell.text = BlankCell.text
                   ELSE \A w \in words : cell.type = CellType(w) /\ cell.text = w.text
    <2> DEFINE c == p[1]
               r == p[2]
               cell == GetCell(table, c, r)
               js == {j \in LineOfRow(r) : c < ReadWords(j)}
               words == {lines[i].words[c + 1] : i \in js}
    <2>1. c \in 0..(table.tcols - 1) /\ r \in 0..(table.trows - 1) /\ c \in Nat /\ r \in Nat
      OBVIOUS
    <2>2. cell = CellAt(table, c, r)
      BY <2>1 DEF CellAt, CellExists
    <2>3. ASSUME NEW i \in js
          PROVE  Holds(cell, lines[i].words[c + 1])
      <3>1. i \in {j \in LineNos : lines[j].type = "ROW"} /\ RowsBefore(i) = r /\ c < ReadWords(i)
        BY DEF LineOfRow
      <3>2. RowLine(lines, i) /\ RowNo(lines, i) = r /\ c < WordsRead(lines, pos, i)
        BY <1>2, <3>1
      <3>3. c \in 0..(WordsRead(lines, pos, i) - 1)
        <4>1. WordsRead(lines, pos, i) \in Nat
          <5>1. pos \in Nat
            BY DEF IInv, LoopInv
          <5>2. i \in 1..Len(lines)
            BY <3>2 DEF RowLine
          <5>3. lines[i] \in Lines
            BY <1>1, <5>2, ElementOfSeq
          <5>4. lines[i].words \in Seq(CellText)
            BY <3>2, <5>3, LinesAssumption DEF RowLine
          <5> QED BY <5>1, <5>4, LenProperties DEF WordsRead
        <4> HIDE DEF c
        <4> QED BY <2>1, <3>2, <4>1
      <3>4. Holds(CellAt(table, c, RowNo(lines, i)), lines[i].words[c + 1])
        BY <1>1, <3>2, <3>3 DEF TextOf
      <3> QED BY <2>2, <3>2, <3>4
    <2>4. ASSUME js = {} PROVE Blank(cell)
      <3>1. ASSUME NEW i, RowLine(lines, i), RowNo(lines, i) = r
            PROVE  c >= WordsRead(lines, pos, i)
        <4>1. i \in {j \in LineNos : lines[j].type = "ROW"}
          BY <3>1 DEF RowLine, LineNos
        <4>2. i \in LineOfRow(r) /\ ReadWords(i) = WordsRead(lines, pos, i)
          BY <1>2, <3>1, <4>1 DEF LineOfRow
        <4>3. ~(c < ReadWords(i))
          BY <2>4, <4>2
        <4>4. WordsRead(lines, pos, i) \in Nat
          <5>1. pos \in Nat
            BY DEF IInv, LoopInv
          <5>2. i \in 1..Len(lines) /\ lines[i].type = "ROW"
            BY <3>1 DEF RowLine
          <5>3. lines[i] \in Lines
            BY <1>1, <5>2, ElementOfSeq
          <5>4. lines[i].words \in Seq(CellText)
            BY <5>2, <5>3, LinesAssumption
          <5> QED BY <5>1, <5>4, LenProperties DEF WordsRead
        <4> HIDE DEF c
        <4> QED BY <2>1, <4>2, <4>3, <4>4
      <3> HIDE DEF c, r
      <3> QED BY <1>1, <2>1, <2>2, <3>1 DEF TextOf
    <2>5. words = {} <=> js = {}
      OBVIOUS
    <2>6. IF words = {} THEN cell.type = "NULL" /\ cell.text = BlankCell.text
          ELSE \A w \in words : cell.type = CellType(w) /\ cell.text = w.text
      <3> HIDE DEF js, cell
      <3> QED BY <2>3, <2>4, <2>5 DEF Holds, Blank
    <2> QED BY <2>6
  <1> QED BY <1>4, <1>5, Zenon DEF TextKept

(* However the table has grown, by rows, by columns, or by a command ahead *)
(* of the row it names, every cell that was read is in its place in the    *)
(* used area, and every other place is blank (ReserveDocumentSpace,        *)
(* LINE_ROW).                                                              *)
THEOREM TextIsKept == Spec => []TextKept
  BY TextInvInit, TextInvNext, TextInvKept, AlwaysIInv, AlwaysRowInv, PTL DEF Spec

-----------------------------------------------------------------------------
(* The first and the last of a set of line numbers.                        *)

LEMMA FirstFacts ==
    ASSUME NEW S \in SUBSET Nat, S # {}
    PROVE  First(S) \in S /\ \A j \in S : First(S) <= j
  <1>1. \E i \in S : \A j \in S : i <= j
    BY LeastNumber
  <1> QED BY <1>1 DEF First

LEMMA LastFacts ==
    ASSUME NEW S \in SUBSET Nat, S # {}, NEW n \in Nat, \A j \in S : j <= n
    PROVE  Last(S) \in S /\ \A j \in S : Last(S) >= j
  <1> DEFINE T == {n - j : j \in S}
  <1>1. T \in SUBSET Nat /\ T # {}
    <2>1. \A j \in S : n - j \in Nat
      OBVIOUS
    <2> QED BY <2>1
  <1>2. PICK m \in T : \A k \in T : m <= k
    BY <1>1, LeastNumber
  <1>3. PICK i \in S : m = n - i
    BY <1>2
  <1>4. \A j \in S : i >= j
    <2> SUFFICES ASSUME NEW j \in S PROVE i >= j
      OBVIOUS
    <2>1. n - j \in T
      OBVIOUS
    <2>2. n - i <= n - j
      BY <1>2, <1>3, <2>1
    <2> QED BY <2>2
  <1>5. \E k \in S : \A j \in S : k >= j
    BY <1>4
  <1> QED BY <1>5 DEF Last

LEMMA FirstIs ==
    ASSUME NEW S \in SUBSET Nat, NEW i \in S, \A j \in S : i <= j
    PROVE  First(S) = i
  <1>1. First(S) \in S /\ First(S) <= i
    BY FirstFacts
  <1>2. First(S) \in Nat /\ i \in Nat /\ i <= First(S)
    BY <1>1
  <1> QED BY <1>1, <1>2

LEMMA LastIs ==
    ASSUME NEW S \in SUBSET Nat, NEW i \in S, \A j \in S : i >= j
    PROVE  Last(S) = i
  <1>1. i \in Nat /\ \A j \in S : j <= i
    OBVIOUS
  <1>2. Last(S) \in S /\ Last(S) >= i
    BY <1>1, LastFacts
  <1>3. Last(S) \in Nat /\ i >= Last(S)
    BY <1>2
  <1> QED BY <1>1, <1>2, <1>3

-----------------------------------------------------------------------------
(* The bounds of the sections.                                             *)

EndsOf(s) == {i \in 1..Len(s) : s[i].type = "EMPTY" /\ RowNo(s, i) > 0}
BodyOf(s) == IF EndsOf(s) = {} THEN 0 ELSE RowNo(s, First(EndsOf(s)))
FootOf(s) == IF Cardinality(EndsOf(s)) < 2 THEN IntMax ELSE RowNo(s, Last(EndsOf(s)))

LEMMA EndsFacts ==
    ASSUME NEW s \in Seq(Lines)
    PROVE  /\ EndsOf(s) \in SUBSET Nat /\ EndsOf(s) \in SUBSET (1..Len(s))
           /\ IsFiniteSet(EndsOf(s)) /\ Cardinality(EndsOf(s)) \in Nat
           /\ EndsOf(s) = {} <=> Cardinality(EndsOf(s)) = 0
           /\ \A i \in EndsOf(s) : RowNo(s, i) \in Nat /\ RowNo(s, i) > 0
  <1>1. Len(s) \in Nat
    BY LenProperties
  <1>2. EndsOf(s) \in SUBSET (1..Len(s)) /\ EndsOf(s) \in SUBSET Nat
    BY <1>1 DEF EndsOf
  <1>3. IsFiniteSet(1..Len(s))
    BY <1>1, FS_Interval
  <1>4. IsFiniteSet(EndsOf(s))
    BY <1>2, <1>3, FS_Subset
  <1>5. \A i \in EndsOf(s) : RowNo(s, i) \in Nat /\ RowNo(s, i) > 0
    BY <1>1, RowNoFacts DEF EndsOf
  <1> QED BY <1>2, <1>4, <1>5, FS_CardinalityType, FS_EmptySet

LEMMA MeantBounds == MeantBody = BodyOf(lines) /\ MeantFoot = FootOf(lines)
  <1>1. Ends = EndsOf(lines)
    BY RowsBeforeIsRowNo DEF Ends, EndsOf, LineNos
  <1> QED BY <1>1, RowsBeforeIsRowNo DEF MeantBody, MeantFoot, BodyOf, FootOf

BoundsInv ==
    /\ meta.firstBodyRow = BodyOf(lines) /\ meta.firstFootRow = FootOf(lines)
    /\ BodyOf(lines) <= FootOf(lines) /\ BodyOf(lines) <= rowIdx

(* What one line more does to the sections: it may be an end.              *)
LEMMA OneMoreLine ==
    ASSUME IInv, RowInv, NEW l \in Lines, Read(l)
    PROVE  /\ EndsOf(lines') = IF l.type = "EMPTY" /\ rowIdx > 0
                               THEN EndsOf(lines) \cup {Len(lines')} ELSE EndsOf(lines)
           /\ RowNo(lines', Len(lines')) = rowIdx
           /\ \A i \in EndsOf(lines) : i < Len(lines') /\ RowNo(lines', i) = RowNo(lines, i)
                                       /\ RowNo(lines, i) <= rowIdx
  <1>1. /\ Len(lines') = Len(lines) + 1 /\ Len(lines) \in Nat
        /\ \A i \in 1..Len(lines) : lines'[i] = lines[i]
        /\ lines'[Len(lines')] = l
        /\ \A i \in 1..(Len(lines) + 1) : RowNo(lines', i) = RowNo(lines, i)
        /\ RowNo(lines', Len(lines')) = rowIdx'
    BY ReadFacts, ReadLines
  <1>2. rowIdx' = rowIdx
    BY DEF Read
  <1>3. \A i \in EndsOf(lines) : i < Len(lines') /\ i \in 1..Len(lines) /\ RowNo(lines', i) = RowNo(lines, i)
    BY <1>1 DEF EndsOf
  <1>4. ASSUME NEW i \in EndsOf(lines) PROVE RowNo(lines, i) <= rowIdx
    <2>1. i \in Nat \ {0} /\ Len(lines') \in Nat /\ i <= Len(lines')
      BY <1>1, <1>3
    <2>2. RowNo(lines', i) <= RowNo(lines', Len(lines'))
      BY <2>1, RowNoOrder
    <2> QED BY <1>1, <1>2, <1>3, <2>2
  <1>5. EndsOf(lines') = IF l.type = "EMPTY" /\ rowIdx > 0
                         THEN EndsOf(lines) \cup {Len(lines')} ELSE EndsOf(lines)
    BY <1>1, <1>2 DEF EndsOf
  <1> QED BY <1>1, <1>2, <1>3, <1>4, <1>5

LEMMA BoundsRead ==
    ASSUME IInv, RowInv, BoundsInv, NEW l \in Lines, Read(l)
    PROVE  /\ l.type # "EMPTY" \/ rowIdx = 0 =>
                BodyOf(lines') = BodyOf(lines) /\ FootOf(lines') = FootOf(lines)
           /\ l.type = "EMPTY" /\ rowIdx > 0 /\ BodyOf(lines) = 0 =>
                BodyOf(lines') = rowIdx /\ FootOf(lines') = IntMax /\ FootOf(lines) = IntMax
           /\ l.type = "EMPTY" /\ rowIdx > 0 /\ BodyOf(lines) # 0 =>
                BodyOf(lines') = BodyOf(lines) /\ FootOf(lines') = rowIdx
  <1> DEFINE E == EndsOf(lines)
             F == EndsOf(lines')
             n == Len(lines')
  <1>1. /\ F = IF l.type = "EMPTY" /\ rowIdx > 0 THEN E \cup {n} ELSE E
        /\ RowNo(lines', n) = rowIdx
        /\ \A i \in E : i < n /\ RowNo(lines', i) = RowNo(lines, i)
    BY OneMoreLine
  <1>2. lines \in Seq(Lines) /\ lines' \in Seq(Lines) /\ n \in Nat /\ rowIdx \in Nat
    BY ReadFacts, LenProperties DEF IInv, LoopInv
  <1>3. /\ E \in SUBSET Nat /\ F \in SUBSET Nat /\ IsFiniteSet(E)
        /\ Cardinality(E) \in Nat /\ (E = {} <=> Cardinality(E) = 0)
        /\ \A i \in E : RowNo(lines, i) > 0
    BY <1>2, EndsFacts
  <1>4. BodyOf(lines) = 0 <=> E = {}
    <2>1. E # {} => First(E) \in E
      BY <1>3, FirstFacts
    <2> QED BY <1>3, <2>1 DEF BodyOf
  <1> HIDE DEF n
  <1>5. CASE l.type # "EMPTY" \/ rowIdx = 0
    <2>1. F = E
      BY <1>1, <1>5
    <2>2. E # {} => First(E) \in E /\ (Cardinality(E) >= 2 => Last(E) \in E)
      <3>1. \A i \in E : i <= n
        BY <1>1, <1>2, <1>3
      <3> HIDE DEF E
      <3> QED BY <1>2, <1>3, <3>1, FirstFacts, LastFacts
    <2>3. Cardinality(E) >= 2 => E # {}
      BY <1>3
    <2>4. BodyOf(lines') = BodyOf(lines)
      BY <1>1, <2>1, <2>2 DEF BodyOf
    <2>5. FootOf(lines') = FootOf(lines)
      <3>1. CASE Cardinality(E) < 2
        BY <2>1, <3>1 DEF FootOf
      <3>2. CASE ~(Cardinality(E) < 2)
        <4>1. Last(E) \in E
          BY <1>3, <2>2, <2>3, <3>2
        <4> QED BY <1>1, <2>1, <3>2, <4>1 DEF FootOf
      <3> QED BY <3>1, <3>2
    <2> QED BY <1>5, <1>2, <2>4, <2>5
  <1>6. CASE l.type = "EMPTY" /\ rowIdx > 0
    <2>1. F = E \cup {n} /\ n \notin E
      BY <1>1, <1>2, <1>3, <1>6
    <2>2. Cardinality(F) = Cardinality(E) + 1
      <3> HIDE DEF E, F
      <3> QED BY <1>3, <2>1, FS_AddElement
    <2>3. CASE E = {}
      <3>1. F = {n} /\ Cardinality(F) = 1 /\ Cardinality(E) = 0
        BY <1>3, <2>1, <2>2, <2>3
      <3>2. First(F) = n
        <4> HIDE DEF F
        <4> QED BY <1>2, <1>3, <3>1, FirstIs
      <3>3. BodyOf(lines') = rowIdx
        BY <1>1, <3>1, <3>2 DEF BodyOf
      <3> QED BY <1>4, <1>6, <2>3, <3>1, <3>3 DEF FootOf
    <2>4. CASE E # {}
      <3>1. First(E) \in E /\ \A j \in E : First(E) <= j
        BY <1>3, <2>4, FirstFacts
      <3>2. First(F) = First(E)
        <4>1. First(E) \in F /\ \A j \in F : First(E) <= j
          BY <1>1, <1>2, <1>3, <2>1, <3>1
        <4> HIDE DEF E, F
        <4> QED BY <1>3, <4>1, FirstIs
      <3>3. Last(F) = n
        <4>1. n \in F /\ \A j \in F : n >= j
          BY <1>1, <1>2, <1>3, <2>1
        <4> HIDE DEF F
        <4> QED BY <1>3, <4>1, LastIs
      <3>4. ~(Cardinality(F) < 2) /\ F # {}
        BY <1>3, <2>1, <2>2, <2>4
      <3>5. BodyOf(lines') = BodyOf(lines)
        BY <1>1, <2>4, <3>1, <3>2, <3>4 DEF BodyOf
      <3>6. FootOf(lines') = rowIdx
        BY <1>1, <3>3, <3>4 DEF FootOf
      <3> QED BY <1>4, <1>6, <2>4, <3>5, <3>6
    <2> QED BY <2>3, <2>4
  <1> QED BY <1>2, <1>5, <1>6

LEMMA BoundsInit == Init => BoundsInv
  <1> SUFFICES ASSUME Init PROVE BoundsInv
    OBVIOUS
  <1>1. lines = << >> /\ meta = NoMeta /\ rowIdx = 0
    BY DEF Init, LoaderInit
  <1>2. EndsOf(lines) = {}
    BY <1>1, EmptySeq DEF EndsOf
  <1>3. BodyOf(lines) = 0 /\ FootOf(lines) = IntMax
    BY <1>2, FS_EmptySet DEF BodyOf, FootOf
  <1>4. meta.firstBodyRow = 0 /\ meta.firstFootRow = IntMax
    BY <1>1 DEF NoMeta
  <1>5. IntMax \in Nat
    BY LinesAssumption
  <1> QED BY <1>1, <1>3, <1>4, <1>5 DEF BoundsInv

(* A blank line does to the bounds what it means.                          *)
LEMMA BoundsBlank ==
    ASSUME IInv, RowInv, BoundsInv, NEW l \in Lines, EmptyLine(l)
    PROVE  BoundsInv'
  <1>1. Read(l) /\ l.type = "EMPTY" /\ meta' = SectionEnd(meta) /\ rowIdx' = rowIdx
    BY DEF EmptyLine, Read
  <1>2. /\ meta.firstBodyRow = BodyOf(lines) /\ meta.firstFootRow = FootOf(lines)
        /\ BodyOf(lines) <= FootOf(lines) /\ BodyOf(lines) <= rowIdx
    BY DEF BoundsInv
  <1>3. meta.firstBodyRow \in Nat /\ meta.firstFootRow \in Nat /\ rowIdx \in Nat
    BY DEF IInv, MetaInv, LoopInv
  <1>4. meta = [firstBodyRow |-> meta.firstBodyRow, firstFootRow |-> meta.firstFootRow,
                summarized |-> meta.summarized, summary |-> meta.summary, macros |-> meta.macros]
    BY DEF IInv, MetaInv
  <1>5. rowIdx <= IntMax /\ IntMax \in Nat
    <2>1. rowIdx <= Len(lines) /\ Len(lines) <= MaxLines /\ lines \in Seq(Lines)
      BY DEF IInv, LoopInv
    <2>2. MaxLines \in Nat /\ MaxLines <= MaxDim /\ MaxDim \in Nat /\ IntMax \in Nat /\ IntMax >= MaxDim
      BY LinesAssumption, TableAssumption
    <2>3. Len(lines) \in Nat
      BY <2>1, LenProperties
    <2> QED BY <1>3, <2>1, <2>2, <2>3
  <1>6. CASE meta.firstBodyRow = 0
    <2>1. meta'.firstBodyRow = rowIdx /\ meta'.firstFootRow = meta.firstFootRow
      BY <1>1, <1>4, <1>6 DEF SectionEnd
    <2>2. CASE rowIdx = 0
      <3>1. BodyOf(lines') = BodyOf(lines) /\ FootOf(lines') = FootOf(lines)
        BY <1>1, <2>2, BoundsRead
      <3> QED BY <1>1, <1>2, <1>6, <2>1, <2>2, <3>1 DEF BoundsInv
    <2>3. CASE rowIdx > 0
      <3>1. BodyOf(lines') = rowIdx /\ FootOf(lines') = IntMax /\ FootOf(lines) = IntMax
        BY <1>1, <1>2, <1>6, <2>3, BoundsRead
      <3> QED BY <1>1, <1>2, <1>3, <1>5, <2>1, <3>1 DEF BoundsInv
    <2> QED BY <1>3, <2>2, <2>3
  <1>7. CASE meta.firstBodyRow # 0
    <2>1. meta'.firstBodyRow = meta.firstBodyRow /\ meta'.firstFootRow = rowIdx
      BY <1>1, <1>4, <1>7 DEF SectionEnd
    <2>2. rowIdx > 0
      BY <1>2, <1>3, <1>7
    <2>3. BodyOf(lines') = BodyOf(lines) /\ FootOf(lines') = rowIdx
      BY <1>1, <1>2, <1>7, <2>2, BoundsRead
    <2> QED BY <1>1, <1>2, <1>3, <2>1, <2>3 DEF BoundsInv
  <1> QED BY <1>6, <1>7

LEMMA BoundsNext == IInv /\ RowInv /\ BoundsInv /\ [Next]_vars => BoundsInv'
  <1> SUFFICES ASSUME IInv, RowInv, BoundsInv, [Next]_vars PROVE BoundsInv'
    OBVIOUS
  <1>1. ASSUME NEW l \in Lines, CommentLine(l) \/ WordsLine(l) PROVE BoundsInv'
    <2>1. Read(l) /\ l.type # "EMPTY" /\ meta' = meta /\ rowIdx' = rowIdx
      BY <1>1 DEF CommentLine, WordsLine, Read
    <2>2. BodyOf(lines') = BodyOf(lines) /\ FootOf(lines') = FootOf(lines)
      BY <2>1, BoundsRead
    <2> QED BY <2>1, <2>2 DEF BoundsInv
  <1>2. ASSUME lines' = lines, rowIdx' = rowIdx \/ rowIdx' = rowIdx + 1,
               meta'.firstBodyRow = meta.firstBodyRow, meta'.firstFootRow = meta.firstFootRow
        PROVE  BoundsInv'
    <2>1. BodyOf(lines) \in Nat /\ rowIdx \in Nat
      BY DEF IInv, MetaInv, LoopInv, BoundsInv
    <2> QED BY <1>2, <2>1 DEF BoundsInv
  <1>3. CASE SummaryWord \/ DefineWord
    <2>1. lines' = lines /\ rowIdx' = rowIdx
      BY <1>3 DEF SummaryWord, DefineWord, Done, Stop
    <2>2. \/ meta' = meta
          \/ \E x : meta' = [meta EXCEPT !.summarized = TRUE, !.summary = x]
          \/ \E x : meta' = [meta EXCEPT !.macros = x]
      BY <1>3 DEF SummaryWord, DefineWord, Stop
    <2>3. meta = [firstBodyRow |-> meta.firstBodyRow, firstFootRow |-> meta.firstFootRow,
                  summarized |-> meta.summarized, summary |-> meta.summary, macros |-> meta.macros]
      BY DEF IInv, MetaInv
    <2>4. meta'.firstBodyRow = meta.firstBodyRow /\ meta'.firstFootRow = meta.firstFootRow
      BY <2>2, <2>3
    <2> QED BY <1>2, <2>1, <2>4
  <1>4. CASE \/ RowCell \/ EndRow \/ CommandName \/ SepWord \/ FmtWord \/ PrcsnWord \/ ExtraWord
             \/ EndCommand \/ EndOfFile \/ Evaluate \/ CompleteFormats \/ PrintRow \/ EndPrint
             \/ Again \/ Exit \/ UNCHANGED vars
    <2>1. lines' = lines /\ (rowIdx' = rowIdx \/ rowIdx' = rowIdx + 1) /\ meta' = meta
      BY <1>4 DEF RowCell, EndRow, CommandName, SepWord, FmtWord, PrcsnWord, ExtraWord, EndCommand,
                  EndOfFile, Evaluate, CompleteFormats, PrintRow, EndPrint, Again, Exit, vars, docVars,
                  Done, Stop
    <2> QED BY <1>2, <2>1
  <1> QED BY <1>1, <1>3, <1>4, BoundsBlank DEF Next, LoaderNext

(* Head, body and foot are in this order and begin where the blank lines   *)
(* say, for any file; a blank line before the first row says nothing.      *)
THEOREM SectionsAreMeant == Spec => []SectionsAsMeant
  <1>1. BoundsInv => SectionsAsMeant
    BY MeantBounds DEF BoundsInv, SectionsAsMeant
  <1> QED BY <1>1, BoundsInit, BoundsNext, AlwaysIInv, AlwaysRowInv, PTL DEF Spec
=============================================================================
