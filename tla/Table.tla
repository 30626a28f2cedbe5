-------------------------------- MODULE Table --------------------------------
(***************************************************************************)
(* The table of a document (src/mem.c): a flat array of cells, column by   *)
(* column, and an array of columns, which grow together as cells and       *)
(* columns are reserved.  Growth allocates both anew and copies what is    *)
(* used.  A table is a record: cols and rows count what is used, tcols and *)
(* trows what is allocated.                                                *)
(***************************************************************************)
EXTENDS Integers

CONSTANTS
    InitCols, InitRows, \* the least size of a table
    MaxDim,             \* columns and rows stay below this
    DefaultColumn,      \* the width and separator of a new column
    BlankCell,          \* a cell of zeroes
    NextPow2(_)         \* NextPow2 of src/util.c

ASSUME TableAssumption ==
    /\ InitCols \in Nat \ {0} /\ InitRows \in Nat \ {0} /\ MaxDim \in Nat
    /\ \A n \in 1..MaxDim : NextPow2(n) \in Nat /\ NextPow2(n) >= n

EmptyTable == [cols |-> 0, rows |-> 0, tcols |-> 0, trows |-> 0,
               columns |-> << >>, cells |-> << >>]

Larger(a, b) == IF a > b THEN a ELSE b

Used(t) == (0..(t.cols - 1)) \X (0..(t.rows - 1))
CellExists(t, col, row) == col \in 0..(t.tcols - 1) /\ row \in 0..(t.trows - 1)

(* GetCellIdx slip: the stride is the least size, not the allocated one. *)
GetCellIdxLeast(t, col, row) == row + col * InitRows
GetCellIdx(t, col, row) == row + col * t.trows
GetCell(t, col, row)    == t.cells[GetCellIdx(t, col, row)]

(* Grown slip: the cells are moved as one block, not to their new index. *)
GrownAsBlock(t, tcols, trows) ==
    [t EXCEPT
        !.tcols   = tcols,
        !.trows   = trows,
        !.columns = [c \in 0..(tcols - 1) |->
                        IF c < t.cols THEN t.columns[c] ELSE DefaultColumn],
        !.cells   = [i \in 0..(tcols * trows - 1) |->
                        IF i < t.tcols * t.trows THEN t.cells[i] ELSE BlankCell]]

(* The table with its used columns and cells in arrays of a new size. *)
Grown(t, tcols, trows) ==
    [t EXCEPT
        !.tcols   = tcols,
        !.trows   = trows,
        !.columns = [c \in 0..(tcols - 1) |->
                        IF c < t.cols THEN t.columns[c] ELSE DefaultColumn],
        !.cells   = [i \in 0..(tcols * trows - 1) |->
                        IF <<i \div trows, i % trows>> \in Used(t)
                        THEN GetCell(t, i \div trows, i % trows) ELSE BlankCell]]

(* ReserveDocumentSpace slip: room for one more row than asked for. *)
ReserveDocumentSpaceMore(t, col, row) ==
    IF CellExists(t, col, row) THEN t
    ELSE Grown(t, Larger(t.tcols, Larger(NextPow2(col + 1), InitCols)),
                  Larger(t.trows, Larger(NextPow2(row + 2), InitRows)))
ReserveDocumentSpace(t, col, row) ==
    IF CellExists(t, col, row) THEN t
    ELSE Grown(t, Larger(t.tcols, Larger(NextPow2(col + 1), InitCols)),
                  Larger(t.trows, Larger(NextPow2(row + 1), InitRows)))

ReserveColumn(t, col) ==
    [ReserveDocumentSpace(t, col, 0) EXCEPT !.cols = Larger(@, col + 1)]

ReserveCell(t, col, row) ==
    [ReserveDocumentSpace(t, col, row) EXCEPT !.cols = Larger(@, col + 1),
                                              !.rows = Larger(@, row + 1)]

(* A write through the pointers ReserveCell, GetCell, ReserveColumn return. *)
PutCell(t, col, row, cell) == [t EXCEPT !.cells[GetCellIdx(t, col, row)] = cell]
PutColumn(t, col, column)  == [t EXCEPT !.columns[col] = column]
=============================================================================
