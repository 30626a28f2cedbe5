-------------------------------- MODULE Grid --------------------------------
(***************************************************************************)
(* What a document is to its readers: a cell at every place and a column   *)
(* at every index, blank until it is written.  Loading writes one place at *)
(* a time, evaluation replaces expressions only, printing completes        *)
(* formats only.  There is no table, no size and no growth.                *)
(***************************************************************************)
EXTENDS Integers

CONSTANTS
    Col, Row,       \* the indices of columns and rows
    Blank,          \* the cell of a place nobody wrote
    Default         \* the column of an index nobody wrote

VARIABLES
    cell,           \* cell[p]: the cell at the place p
    column          \* column[c]: the width and the separator of column c

Place == Col \X Row

GridInit ==
    /\ cell = [p \in Place |-> Blank]
    /\ column = [c \in Col |-> Default]

(* A cell or a column command, or a command that sets both. *)
Write ==
    /\ \E p \in Place : \A q \in Place \ {p} : cell'[q] = cell[q]
    /\ \E c \in Col : \A d \in Col \ {c} : column'[d] = column[d]

Replace ==
    /\ \A p \in Place : cell'[p] # cell[p] =>
            /\ cell[p].type = "EXPR" /\ cell'[p].type # "EXPR"
            /\ cell'[p].fmt = cell[p].fmt
    /\ UNCHANGED column

Complete ==
    /\ \A p \in Place :
            /\ cell'[p] = [cell[p] EXCEPT !.fmt = cell'[p].fmt]
            /\ cell[p].fmt.set \subseteq cell'[p].fmt.set
            /\ "PRCSN" \in cell[p].fmt.set => cell'[p].fmt.prcsn = cell[p].fmt.prcsn
            /\ "ALIGN" \in cell[p].fmt.set => cell'[p].fmt.align = cell[p].fmt.align
    /\ UNCHANGED column

GridSpec == GridInit /\ [][Write \/ Replace \/ Complete]_<<cell, column>>
=============================================================================
