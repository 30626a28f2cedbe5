------------------------------ MODULE Dataflow ------------------------------
(***************************************************************************)
(* What the evaluation of documents promises, whoever asks for a cell and  *)
(* in whatever order: a cell is replaced, in one step and once, by a value *)
(* its expression denotes where the cells are what they are.               *)
(***************************************************************************)
CONSTANTS
    Addr,           \* the cells of all documents
    Contents,       \* the cells they may have at first
    Denoted(_, _)   \* Denoted(c, a): what a may become where the cells are c
VARIABLE cell

Init == cell \in Contents

Finish(a) == \E r \in Denoted(cell, a) : cell' = [cell EXCEPT ![a] = r]

Next == \E a \in Addr : Finish(a)

Spec == Init /\ [][Next]_cell
=============================================================================
