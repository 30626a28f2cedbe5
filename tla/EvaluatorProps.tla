---------------------------- MODULE EvaluatorProps ----------------------------
(***************************************************************************)
(* What a reader of a printed sheet may conclude of references that go     *)
(* wrong.                                                                  *)
(***************************************************************************)
EXTENDS Evaluator

(* The cell that the node n of an expression in the cell at a names, and   *)
(* the nodes that ReduceNode goes on to reduce for n.  The range of an     *)
(* aggregate function names no cell: its loop ignores what goes wrong.     *)
DirectRefs(a, n) ==
    CASE n.type = "CELL" -> {Target(a[1], n, a)}
      [] n.type = "XENO" /\ Resolve(a[1], n.file) # NoDoc ->
            {Target(Resolve(a[1], n.file), n, a)}
      [] OTHER -> {}
SubNodes(a, n) ==
    CASE n.type = "MACRO" -> MacroBodies(a[1], n.name)
      [] n.type = "TERM"  -> {n.child}
      [] n.type = "SUM"   -> {n.first} \cup {n.rest[i].node : i \in 1..Len(n.rest)}
      [] n.type = "FUNC"  -> {n.args[i] : i \in 1..Len(n.args)}
      [] OTHER            -> {}

(* The cells that the expression n of the cell at a reads by plain         *)
(* references, through its operands, arguments and macros: p is <<a, n>>.  *)
PlainRefs[p \in Addr \X Node] ==
    DirectRefs(p[1], p[2])
        \cup UNION {PlainRefs[<<p[1], m>>] : m \in SubNodes(p[1], p[2])}

Reads(a) ==
    IF files[a].type # "EXPR" \/ files[a] = ExprCell(Unparsable) THEN {}
    ELSE PlainRefs[<<a, files[a].expr>>]
Asking == {a \in Addr : Reads(a) # {}}

Printed == UNION {DOMAIN output[i].cells : i \in 1..Len(output)}

(* A printed cell that reads a cell that is an error, is empty or does not *)
(* exist is an error itself, however the sheets were walked: no error is   *)
(* lost in a sum, a negation, a macro or an argument.                      *)
ErrorsPropagate ==
    \A a \in Printed : \A b \in Reads(a) :
        (b \notin Addr \/ cell[b].type \in {"ERROR", "NULL"}) => cell[a].type = "ERROR"

(* Every cell of a circle of plain references, and every cell from which   *)
(* one leads into a circle, is printed as an error, wherever               *)
(* EvaluateDocument entered the circle and through whichever documents it  *)
(* goes: no set of cells, each of which reads another of the set, has a    *)
(* value.                                                                  *)
CyclesAreErrors ==
    \A C \in SUBSET Asking :
        (\A a \in C : Reads(a) \cap C # {}) =>
            \A a \in C \cap Printed : cell[a].type = "ERROR"

(* A reference into the foot of a document that has no foot, or to its     *)
(* summary where it has neither, never reads a cell: it is printed as an   *)
(* error.  FirstFootRow is INT32_MAX then, and the sum of CanonicalRow,    *)
(* main.c:574, overflows from the second row of the foot on.               *)
NoFootFor(d, row) ==
    /\ Shape[d].firstFootRow = IntMax
    /\ row <= FOOT0 \/ (row = SUMMARY /\ ~Shape[d].summarized)
MissingFootIsError ==
    \A a \in Printed :
        LET e == files[a].expr
            d == IF e.type = "CELL" THEN a[1] ELSE Resolve(a[1], e.file)
        IN  (/\ files[a].type = "EXPR" /\ e.type \in {"CELL", "XENO"}
             /\ d # NoDoc /\ NoFootFor(d, e.row)) => cell[a].type = "ERROR"

(* No reference that goes wrong is printed as a value: neither one to a    *)
(* cell that is an error, is empty or does not exist, nor one into a foot  *)
(* that does not exist, whichever cell the arithmetic of its row arrives   *)
(* at (EvaluateIntoNode, main.c:1803).                                     *)
WrongRefsAreErrors == ErrorsPropagate /\ MissingFootIsError
=============================================================================
