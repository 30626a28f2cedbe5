------------------------------- MODULE Sheets -------------------------------
(***************************************************************************)
(* The documents the evaluator works on, as constants: their dimensions,   *)
(* macros and expressions, and what a reference in a cell stands for.      *)
(***************************************************************************)
EXTENDS Expr

CONSTANTS
    Doc,            \* the documents that can be opened
    NoDoc,          \* MakeDocument's null pointer
    Node,           \* the expressions of the cells and macros, and their parts
    Shape,          \* Shape[d]: the dimensions, bounds and macros of d
    Resolve(_, _)   \* Resolve(d, f): the document that f names relative to d

ASSUME NoDocAssumption == NoDoc \notin Doc

(* cols and rows count what a row has used; the table is at least as big.  *)
(* Without a foot, firstFootRow is INT32_MAX.                              *)
ASSUME ShapeAssumption ==
    \A d \in Doc :
        LET s == Shape[d] IN
        /\ s.cols \in Nat /\ s.rows \in Nat
        /\ s.tcols \in Nat /\ s.cols <= s.tcols
        /\ s.trows \in Nat /\ s.rows <= s.trows
        /\ s.firstBodyRow \in Nat /\ s.firstFootRow \in 0..IntMax
        /\ s.summarized \in BOOLEAN /\ s.summaryCol \in Nat /\ s.summaryRow \in Nat
        /\ s.macros \in Seq([name : Str, body : Node \cup {Unparsable}])

(* A cell of a document, and a place a loop may ask for. *)
Addr == UNION {{d} \X (0..(Shape[d].tcols - 1)) \X (0..(Shape[d].trows - 1)) :
                d \in Doc}
Place == Doc \X Int \X Int
CellExists(p) == p \in Addr

(* The parse trees.  A sum and a product have a first operand and a        *)
(* non-empty list of operators and operands; only negation keeps a TERM.   *)
Operands == Seq([op : MathOp \ {"SET"}, node : Node])
IsNode(n) ==
    \/ n \in NumberNodes \cup StringNodes \cup CellNodes \cup RangeNodes
    \/ n \in XenoNodes
    \/ n.type = "MACRO" /\ n.name \in Str
    \/ n.type = "TERM" /\ n.child \in Node
    \/ n.type = "SUM" /\ n.first \in Node /\ n.rest \in Operands
    \/ n.type = "FUNC" /\ n.func \in Func /\ n.args \in Seq(Node)
ASSUME NodeAssumption == \A n \in Node : IsNode(n)

Cell == FinalCell \cup [type : {"EXPR"}, expr : Node \cup {Unparsable}]

ASSUME ResolveAssumption ==
    \A d \in Doc, f \in Str : Resolve(d, f) \in Doc \cup {NoDoc}

-----------------------------------------------------------------------------
(* The body of a macro: of the definitions of the name that parsed, the    *)
(* first one counts.  The set is empty for a name without one.             *)
MacroBodies(d, name) ==
    LET ms   == Shape[d].macros
        hits == {i \in 1..Len(ms) : ms[i].name = name /\ ms[i].body # Unparsable}
    IN  {ms[i].body : i \in {h \in hits : \A j \in hits : h <= j}}

(* The place a reference n of the cell at a has in document d; where there *)
(* is none, AbsoluteDim stops the program.                                 *)
RefOK(n, a) == ColOK(n.col, a[2]) /\ RowOK(n.row, a[3])
Target(d, n, a) ==
    <<d, CanonicalCol(Shape[d], n.col, a[2]), CanonicalRow(Shape[d], n.row, a[3])>>

(* A place by its column and row in document d. *)
Located(d, p) == <<d, p[1], p[2]>>
=============================================================================
