----------------------------- MODULE MCEvaluator -----------------------------
(***************************************************************************)
(* Instances of Evaluator for TLC.  Document A has one column of three     *)
(* rows (a head, a body row, a foot, the summary in the foot); B has a     *)
(* single cell, no foot and no summary.  The cells of A, and the one of B, *)
(* are drawn from the pools of expressions below: every way to fill them   *)
(* is an initial state.                                                    *)
(***************************************************************************)
EXTENDS EvaluatorClaims

CONSTANTS A, B

MCIntMax == 2147483647
MCDoc == {A, B}
MCStr == {"", "s", "a", "b", "none", "m", "n", "%"}

(* round and trunc keep an integer, ceil and floor too. *)
MCScalar(f, as) ==
    CASE \E i \in 1..Len(as) : as[i] = NaN -> NaN
      [] f = "DIV"  -> IF as[2] = 0 THEN NaN ELSE as[1] \div as[2]
      [] f = "ABS"  -> IF as[1] < 0 THEN -as[1] ELSE as[1]
      [] OTHER      -> as[1]
MCPercent(n) == "%"

MCResolve(d, f) == CASE f = "a" -> A [] f = "b" -> B [] OTHER -> NoDoc

-----------------------------------------------------------------------------
(* Expressions.                                                            *)

Lit(n)      == NumberNode(n)
Ref(r)      == CellNode(0, r)
Neg(n)      == [type |-> "TERM", child |-> n]
Fn(f, as)   == [type |-> "FUNC", func |-> f, args |-> as]
Macro(m)    == [type |-> "MACRO", name |-> m]
Bin(x, o, y) == [type |-> "SUM", first |-> x, rest |-> <<[op |-> o, node |-> y]>>]
ColumnSum   == Fn("SUM", <<RangeNode(0, 0, 0, 9)>>)
BodySum     == Fn("SUM", <<Fn("BODY_COL", << >>)>>)

CoreA == {Ref(0), Ref(1), Ref(2), Bin(Ref(1), "ADD", Ref(2)),
          ColumnSum, BodySum, Macro("m"), XenoNode("b", 0, 0)}
CoreB == {XenoNode("a", SUMMARY, SUMMARY), Lit(2)}
Bodies == {Bin(Lit(1), "ADD", Ref(1)), Macro("n")}

(* One expression or more for every other case of ReduceNode: the first    *)
(* group stops the program, in its own cell or where its row has no more   *)
(* room above.                                                             *)
EdgeStops == {Fn("COL", << >>), XenoNode("b", PREV, 0), RangeNode(PREV, 0, 0, 0),
              CellNode(0, PREV), Fn("CELL", <<StringNode("a"), Lit(-9), Lit(0)>>),
              Fn("MASK_SUM", <<Lit(7), Lit(1), Lit(0)>>)}
EdgeRefs == {CellNode(0, FOOT0 - 1), CellNode(5, 0), XenoNode("b", NEXT, THIS),
             XenoNode("b", 0, FOOT0), XenoNode("b", 0, FOOT0 - 1),
             XenoNode("b", 0, -IntMax - 1), XenoNode("b", SUMMARY, SUMMARY),
             XenoNode("none", 0, 0), Macro("n"), Bin(Lit(6), "DIV", Ref(0)),
             Bin(Ref(1), "MUL", Ref(0)), Bin(Lit(1), "SUB", Fn("CELL", <<Lit(0), Lit(0)>>))}
EdgeFuncs == {Fn("ROW", << >>), Fn("ABS", << >>), Fn("ABS", <<Ref(0)>>),
              Fn("NULLFUNC", <<Ref(0)>>), Fn("PCENT", <<Ref(0)>>), Fn("SIGN", <<Ref(0)>>),
              Fn("NUMBER", <<Ref(0), Lit(4)>>), Fn("POW", <<Ref(1), Lit(1)>>),
              Fn("CELL", <<Ref(0), Lit(0), Lit(0)>>),
              Fn("CELL", <<StringNode("b"), Lit(0), Lit(0)>>),
              Fn("CELL", <<Lit(0), Lit(0)>>), Fn("BODY_COL", << >>),
              Fn("SUM", <<Fn("BODY_COL", <<RangeNode(0, 0, 0, 0)>>)>>)}
EdgeLoops == {Fn("MAX", <<Lit(3), RangeNode(0, THIS, 0, FOOT0), RangeNode(0, 0, 9, 9)>>),
              Fn("MIN", <<RangeNode(0, 0, 0, 1), Lit(3)>>),
              Fn("AVERAGE", <<RangeNode(0, 0, NEXT, 2)>>),
              Fn("COUNT", <<RangeNode(0, 2, 0, 0)>>), Fn("COUNT", <<RangeNode(0, 0, 0, 2)>>),
              Fn("MASK_SUM", <<Lit(0), Ref(0), Lit(0)>>),
              Fn("MASK_SUM", <<Lit(0), Ref(0), Lit(1)>>)}
EdgeHeads == {Ref(2), Neg(Ref(1)), CellNode(0, PREV), Bin(Lit(6), "DIV", Lit(0))}
EdgePool == EdgeStops \cup EdgeRefs \cup EdgeFuncs \cup EdgeLoops

Parts(n) ==
    CASE n.type = "TERM" -> {n.child}
      [] n.type = "SUM"  -> {n.first} \cup {n.rest[i].node : i \in 1..Len(n.rest)}
      [] n.type = "FUNC" -> {n.args[i] : i \in 1..Len(n.args)}
      [] OTHER           -> {}
WithParts(S) == S \cup UNION {Parts(n) : n \in S}

MCNode == WithParts(WithParts(CoreA \cup CoreB \cup Bodies \cup EdgeHeads \cup EdgePool))

MCMacros == <<[name |-> "m", body |-> Unparsable],
              [name |-> "m", body |-> Bin(Lit(1), "ADD", Ref(1))]>>

(* The table of a document: the initial size, doubled once at most in      *)
(* these instances.  The pools are checked with the initial sizes scaled   *)
(* down to two, FullShape has INIT_COL_COUNT and INIT_ROW_COUNT themselves. *)
Allocated(used, init) == IF used <= init THEN init ELSE 2 * init
InitCols == 2
InitRows == 2

MCShape ==
    [d \in {A, B} |->
        IF d = A
        THEN [cols |-> 1, rows |-> 3,
              tcols |-> Allocated(1, InitCols), trows |-> Allocated(3, InitRows),
              firstBodyRow |-> 1, firstFootRow |-> 2,
              summarized |-> TRUE, summaryCol |-> 0, summaryRow |-> 2,
              macros |-> MCMacros]
        ELSE [cols |-> 1, rows |-> 1,
              tcols |-> Allocated(1, InitCols), trows |-> Allocated(1, InitRows),
              firstBodyRow |-> 0, firstFootRow |-> IntMax,
              summarized |-> FALSE, summaryCol |-> 0, summaryRow |-> 0,
              macros |-> << >>]]

(* Document A with 16 rows that fill its table, and no blank line. *)
FullShape ==
    [MCShape EXCEPT ![A] = [cols |-> 1, rows |-> 16,
                            tcols |-> Allocated(1, 8), trows |-> Allocated(16, 16),
                            firstBodyRow |-> 0, firstFootRow |-> IntMax,
                            summarized |-> FALSE, summaryCol |-> 0, summaryRow |-> 0,
                            macros |-> << >>]]

(* The ways to fill the cells of A and B. *)
Filled(r0, r1, r2, b) ==
    {[p \in Addr |-> CASE p = <<A, 0, 0>> -> f[1]
                       [] p = <<A, 0, 1>> -> f[2]
                       [] p = <<A, 0, 2>> -> f[3]
                       [] p = <<B, 0, 0>> -> f[4]
                       [] OTHER -> NullCell] : f \in r0 \X r1 \X r2 \X b}
Exprs(S) == {ExprCell(e) : e \in S}

CoreCells == {NumberNode(1), StringNode("")} \cup Exprs(CoreA)
CoreContents == Filled(CoreCells, CoreCells, CoreCells, Exprs(CoreB))

EdgeContents ==
    Filled({NumberNode(0), NumberNode(4), StringNode("s"), StringNode("b"),
            ExprCell(Unparsable)} \cup Exprs(EdgeHeads),
           {NumberNode(4), StringNode("s")} \cup Exprs({Ref(2), ColumnSum}),
           Exprs(EdgePool),
           {NumberNode(2)} \cup Exprs({XenoNode("a", SUMMARY, SUMMARY)}))

FullContents ==
    {[p \in Addr |-> CASE p = <<A, 0, 1>> -> ExprCell(e)
                       [] p[1] = A /\ p[2] = 0 -> NumberNode(1)
                       [] p = <<B, 0, 0>> -> NumberNode(2)
                       [] OTHER -> NullCell] :
        e \in {BodySum, Ref(0)}}
ColContents  == Filled({NumberNode(1)}, {NumberNode(1)},
                       Exprs({Fn("ROW", << >>), Fn("COL", << >>)}), {NumberNode(2)})
AboveContents == Filled(Exprs({Ref(1), CellNode(0, PREV)}), {NumberNode(1)},
                        Exprs({CellNode(0, PREV)}), {NumberNode(2)})
ErrorContents == Filled({ExprCell(Unparsable), NumberNode(1)}, Exprs({Ref(0)}),
                        Exprs({Ref(1)}), {NumberNode(2)})

MCArgLists == {<<A, NoDoc, B>>, <<B, A>>}
=============================================================================
