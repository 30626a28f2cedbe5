----------------------------- MODULE Denotation -----------------------------
(***************************************************************************)
(* What the expression of a cell denotes, told from the cells alone: no    *)
(* stack, no State of a cell, no loading of documents.                     *)
(*                                                                         *)
(* A value may use the cells that are final.  The one exception is a       *)
(* circular reference: a pending cell that itself needs, directly or       *)
(* through others, the cell being computed may be read, as an error by a   *)
(* plain reference and as no number by a loop over cells.                  *)
(*                                                                         *)
(* An expression has a set of outcomes: its value, and the cells that it   *)
(* needs.  The set is empty while the value depends on a pending cell that *)
(* is not circular, and where the program would stop.  The outcomes are a  *)
(* recursive function and not a RECURSIVE operator, so that modules with   *)
(* proofs can use this one.                                                *)
(***************************************************************************)
EXTENDS Sheets

(* What a reader sees of a cell: the cell, where it is final, or that it   *)
(* is circular, or that the reader needs it.                               *)
Circular == [type |-> "CIRCULAR"]
Needs(b) == [type |-> "NEEDS", at |-> b]
Needed   == [type : {"NEEDS"}, at : Addr]
Sight    == FinalCell \cup {Circular} \cup Needed
Outcome  == Value \cup Needed

(* What is seen of a place: nothing, where there is no cell. *)
At(see, p) == IF p \in Addr THEN see[p] ELSE {}

-----------------------------------------------------------------------------
(* What can be left to do for the cell at a: a node, the operands from the *)
(* next one on of a sum or a product, the arguments of a function that are *)
(* left, a loop over the arguments of an aggregate function, over the body *)
(* rows of mask_sum.                                                       *)

Of(n)                  == [k |-> "NODE", node |-> n]
SumOf(acc, rest)       == [k |-> "SUM", acc |-> acc, rest |-> rest]
FuncOf(f, done, rest)  == [k |-> "FUNC", func |-> f, done |-> done, rest |-> rest]
FoldOf(f, acc, as, s)  == [k |-> "FOLD", func |-> f, acc |-> acc, args |-> as, todo |-> s]
MaskOf(test, proto, trgt, row, acc) ==
    [k |-> "MASK", test |-> test, proto |-> proto, trgt |-> trgt, row |-> row, acc |-> acc]

Todo ==
    [k : {"NODE"}, node : Node \cup XenoNodes]
    \cup [k : {"SUM"}, acc : Num, rest : Seq([op : MathOp, node : Node])]
    \cup [k : {"FUNC"}, func : Func, done : Seq(Value), rest : Seq(Node)]
    \cup [k : {"FOLD"}, func : Aggregates, acc : [count : Nat, num : Num],
          args : Seq(NumberNodes \cup RangeNodes), todo : Seq(Int \X Int)]
    \cup [k : {"MASK"}, test : Int, proto : NumberNodes \cup StringNodes,
          trgt : Int, row : Int, acc : Num]

-----------------------------------------------------------------------------
(* In the rest, do[<<a, t>>] are the outcomes of what t leaves to do.      *)

(* A plain reference to the place p. *)
Read(c) ==
    CASE c.type = "NEEDS"    -> c
      [] c.type = "CIRCULAR" -> ErrorNode("SUB")
      [] OTHER               -> SetAsNodeFrom(c)
ReadInto(see, p) ==
    IF p[2] < 0 \/ p[3] < 0 THEN {ErrorNode("RELATIVE")}
    ELSE IF p \notin Addr THEN {ErrorNode("DNE")}
    ELSE {Read(c) : c \in see[p]}

NegationOf(v) ==
    CASE v.type = "NEEDS"  -> v
      [] v.type = "NUMBER" -> NumberNode(Negated(v.num))
      [] OTHER             -> ErrorNode("TYPE")

OfNode(see, do, a, n) ==
    CASE n.type \in {"NUMBER", "STRING"} -> {n}
      [] n.type = "CELL"  -> IF RefOK(n, a) THEN ReadInto(see, Target(a[1], n, a)) ELSE {}
      [] n.type = "XENO"  ->
            IF Resolve(a[1], n.file) = NoDoc THEN {ErrorNode("FILE")}
            ELSE IF RefOK(n, a) THEN ReadInto(see, Target(Resolve(a[1], n.file), n, a))
            ELSE {}
      [] n.type = "RANGE" -> IF RangeOK(n, a) THEN {CanonicalRange(Shape[a[1]], n, a)} ELSE {}
      [] n.type = "MACRO" ->
            IF MacroBodies(a[1], n.name) = {} THEN {ErrorNode("IMPL")}
            ELSE UNION {do[<<a, Of(m)>>] : m \in MacroBodies(a[1], n.name)}
      [] n.type = "TERM"  -> {NegationOf(v) : v \in do[<<a, Of(n.child)>>]}
      [] n.type = "SUM"   -> do[<<a, SumOf(0, <<[op |-> "SET", node |-> n.first]>> \o n.rest)>>]
      [] n.type = "FUNC"  -> do[<<a, FuncOf(n.func, << >>, n.args)>>]

(* An operand of a sum or a product that is v: an error ends it. *)
Operand(do, a, acc, op, v, rest) ==
    IF v.type = "NEEDS" THEN {v}
    ELSE IF MathError(v) # "NONE" THEN {ErrorNode(MathError(v))}
    ELSE do[<<a, SumOf(MathValue(acc, op, v), rest)>>]
OfSum(do, a, t) ==
    IF t.rest = << >> THEN {NumberNode(t.acc)}
    ELSE UNION {Operand(do, a, t.acc, Head(t.rest).op, v, Tail(t.rest)) :
                    v \in do[<<a, Of(Head(t.rest).node)>>]}

(* A function that has its arguments, and one whose next argument is v. *)
Applied(do, a, f, args) ==
    IF FormsOfArity(f, Len(args)) = {} THEN {ErrorNode("ARGC")}
    ELSE IF ~WellTyped(f, args) THEN {ErrorNode("TYPE")}
    ELSE CASE f \in PureFuncs -> {PureValue(f, args)}
           [] f = "ROW"       -> {NumberNode(a[3])}
           [] f = "COL"       -> {}
           [] f = "BODY_COL"  ->
                {BodyCol(Shape[a[1]], IF Len(args) = 0 THEN a[2] ELSE ReadAsNumber(args[1]))}
           [] f = "CELL"      ->
                IF Len(args) = 2 THEN {CellNode(ToS32(args[1].num), ToS32(args[2].num))}
                ELSE do[<<a, Of(XenoNode(args[1].str, ToS32(args[2].num), ToS32(args[3].num)))>>]
           [] f \in Aggregates -> do[<<a, FoldOf(f, NoNumbers, args, << >>)>>]
           [] f = "MASK_SUM"   ->
                do[<<a, MaskOf(ToS32(args[1].num), args[2], ToS32(args[3].num),
                               Shape[a[1]].firstBodyRow, 0)>>]
Argument(do, a, f, done, v, rest) ==
    IF v.type = "NEEDS" THEN {v} ELSE do[<<a, FuncOf(f, Append(done, v), rest)>>]
OfFunc(do, a, t) ==
    IF t.rest = << >> THEN Applied(do, a, t.func, t.done)
    ELSE UNION {Argument(do, a, t.func, t.done, v, Tail(t.rest)) :
                    v \in do[<<a, Of(Head(t.rest))>>]}

(* The places of a range come before the next argument. *)
Met(f, acc, c) == IF c.type = "NUMBER" THEN Accumulate(f, acc, c.num) ELSE acc
Passed(do, a, t, c) ==
    IF c.type = "NEEDS" THEN {c}
    ELSE do[<<a, FoldOf(t.func, Met(t.func, t.acc, c), t.args, Tail(t.todo))>>]
OfFold(see, do, a, t) ==
    IF t.todo # << >>
    THEN UNION {Passed(do, a, t, c) : c \in At(see, Located(a[1], Head(t.todo)))}
    ELSE IF t.args = << >> THEN {NumberNode(AggregateOf(t.func, t.acc))}
    ELSE LET v == Head(t.args) IN
         IF v.type = "NUMBER"
         THEN do[<<a, FoldOf(t.func, Accumulate(t.func, t.acc, v.num), Tail(t.args), << >>)>>]
         ELSE do[<<a, FoldOf(t.func, t.acc, Tail(t.args), RangeCells(Shape[a[1]], v))>>]

(* The body rows: where the test column matches, the target column counts. *)
LastMasked(d) ==
    IF Shape[d].firstFootRow < Shape[d].rows THEN Shape[d].firstFootRow ELSE Shape[d].rows
Added(acc, c) == IF c.type = "NUMBER" THEN Arith(acc, "ADD", c.num) ELSE acc
NextRow(do, a, t, acc) == do[<<a, MaskOf(t.test, t.proto, t.trgt, t.row + 1, acc)>>]
Counted(do, a, t, c) ==
    IF c.type = "NEEDS" THEN {c} ELSE NextRow(do, a, t, Added(t.acc, c))
OfTarget(see, do, a, t) ==
    UNION {Counted(do, a, t, c) : c \in At(see, <<a[1], t.trgt, t.row>>)}
Tested(see, do, a, t, c) ==
    IF c.type = "NEEDS" THEN {c}
    ELSE IF CellsEq(t.proto, c) THEN OfTarget(see, do, a, t)
    ELSE NextRow(do, a, t, t.acc)
OfMask(see, do, a, t) ==
    IF t.row >= LastMasked(a[1]) THEN {NumberNode(t.acc)}
    ELSE UNION {Tested(see, do, a, t, c) : c \in At(see, <<a[1], t.test, t.row>>)}

Means(see, do, a, t) ==
    CASE t.k = "NODE" -> OfNode(see, do, a, t.node)
      [] t.k = "SUM"  -> OfSum(do, a, t)
      [] t.k = "FUNC" -> OfFunc(do, a, t)
      [] t.k = "FOLD" -> OfFold(see, do, a, t)
      [] t.k = "MASK" -> OfMask(see, do, a, t)

Outcomes(see) == LET do[p \in Addr \X Todo] == Means(see, do, p[1], p[2]) IN do

-----------------------------------------------------------------------------
(* Where the cells are c, the pending cells that the one at a needs; and   *)
(* whether the one at b needs the one at a, directly or through others.    *)
PendingIn(c) == {a \in Addr : c[a].type = "EXPR"}
Look(c) == [b \in Addr |-> IF b \in PendingIn(c) THEN {Needs(b), Circular} ELSE {c[b]}]
Successors(c, a) ==
    {b \in PendingIn(c) : /\ c[a].expr # Unparsable
                          /\ Needs(b) \in Outcomes(Look(c))[<<a, Of(c[a].expr)>>]}
LeadsTo(c, b, a) ==
    \A S \in SUBSET PendingIn(c) :
        b \in S /\ (\A x \in S : Successors(c, x) \subseteq S) => a \in S

(* What the cell at a may use of the others, and what it may become. *)
Seen(c, a) ==
    [b \in Addr |-> CASE b \notin PendingIn(c) -> {c[b]}
                      [] b \in PendingIn(c) /\ LeadsTo(c, b, a) -> {Circular}
                      [] OTHER -> {}]
Denoted(c, a) ==
    IF a \notin PendingIn(c) THEN {}
    ELSE IF c[a].expr = Unparsable THEN {ErrorNode("PARSE")}
    ELSE {SetCellFromNode(v) : v \in Outcomes(Seen(c, a))[<<a, Of(c[a].expr)>>]}
=============================================================================
