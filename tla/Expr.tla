-------------------------------- MODULE Expr --------------------------------
(***************************************************************************)
(* The data of the expression evaluator of src/main.c: the nodes of a      *)
(* parsed expression, the cells of a document, the table of functions and  *)
(* the pure helpers ReduceNode is built from.                              *)
(*                                                                         *)
(* A double is an integer or NaN: an infinity and a number the instance    *)
(* does not represent are NaN.  Strings are members of a set.  Division    *)
(* and the functions of libm are an operator of the instance.  No operator *)
(* is RECURSIVE, so that modules with proofs can use this one.             *)
(***************************************************************************)
EXTENDS Integers, Sequences

CONSTANTS
    NaN,            \* the one number that is not an integer
    Str,            \* the strings: cell texts, macro and file names
    EmptyStr,       \* the string ""
    IntMax,         \* INT32_MAX
    Scalar(_, _),   \* Scalar(f, args): quotients, fabs, ceil, pow, round, ...
    Percent(_)      \* Percent(n): the text pcent makes of n

ASSUME NaNAssumption == NaN \notin Int
ASSUME StrAssumption == EmptyStr \in Str
ASSUME IntMaxAssumption == IntMax \in Nat \ {0}

Num == Int \cup {NaN}

-----------------------------------------------------------------------------
(* Nodes and cells.  A cell of type EXPR keeps the tree ParseExpr makes of *)
(* its text, or Unparsable where ParseExpr returns a null pointer.         *)

ExprError == {"PARSE", "TYPE", "ARGC", "CYCLE", "SET", "SUB", "DNE", "FILE",
              "RELATIVE", "IMPL"}

NumberNode(n) == [type |-> "NUMBER", num |-> n]
StringNode(s) == [type |-> "STRING", str |-> s]
ErrorNode(e)  == [type |-> "ERROR", err |-> e]
CellNode(c, r) == [type |-> "CELL", col |-> c, row |-> r]
RangeNode(c1, r1, c2, r2) ==
    [type |-> "RANGE", fcol |-> c1, frow |-> r1, lcol |-> c2, lrow |-> r2]
XenoNode(f, c, r) == [type |-> "XENO", file |-> f, col |-> c, row |-> r]

NullCell   == [type |-> "NULL"]
Unparsable == [type |-> "UNPARSABLE"]
ExprCell(e) == [type |-> "EXPR", expr |-> e]

NumberNodes == [type : {"NUMBER"}, num : Num]
StringNodes == [type : {"STRING"}, str : Str]
ErrorNodes  == [type : {"ERROR"}, err : ExprError]
CellNodes   == [type : {"CELL"}, col : Int, row : Int]
RangeNodes  == [type : {"RANGE"}, fcol : Int, frow : Int, lcol : Int, lrow : Int]
XenoNodes   == [type : {"XENO"}, file : Str, col : Int, row : Int]

(* What ReduceNode leaves in its out parameter. *)
Value == NumberNodes \cup StringNodes \cup ErrorNodes \cup CellNodes
         \cup RangeNodes

(* A cell that is not an expression: what a reader of the cell may use. *)
FinalCell == {NullCell} \cup NumberNodes \cup StringNodes \cup ErrorNodes

-----------------------------------------------------------------------------
(* Row and column codes of a parsed reference, and what they stand for.    *)

PREV    == -1
THIS    == -2
NEXT    == -3
SUMMARY == -4
FOOT0   == -5

AbsoluteDim(dim, this) ==
    CASE dim = PREV -> this - 1
      [] dim = NEXT -> this + 1
      [] dim = THIS -> this
      [] OTHER      -> dim

(* The switch of AbsoluteDim has a case for dim and the result passes      *)
(* CheckGe(Dim, 0).                                                        *)
DimOK(dim, this) == dim >= NEXT /\ AbsoluteDim(dim, this) >= 0

(* WrapAdd slip: the sum loses its sign. *)
WrapUnsigned(a, b) == IF a > IntMax - b THEN (a - IntMax) + b - 1 ELSE a + b

(* The sum of an s32 and a count, in two's complement. *)
WrapAdd(a, b) ==
    IF a > IntMax - b THEN (a - IntMax) + (b - IntMax) - 2 ELSE a + b

(* (s32) of a double. *)
ToS32(n) == IF n = NaN THEN -IntMax - 1 ELSE n

CanonicalCol(shape, col, thisCol) ==
    IF col = SUMMARY
    THEN IF shape.summarized THEN shape.summaryCol ELSE 0
    ELSE AbsoluteDim(col, thisCol)
ColOK(col, thisCol) == col = SUMMARY \/ DimOK(col, thisCol)

CanonicalRow(shape, row, thisRow) ==
    IF row = SUMMARY
    THEN IF shape.summarized THEN shape.summaryRow ELSE shape.firstFootRow
    ELSE IF row <= FOOT0 THEN WrapAdd(shape.firstFootRow, FOOT0 - row)
    ELSE AbsoluteDim(row, thisRow)
RowOK(row, thisRow) == row = SUMMARY \/ row <= FOOT0 \/ DimOK(row, thisRow)

(* The corners of a range node of the cell at a, canonicalised. *)
CanonicalRange(shape, n, a) ==
    RangeNode(CanonicalCol(shape, n.fcol, a[2]), CanonicalRow(shape, n.frow, a[3]),
              CanonicalCol(shape, n.lcol, a[2]), CanonicalRow(shape, n.lrow, a[3]))
RangeOK(n, a) ==
    /\ ColOK(n.fcol, a[2]) /\ RowOK(n.frow, a[3])
    /\ ColOK(n.lcol, a[2]) /\ RowOK(n.lrow, a[3])

(* Clamp slip: no upper bound. *)
ClampBelow(x, hi) == IF x < 0 THEN 0 ELSE x

(* Clamp(0, x, hi) of util.h. *)
Clamp(x, hi) == IF x > hi THEN hi ELSE IF x < 0 THEN 0 ELSE x

(* A block of cells, column by column, each from its first row to its      *)
(* last: the order of the double loops of the code.                        *)
Block(fcol, frow, cols, rows) ==
    IF cols <= 0 \/ rows <= 0 THEN << >>
    ELSE [i \in 1..(cols * rows) |->
            <<fcol + (i - 1) \div rows, frow + ((i - 1) % rows)>>]

(* The cells a range makes an aggregate function visit. *)
RangeCells(shape, rng) ==
    LET fcol == Clamp(rng.fcol, shape.cols)
        frow == Clamp(rng.frow, shape.rows)
    IN  Block(fcol, frow, Clamp(rng.lcol, shape.cols) - fcol + 1,
                          Clamp(rng.lrow, shape.rows) - frow + 1)

(* bodycol/0, and bodycol/1, which reads the bytes of its range's first    *)
(* corner as a double: a row of 0x7fffffff makes it a NaN, every other row *)
(* a document can have makes it a denormal number.                         *)
BodyCol(shape, col) ==
    RangeNode(col, shape.firstBodyRow, col, shape.firstFootRow - 1)
ReadAsNumber(rng) == IF rng.frow = IntMax THEN ToS32(NaN) ELSE 0

-----------------------------------------------------------------------------
(* Functions.  Forms(f) has, for every form, the types of its arguments; a *)
(* variadic function repeats the types of its one form.                    *)

Variadic   == {"MAX", "MIN", "NUMBER", "SUM"}
Aggregates == {"AVERAGE", "COUNT", "MAX", "MIN", "SUM"}
ScalarFuncs == {"ABS", "CEIL", "FLOOR", "POW", "ROUND", "TRUNC"}
Func == Aggregates \cup ScalarFuncs
        \cup {"BODY_COL", "CELL", "COL", "MASK_SUM", "NUMBER", "PCENT", "ROW",
              "SIGN", "NULLFUNC"}

N1 == <<{"NUMBER"}>>
R1 == <<{"RANGE"}>>
N2 == <<{"NUMBER"}, {"NUMBER"}>>

Forms(f) ==
    CASE f \in {"ABS", "CEIL", "FLOOR", "PCENT", "SIGN"} -> {N1}
      [] f \in {"AVERAGE", "COUNT"}   -> {R1}
      [] f \in {"MAX", "MIN", "SUM"}  -> {<<{"NUMBER", "RANGE"}>>}
      [] f = "NUMBER"                 -> {<<{"NUMBER", "STRING", "RANGE"}>>}
      [] f \in {"ROUND", "TRUNC"}     -> {N1, N2}
      [] f \in {"COL", "ROW"}         -> {<< >>}
      [] f = "POW"                    -> {N2}
      [] f = "BODY_COL"               -> {<< >>, R1}
      [] f = "CELL"     -> {N2, <<{"STRING"}, {"NUMBER"}, {"NUMBER"}>>}
      [] f = "MASK_SUM" -> {<<{"NUMBER"}, {"NUMBER", "STRING"}, {"NUMBER"}>>}
      [] OTHER                        -> {}

(* The forms of f that take n arguments. *)
FormsOfArity(f, n) ==
    {form \in Forms(f) : IF f \in Variadic THEN n >= Len(form) ELSE n = Len(form)}

(* ERROR and CELL values match the type of no argument. *)
WellTyped(f, args) ==
    \E form \in FormsOfArity(f, Len(args)) :
        \A i \in 1..Len(args) :
            args[i].type \in form[IF i <= Len(form) THEN i ELSE Len(form)]

-----------------------------------------------------------------------------
(* Numbers.                                                                *)

InNum(x) == IF x \in Num THEN x ELSE NaN
ScalarOf(f, args) == InNum(Scalar(f, args))
PercentOf(n) == LET s == Percent(n) IN IF s \in Str THEN s ELSE EmptyStr

Negated(n) == IF n = NaN THEN NaN ELSE -n

MathOp == {"SET", "ADD", "SUB", "MUL", "DIV"}

Arith(acc, op, n) ==
    IF op = "SET" THEN n
    ELSE IF acc = NaN \/ n = NaN THEN NaN
    ELSE CASE op = "ADD" -> acc + n
           [] op = "SUB" -> acc - n
           [] op = "MUL" -> acc * n
           [] OTHER      -> ScalarOf("DIV", <<acc, n>>)

(* MathError slip: an error counts as an empty string does. *)
MathErrorLost(v) ==
    CASE v.type \in {"NUMBER", "ERROR"} \/ v = StringNode(EmptyStr) -> "NONE"
      [] OTHER -> "TYPE"

(* AccumulateMathOp: an error, or the accumulator after the operation.  An *)
(* empty string counts as a zero that nothing propagates through.          *)
MathError(v) ==
    CASE v.type = "ERROR" -> v.err
      [] v.type = "NUMBER" \/ v = StringNode(EmptyStr) -> "NONE"
      [] OTHER -> "TYPE"
MathValue(acc, op, v) ==
    CASE v.type = "NUMBER"      -> Arith(acc, op, v.num)
      [] op \in {"SET", "MUL"}  -> 0
      [] op \in {"ADD", "SUB"}  -> acc
      [] OTHER                  -> NaN

(* The accumulator of an aggregate function: how many numbers it has met   *)
(* and what it makes of them.  Max and Min are the macros of util.h.       *)
NoNumbers == [count |-> 0, num |-> 0]
Accumulate(f, acc, n) ==
    LET beats == acc.count > 0 /\ acc.num # NaN /\ n # NaN
                 /\ IF f = "MAX" THEN acc.num > n ELSE acc.num < n
    IN  [count |-> acc.count + 1,
         num |-> CASE f \notin {"MAX", "MIN"} -> Arith(acc.num, "ADD", n)
                   [] beats -> acc.num
                   [] OTHER -> n]
AggregateOf(f, acc) ==
    CASE f = "COUNT" -> acc.count
      [] f = "AVERAGE" /\ acc.count > 0 ->
            IF acc.num = NaN THEN NaN ELSE ScalarOf("DIV", <<acc.num, acc.count>>)
      [] OTHER -> acc.num

(* number(...): its first argument that is a number and not a NaN, or 0. *)
FirstNumber(args) ==
    LET hits == {i \in 1..Len(args) : args[i].type = "NUMBER" /\ args[i].num # NaN}
    IN  IF hits = {} THEN 0
        ELSE InNum(args[CHOOSE i \in hits : \A j \in hits : i <= j].num)

(* The value of a function that reads nothing but its arguments. *)
PureFuncs == ScalarFuncs \cup {"NUMBER", "PCENT", "SIGN"}
SignOf(n) == IF n = NaN \/ n = 0 THEN 0 ELSE IF n > 0 THEN 1 ELSE -1
PureValue(f, args) ==
    CASE f = "NUMBER" -> NumberNode(FirstNumber(args))
      [] f = "PCENT"  -> StringNode(PercentOf(args[1].num))
      [] f = "SIGN"   -> NumberNode(SignOf(args[1].num))
      [] OTHER -> NumberNode(ScalarOf(f, [i \in 1..Len(args) |-> args[i].num]))

-----------------------------------------------------------------------------
(* Between nodes and cells.                                                *)

(* SetAsNodeFrom slip: an empty cell reads as an empty string. *)
EmptyAsString(c) == IF c = NullCell THEN StringNode(EmptyStr) ELSE c
SetAsNodeFrom(c) == IF c = NullCell THEN ErrorNode("DNE") ELSE c

(* SetCellFromNode slip: its switch has no default. *)
SetAnyNode(v) == v
SetCellFromNode(v) ==
    IF v.type \in {"NUMBER", "STRING", "ERROR"} THEN v ELSE ErrorNode("SET")

(* CellsEq, where one of the cells is a number or a string. *)
CellsEq(a, b) ==
    /\ a.type = b.type
    /\ CASE a.type = "NUMBER" -> a.num = b.num /\ a.num # NaN
         [] a.type = "STRING" -> a.str = b.str
=============================================================================
