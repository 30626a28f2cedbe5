--------------------------- MODULE EvaluatorProofs ---------------------------
(***************************************************************************)
(* What holds of the evaluator for every set of documents, every content   *)
(* of their cells and every list of arguments: its inductive invariant;    *)
(* what is printed; how deep the evaluation can recurse; what becomes of   *)
(* references that go wrong.                                               *)
(***************************************************************************)
EXTENDS EvaluatorProps, SequenceTheorems, FiniteSetTheorems, NumberLemmas, TLAPS

(* Where the program is inside of an expression, an EvaluateCell call is   *)
(* open; main and EvaluateDocument's loop have none open.  Until a document *)
(* is printed, main has not finished with its argument.                    *)
ControlInv ==
    /\ ctl.mode \in {"REDUCE", "VALUE", "APPLY", "LOOP"} => calls # << >>
    /\ ctl.mode \in {"MAIN", "SCAN", "EXIT"} => calls = << >>
    /\ ctl.mode \notin {"MAIN", "EXIT"} => args # << >>

IInv == TypeOK /\ CallsInv /\ OnlyLoaded /\ ReadsFinal /\ ControlInv

-----------------------------------------------------------------------------
(* Values.                                                                 *)

(* The node constructors make nodes of their types. *)
LEMMA NodeTypes ==
    /\ \A n \in Num : NumberNode(n) \in NumberNodes /\ NumberNode(n) \in Value
    /\ \A e \in ExprError : ErrorNode(e) \in ErrorNodes /\ ErrorNode(e) \in Value
    /\ \A s \in Str : StringNode(s) \in StringNodes /\ StringNode(s) \in Value
    /\ \A c, r \in Int : CellNode(c, r) \in Value
    /\ \A c1, r1, c2, r2 \in Int : RangeNode(c1, r1, c2, r2) \in RangeNodes
    /\ \A c1, r1, c2, r2 \in Int : RangeNode(c1, r1, c2, r2) \in Value
    /\ \A f \in Str, c, r \in Int : XenoNode(f, c, r) \in XenoNodes
  BY DEF NumberNode, ErrorNode, StringNode, CellNode, RangeNode, XenoNode, NumberNodes,
         ErrorNodes, StringNodes, CellNodes, RangeNodes, XenoNodes, Value

(* The type of a value tells which fields it has. *)
LEMMA ValueFields ==
    ASSUME NEW v \in Value
    PROVE  /\ v.type = "NUMBER" => v.num \in Num /\ v \in NumberNodes
           /\ v.type = "STRING" => v.str \in Str /\ v \in StringNodes
           /\ v.type = "ERROR" => v.err \in ExprError /\ v \in ErrorNodes
           /\ v.type = "RANGE" => v \in RangeNodes
           /\ v.type \in {"NUMBER", "STRING", "ERROR", "RANGE", "CELL"}
  BY DEF Value, NumberNodes, StringNodes, ErrorNodes, CellNodes, RangeNodes

(* An arithmetic step of AccumulateMathOp yields a number. *)
LEMMA ArithType ==
    ASSUME NEW a \in Num, NEW op, NEW n \in Num
    PROVE  Arith(a, op, n) \in Num
  <1>1. \A x : InNum(x) \in Num
    BY DEF InNum, Num
  <1>2. ScalarOf("DIV", <<a, n>>) \in Num
    BY <1>1 DEF ScalarOf
  <1>3. CASE a = NaN \/ n = NaN
    BY <1>3 DEF Arith, Num
  <1>4. CASE a # NaN /\ n # NaN
    <2>1. a \in Int /\ n \in Int
      BY <1>4 DEF Num
    <2>2. a + n \in Num /\ a - n \in Num /\ a * n \in Num
      BY <2>1 DEF Num
    <2> QED BY <1>2, <1>4, <2>2 DEF Arith
  <1> QED BY <1>3, <1>4

(* AccumulateMathOp yields an error code or a number. *)
LEMMA MathType ==
    ASSUME NEW a \in Num, NEW op, NEW v \in Value
    PROVE  /\ MathError(v) # "NONE" => MathError(v) \in ExprError
           /\ MathValue(a, op, v) \in Num
  <1>1. MathError(v) # "NONE" => MathError(v) \in ExprError
    BY ValueFields DEF MathError, ExprError
  <1>2. 0 \in Num /\ NaN \in Num
    BY DEF Num
  <1>3. v.type = "NUMBER" => Arith(a, op, v.num) \in Num
    BY ArithType, ValueFields
  <1>4. MathValue(a, op, v) \in Num
    BY <1>2, <1>3 DEF MathValue
  <1> QED BY <1>1, <1>4

(* Negation yields a number. *)
LEMMA NegatedType ==
    ASSUME NEW n \in Num PROVE Negated(n) \in Num
  BY DEF Negated, Num

AccType == [count : Nat, num : Num]

(* A number more keeps the accumulator of an aggregate function typed. *)
LEMMA AccumulateType ==
    ASSUME NEW f, NEW acc \in AccType, NEW n \in Num
    PROVE  Accumulate(f, acc, n) \in AccType
  <1>1. acc.count + 1 \in Nat /\ acc.num \in Num
    BY DEF AccType
  <1>2. Arith(acc.num, "ADD", n) \in Num
    BY <1>1, ArithType
  <1> QED BY <1>1, <1>2 DEF Accumulate, AccType

(* What an aggregate function makes of its accumulator is a number. *)
LEMMA AggregateType ==
    ASSUME NEW f, NEW acc \in AccType
    PROVE  AggregateOf(f, acc) \in Num
  <1>1. \A x : InNum(x) \in Num
    BY DEF InNum, Num
  <1>2. ScalarOf("DIV", <<acc.num, acc.count>>) \in Num
    BY <1>1 DEF ScalarOf
  <1>3. acc.count \in Num /\ acc.num \in Num /\ NaN \in Num
    BY DEF AccType, Num
  <1> QED BY <1>2, <1>3 DEF AggregateOf

-----------------------------------------------------------------------------
(* Cells.                                                                  *)

(* SetCellFromNode stores a final cell, whatever value it is given. *)
LEMMA StoredType ==
    ASSUME NEW v \in Value
    PROVE  SetCellFromNode(v) \in FinalCell
  BY ValueFields, NodeTypes DEF SetCellFromNode, FinalCell, ExprError

(* What SetCellFromNode stores is never an expression. *)
LEMMA StoredIsFinal == \A v : SetCellFromNode(v).type # "EXPR"
  BY DEF SetCellFromNode, ErrorNode

(* What SetAsNodeFrom reads of a final cell is a value. *)
LEMMA ReadType ==
    ASSUME NEW c \in FinalCell
    PROVE  SetAsNodeFrom(c) \in Value
  BY NodeTypes DEF SetAsNodeFrom, FinalCell, Value, ExprError

(* The type of a cell tells which fields it has. *)
LEMMA CellTypes ==
    ASSUME NEW c \in Cell
    PROVE  /\ c.type # "EXPR" => c \in FinalCell
           /\ c.type = "EXPR" => c.expr \in Node \cup {Unparsable}
           /\ c.type = "NUMBER" => c.num \in Num
  BY DEF Cell, FinalCell, NullCell, NumberNodes, StringNodes, ErrorNodes

-----------------------------------------------------------------------------
(* References.                                                             *)

(* The parts of the address of a cell. *)
LEMMA AddrType ==
    ASSUME NEW a \in Addr
    PROVE  a \in Place /\ a[1] \in Doc /\ a[2] \in Nat /\ a[3] \in Nat
  BY ShapeAssumption DEF Addr, Place

(* Canonical columns and rows are integers. *)
LEMMA CanonicalType ==
    ASSUME NEW d \in Doc, NEW x \in Int, NEW this \in Nat
    PROVE  /\ CanonicalCol(Shape[d], x, this) \in Int
           /\ CanonicalRow(Shape[d], x, this) \in Int
  <1>1. AbsoluteDim(x, this) \in Int
    BY DEF AbsoluteDim, PREV, NEXT, THIS
  <1>2. /\ Shape[d].firstFootRow \in Int /\ Shape[d].summaryCol \in Int
        /\ Shape[d].summaryRow \in Int
    BY ShapeAssumption, IntMaxAssumption
  <1>3. WrapAdd(Shape[d].firstFootRow, FOOT0 - x) \in Int
    BY <1>2, IntMaxAssumption DEF WrapAdd, FOOT0
  <1> QED BY <1>1, <1>2, <1>3 DEF CanonicalCol, CanonicalRow

(* A reference stands for a place in the document it names. *)
LEMMA TargetType ==
    ASSUME NEW d \in Doc, NEW a \in Addr, NEW n, n.col \in Int, n.row \in Int
    PROVE  /\ Target(d, n, a) \in Place
           /\ Target(d, n, a)[1] = d
  BY AddrType, CanonicalType DEF Target, Place

(* A canonical range is a value. *)
LEMMA RangeType ==
    ASSUME NEW d \in Doc, NEW a \in Addr, NEW n \in RangeNodes
    PROVE  CanonicalRange(Shape[d], n, a) \in Value
  BY AddrType, CanonicalType, NodeTypes DEF CanonicalRange, RangeNodes

(* A number converted to s32 is an integer. *)
LEMMA ToS32Type ==
    ASSUME NEW n \in Num PROVE ToS32(n) \in Int
  BY IntMaxAssumption DEF ToS32, Num

(* The range of a body column is a value. *)
LEMMA BodyColType ==
    ASSUME NEW d \in Doc, NEW c \in Int
    PROVE  BodyCol(Shape[d], c) \in Value
  <1>1. Shape[d].firstBodyRow \in Int /\ Shape[d].firstFootRow - 1 \in Int
    BY ShapeAssumption, IntMaxAssumption
  <1> QED BY <1>1, NodeTypes DEF BodyCol

(* A block of cells is a sequence of columns and rows. *)
LEMMA BlockType ==
    ASSUME NEW fcol \in Int, NEW frow \in Int, NEW cols \in Int, NEW rows \in Int
    PROVE  Block(fcol, frow, cols, rows) \in Seq(Int \X Int)
  <1>1. CASE cols <= 0 \/ rows <= 0
    BY <1>1 DEF Block
  <1>2. CASE cols > 0 /\ rows > 0
    <2>1. cols * rows \in Nat
      BY <1>2
    <2>2. \A i \in 1..(cols * rows) :
            fcol + (i - 1) \div rows \in Int /\ frow + ((i - 1) % rows) \in Int
      BY <1>2
    <2> DEFINE p(i) == <<fcol + (i - 1) \div rows, frow + ((i - 1) % rows)>>
    <2>3. \A i \in 1..(cols * rows) : p(i) \in Int \X Int
      BY <2>2
    <2>4. [i \in 1..(cols * rows) |-> p(i)] \in Seq(Int \X Int)
      <3> HIDE DEF p
      <3> QED BY <2>1, <2>3
    <2>5. ~(cols <= 0 \/ rows <= 0)
      BY <1>2
    <2>6. Block(fcol, frow, cols, rows) = [i \in 1..(cols * rows) |-> p(i)]
      BY <2>5, Zenon DEF Block
    <2> QED BY <2>4, <2>6, Zenon
  <1> QED BY <1>1, <1>2

(* So are the cells of a range. *)
LEMMA RangeCellsType ==
    ASSUME NEW d \in Doc, NEW rng \in RangeNodes
    PROVE  RangeCells(Shape[d], rng) \in Seq(Int \X Int)
  <1>1. \A x \in Int, hi \in Nat : Clamp(x, hi) \in Int
    BY DEF Clamp
  <1>2. Shape[d].cols \in Nat /\ Shape[d].rows \in Nat
    BY ShapeAssumption
  <1>3. rng.fcol \in Int /\ rng.frow \in Int /\ rng.lcol \in Int /\ rng.lrow \in Int
    BY DEF RangeNodes
  <1> DEFINE fcol == Clamp(rng.fcol, Shape[d].cols)
             frow == Clamp(rng.frow, Shape[d].rows)
             cols == Clamp(rng.lcol, Shape[d].cols) - fcol + 1
             rows == Clamp(rng.lrow, Shape[d].rows) - frow + 1
  <1>4. fcol \in Int /\ frow \in Int
    BY <1>1, <1>2, <1>3
  <1>5. cols \in Int /\ rows \in Int
    <2>1. Clamp(rng.lcol, Shape[d].cols) \in Int /\ Clamp(rng.lrow, Shape[d].rows) \in Int
      BY <1>1, <1>2, <1>3
    <2> HIDE DEF fcol, frow
    <2> QED BY <1>4, <2>1
  <1>6. Block(fcol, frow, cols, rows) \in Seq(Int \X Int)
    <2> HIDE DEF fcol, frow, cols, rows
    <2> QED BY <1>4, <1>5, BlockType
  <1> QED BY <1>6, Zenon DEF RangeCells

-----------------------------------------------------------------------------
(* Expressions.                                                            *)

(* The parts of a node have the types its reduction relies on. *)
LEMMA NodeParts ==
    ASSUME NEW n \in Node \cup XenoNodes
    PROVE  /\ n.type \in {"NUMBER", "STRING"} => n \in Value
           /\ n.type = "RANGE" => n \in RangeNodes
           /\ n.type = "MACRO" => n.name \in Str
           /\ n.type = "CELL" => n.col \in Int /\ n.row \in Int
           /\ n.type = "XENO" => n.file \in Str /\ n.col \in Int /\ n.row \in Int
           /\ n.type = "TERM" => n.child \in Node
           /\ n.type = "SUM" => n.first \in Node /\ n.rest \in Operands
           /\ n.type = "FUNC" => n.func \in Func /\ n.args \in Seq(Node)
  <1>1. IsNode(n)
    BY NodeAssumption DEF IsNode
  <1> QED BY <1>1 DEF IsNode, NumberNodes, StringNodes, CellNodes, RangeNodes,
                     XenoNodes, Value

(* The body of a macro is a node. *)
LEMMA MacroBodyType ==
    ASSUME NEW d \in Doc, NEW name \in Str
    PROVE  MacroBodies(d, name) \subseteq Node
  <1> DEFINE ms == Shape[d].macros
  <1>1. ms \in Seq([name : Str, body : Node \cup {Unparsable}])
    BY ShapeAssumption
  <1>2. \A i \in 1..Len(ms) : ms[i].body \in Node \cup {Unparsable}
    <2> HIDE DEF ms
    <2>1. \A i \in 1..Len(ms) : ms[i] \in [name : Str, body : Node \cup {Unparsable}]
      BY <1>1, ElementOfSeq
    <2> QED BY <2>1
  <1>3. \A b \in MacroBodies(d, name) :
          \E i \in 1..Len(ms) : b = ms[i].body /\ ms[i].body # Unparsable
    BY Zenon DEF MacroBodies
  <1> QED BY <1>2, <1>3

-----------------------------------------------------------------------------
(* Functions, of arguments that match one of their forms.                  *)

(* A function that only reads its arguments yields a value. *)
LEMMA PureValueType ==
    ASSUME NEW f, NEW as
    PROVE  PureValue(f, as) \in Value
  <1>1. \A x : InNum(x) \in Num
    BY DEF InNum, Num
  <1>2. FirstNumber(as) \in Num
    <2>1. 0 \in Num
      BY DEF Num
    <2> QED BY <1>1, <2>1 DEF FirstNumber
  <1>3. \A n : PercentOf(n) \in Str
    BY StrAssumption DEF PercentOf
  <1>4. \A n : SignOf(n) \in Num
    BY DEF SignOf, Num
  <1>5. \A xs : ScalarOf(f, xs) \in Num
    BY <1>1 DEF ScalarOf
  <1> DEFINE scalar == ScalarOf(f, [i \in 1..Len(as) |-> as[i].num])
  <1>6. scalar \in Num
    BY <1>5
  <1>7. PureValue(f, as) \in {NumberNode(FirstNumber(as)), StringNode(PercentOf(as[1].num)),
                              NumberNode(SignOf(as[1].num)), NumberNode(scalar)}
    BY Zenon DEF PureValue
  <1> HIDE DEF scalar
  <1> QED BY <1>2, <1>3, <1>4, <1>6, <1>7, NodeTypes

(* The arguments have the types of some form, its last type repeated. *)
LEMMA FormOf ==
    ASSUME NEW f, NEW as \in Seq(Value), WellTyped(f, as)
    PROVE  \E form \in Forms(f) :
              /\ f \notin Variadic => Len(as) = Len(form)
              /\ \A i \in 1..Len(as) :
                    /\ i <= Len(form) => as[i].type \in form[i]
                    /\ ~(i <= Len(form)) => as[i].type \in form[Len(form)]
  <1>1. PICK form \in FormsOfArity(f, Len(as)) :
            \A i \in 1..Len(as) :
                as[i].type \in form[IF i <= Len(form) THEN i ELSE Len(form)]
    BY Zenon DEF WellTyped
  <1>2. form \in Forms(f) /\ (f \notin Variadic => Len(as) = Len(form))
    BY DEF FormsOfArity
  <1> QED BY <1>1, <1>2

(* An argument has the type that stands at its place in the form. *)
LEMMA ArgOf ==
    ASSUME NEW as \in Seq(Value), NEW form, Len(as) = Len(form),
           \A i \in 1..Len(as) : i <= Len(form) => as[i].type \in form[i],
           NEW i \in 1..Len(as)
    PROVE  as[i] \in Value /\ as[i].type \in form[i]
  <1>1. i <= Len(form)
    BY LenProperties
  <1>2. as[i].type \in form[i]
    BY <1>1, Zenon
  <1> QED BY <1>2, ElementOfSeq

(* The arguments of a well typed call of cell. *)
LEMMA CellArgs ==
    ASSUME NEW as \in Seq(Value), WellTyped("CELL", as)
    PROVE  /\ Len(as) \in {2, 3}
           /\ Len(as) = 2 => as[1].num \in Num /\ as[2].num \in Num
           /\ Len(as) = 3 => as[1].str \in Str /\ as[2].num \in Num /\ as[3].num \in Num
  <1>1. Forms("CELL") = {N2, <<{"STRING"}, {"NUMBER"}, {"NUMBER"}>>}
    BY DEF Forms, Aggregates
  <1>2. PICK form \in Forms("CELL") :
            /\ Len(as) = Len(form)
            /\ \A i \in 1..Len(as) : i <= Len(form) => as[i].type \in form[i]
    BY FormOf DEF Variadic
  <1>3. \A i \in 1..Len(as) : as[i] \in Value /\ as[i].type \in form[i]
    BY <1>2, ArgOf
  <1>4. CASE form = N2
    <2>1. Len(form) = 2 /\ form[1] = {"NUMBER"} /\ form[2] = {"NUMBER"}
      BY <1>4 DEF N2
    <2>2. 1 \in 1..Len(as) /\ 2 \in 1..Len(as)
      BY <1>2, <2>1
    <2>3. as[1] \in Value /\ as[1].type \in form[1] /\ as[2] \in Value /\ as[2].type \in form[2]
      BY <1>3, <2>2, Zenon
    <2>4. as[1].type = "NUMBER" /\ as[2].type = "NUMBER"
      BY <2>1, <2>3
    <2>5. as[1].num \in Num /\ as[2].num \in Num
      BY <2>3, <2>4, ValueFields
    <2>6. Len(as) = 2 /\ Len(as) # 3
      BY <1>2, <2>1
    <2> QED BY <2>5, <2>6, Zenon
  <1>5. CASE form = <<{"STRING"}, {"NUMBER"}, {"NUMBER"}>>
    <2>1. /\ Len(form) = 3
          /\ form[1] = {"STRING"} /\ form[2] = {"NUMBER"} /\ form[3] = {"NUMBER"}
      BY <1>5
    <2>2. 1 \in 1..Len(as) /\ 2 \in 1..Len(as) /\ 3 \in 1..Len(as)
      BY <1>2, <2>1
    <2>3. /\ as[1] \in Value /\ as[1].type \in form[1]
          /\ as[2] \in Value /\ as[2].type \in form[2]
          /\ as[3] \in Value /\ as[3].type \in form[3]
      BY <1>3, <2>2, Zenon
    <2>4. as[1].type = "STRING" /\ as[2].type = "NUMBER" /\ as[3].type = "NUMBER"
      BY <2>1, <2>3
    <2>5. as[1].str \in Str /\ as[2].num \in Num /\ as[3].num \in Num
      BY <2>3, <2>4, ValueFields
    <2>6. Len(as) = 3 /\ Len(as) # 2
      BY <1>2, <2>1
    <2> QED BY <2>5, <2>6, Zenon
  <1> QED BY <1>1, <1>4, <1>5

(* The arguments of a well typed call of mask_sum. *)
LEMMA MaskArgs ==
    ASSUME NEW as \in Seq(Value), WellTyped("MASK_SUM", as)
    PROVE  /\ as[1].num \in Num /\ as[3].num \in Num
           /\ as[2] \in NumberNodes \cup StringNodes
  <1>1. Forms("MASK_SUM") = {<<{"NUMBER"}, {"NUMBER", "STRING"}, {"NUMBER"}>>}
    BY DEF Forms, Aggregates
  <1>2. PICK form \in Forms("MASK_SUM") :
            /\ Len(as) = Len(form)
            /\ \A i \in 1..Len(as) : i <= Len(form) => as[i].type \in form[i]
    BY FormOf DEF Variadic
  <1>3. /\ Len(form) = 3
        /\ form[1] = {"NUMBER"} /\ form[2] = {"NUMBER", "STRING"} /\ form[3] = {"NUMBER"}
    <2>1. form = <<{"NUMBER"}, {"NUMBER", "STRING"}, {"NUMBER"}>>
      BY <1>1, <1>2
    <2> QED BY <2>1
  <1>4. 1 \in 1..Len(as) /\ 2 \in 1..Len(as) /\ 3 \in 1..Len(as)
    BY <1>2, <1>3
  <1>5. \A i \in 1..Len(as) : as[i] \in Value /\ as[i].type \in form[i]
    BY <1>2, ArgOf
  <1>6. /\ as[1] \in Value /\ as[1].type \in form[1]
        /\ as[2] \in Value /\ as[2].type \in form[2]
        /\ as[3] \in Value /\ as[3].type \in form[3]
    BY <1>4, <1>5, Zenon
  <1> QED BY <1>3, <1>6, ValueFields

(* A sequence whose elements are in T is a sequence over T. *)
LEMMA SeqOfElements ==
    ASSUME NEW S, NEW s \in Seq(S), NEW T, \A i \in 1..Len(s) : s[i] \in T
    PROVE  s \in Seq(T)
  <1>1. s \in [1..Len(s) -> T] /\ Len(s) \in Nat
    BY LenProperties
  <1> QED BY <1>1, SeqDef

(* An aggregate function is only given numbers and ranges. *)
LEMMA AggregateArgs ==
    ASSUME NEW f \in Aggregates, NEW as \in Seq(Value), WellTyped(f, as)
    PROVE  as \in Seq(NumberNodes \cup RangeNodes)
  <1>1. \A form \in Forms(f) : form = R1 \/ form = <<{"NUMBER", "RANGE"}>>
    BY DEF Forms, Aggregates
  <1>2. \A form \in Forms(f) : Len(form) = 1 /\ form[1] \subseteq {"NUMBER", "RANGE"}
    BY <1>1 DEF R1
  <1>3. PICK form \in Forms(f) :
            \A i \in 1..Len(as) :
                /\ i <= Len(form) => as[i].type \in form[i]
                /\ ~(i <= Len(form)) => as[i].type \in form[Len(form)]
    BY FormOf
  <1>4. \A i \in 1..Len(as) : as[i].type \in form[1]
    <2> TAKE i \in 1..Len(as)
    <2>1. /\ i <= Len(form) => as[i].type \in form[i]
          /\ ~(i <= Len(form)) => as[i].type \in form[Len(form)]
      BY <1>3, Zenon
    <2>2. Len(form) = 1
      BY <1>2
    <2>3. i <= Len(form) => i = 1
      BY <2>2
    <2> QED BY <2>1, <2>2, <2>3, Zenon
  <1>5. \A i \in 1..Len(as) : as[i] \in NumberNodes \cup RangeNodes
    <2> TAKE i \in 1..Len(as)
    <2>1. as[i] \in Value
      BY ElementOfSeq
    <2>2. as[i].type \in {"NUMBER", "RANGE"}
      BY <1>2, <1>4
    <2> QED BY <2>1, <2>2, ValueFields
  <1> QED BY <1>5, SeqOfElements

-----------------------------------------------------------------------------
(* Sequences: the two ends of a stack.                                     *)

(* The head and the tail of a sequence that is not empty. *)
LEMMA HeadTail ==
    ASSUME NEW S, NEW s \in Seq(S), s # << >>
    PROVE  Head(s) \in S /\ Tail(s) \in Seq(S)
  BY HeadTailProperties

(* A sequence with an element put before it. *)
LEMMA Cons ==
    ASSUME NEW S, NEW x \in S, NEW s \in Seq(S)
    PROVE  /\ <<x>> \o s \in Seq(S)
           /\ <<x>> \o s # << >>
           /\ Head(<<x>> \o s) = x
  <1>1. <<x>> \in Seq(S)
    OBVIOUS
  <1>2. <<x>> \o s \in Seq(S) /\ Len(<<x>> \o s) = 1 + Len(s)
    BY <1>1, ConcatProperties
  <1>3. (<<x>> \o s)[1] = x
    BY <1>1, ConcatProperties
  <1> QED BY <1>2, <1>3

-----------------------------------------------------------------------------
(* What the program does next, and what it has open.                       *)

(* What the program may do next inside of an expression, apart from asking *)
(* for a cell.                                                             *)
Onward == {c \in Control : c.mode \in {"REDUCE", "VALUE", "APPLY", "LOOP", "ABORT"}}

(* The constructors of control states make control states. *)
LEMMA ControlTypes ==
    /\ \A n \in Node \cup XenoNodes : Reduce(n) \in Onward
    /\ \A v \in Value : Give(v) \in Onward
    /\ \A e \in ExprError : Fail(e) \in Onward
    /\ \A f \in Func, as \in Seq(Value) : Apply(f, as) \in Onward
    /\ Plain("LOOP") \in Onward /\ Plain("ABORT") \in Onward
    /\ \A p \in Place : Evaluate(p) \in Control
    /\ \A ok \in BOOLEAN : Returned(ok) \in Control
    /\ \A m \in {"MAIN", "SCAN", "LOOP", "EXIT", "ABORT"} : Plain(m) \in Control
  BY NodeTypes DEF Onward, Control, Reduce, Give, Fail, Evaluate, Returned, Apply, Plain

(* The mode of a control state tells which fields it has. *)
LEMMA ControlFields ==
    ASSUME NEW c \in Control
    PROVE  /\ c.mode = "REDUCE" => c.node \in Node \cup XenoNodes
           /\ c.mode = "VALUE" => c.value \in Value
           /\ c.mode = "EVALUATE" => c.at \in Place
           /\ c.mode = "RETURNED" => c.ok \in BOOLEAN
           /\ c.mode = "APPLY" => c.func \in Func /\ c.args \in Seq(Value)
  BY DEF Control

(* The kind of a frame tells which fields it has. *)
LEMMA FrameOf ==
    ASSUME NEW f \in Frame
    PROVE  /\ f.k = "MATH" => f \in MathFrame
           /\ f.k = "ARGS" => f \in ArgsFrame
           /\ f.k = "INTO" => f \in IntoFrame
           /\ f.k = "FOLD" => f \in FoldFrame
           /\ f.k = "MASK" => f \in MaskFrame
  BY DEF Frame, NegateFrame, MathFrame, ArgsFrame, IntoFrame, FoldFrame, MaskFrame

-----------------------------------------------------------------------------
(* The innermost call.                                                     *)

(* The innermost call, its cell and its work. *)
LEMMA TopType ==
    ASSUME calls \in Seq(Call), calls # << >>
    PROVE  /\ Len(calls) \in Nat /\ Len(calls) >= 1
           /\ Top \in Call /\ Work \in Seq(Frame)
           /\ Here \in Addr /\ D \in Doc /\ Here[2] \in Nat /\ Here[3] \in Nat
  <1>1. Len(calls) \in Nat /\ Len(calls) >= 1
    BY EmptySeq, LenProperties
  <1>2. Top \in Call
    BY <1>1, ElementOfSeq DEF Top
  <1>3. Here \in Addr /\ Work \in Seq(Frame)
    BY <1>2 DEF Call, Here, Work
  <1> QED BY <1>1, <1>2, <1>3, AddrType DEF D

(* A change of the open work leaves the chain of calls as it is. *)
LEMMA SetWorkKeeps ==
    ASSUME calls \in Seq(Call), calls # << >>, NEW w \in Seq(Frame), SetWork(w)
    PROVE  /\ calls' \in Seq(Call) /\ calls' # << >>
           /\ Len(calls') = Len(calls)
           /\ Top' = [at |-> Here, work |-> w]
           /\ \A i \in 1..Len(calls) : calls'[i].at = calls[i].at
           /\ \A i \in 1..(Len(calls) - 1) : calls'[i] = calls[i]
  <1>1. Len(calls) \in Nat /\ Len(calls) >= 1 /\ Top \in Call /\ Here \in Addr
    BY TopType
  <1>2. calls' = [calls EXCEPT ![Len(calls)] = [Top EXCEPT !.work = w]]
    BY DEF SetWork, Top
  <1>3. [Top EXCEPT !.work = w] = [at |-> Here, work |-> w]
    BY <1>1 DEF Call, Here
  <1>4. [at |-> Here, work |-> w] \in Call
    BY <1>1 DEF Call
  <1>5. calls' \in Seq(Call) /\ Len(calls') = Len(calls)
    BY <1>1, <1>2, <1>3, <1>4, ExceptSeq
  <1>6. \A i \in 1..Len(calls) :
          calls'[i] = IF i = Len(calls) THEN [at |-> Here, work |-> w] ELSE calls[i]
    BY <1>1, <1>2, <1>3, LenProperties
  <1>7. Top' = [at |-> Here, work |-> w]
    BY <1>1, <1>5, <1>6 DEF Top
  <1> QED BY <1>1, <1>5, <1>6, <1>7, EmptySeq DEF Here, Top

(* A step of ReduceNode touches no cell of a loaded document and no call   *)
(* but the innermost, of which it changes the open work only.              *)
Keeps ==
    /\ UNCHANGED <<files, state, args, scan, output>>
    /\ cell' \in [Addr -> Cell]
    /\ loaded \subseteq loaded' /\ loaded' \subseteq Doc
    /\ \A a \in Addr : a[1] \in loaded => cell'[a] = cell[a]
    /\ \A a \in Addr : IF a[1] \notin loaded' THEN cell'[a] = NullCell
                       ELSE a[1] \notin loaded => cell'[a] = files[a]

Chain == calls' = calls \/ \E w \in Seq(Frame) : SetWork(w)

(* A step that keeps the chain of calls changes no call but the            *)
(* innermost, and not its cell.                                            *)
LEMMA ChainKeeps ==
    ASSUME calls \in Seq(Call), calls # << >>, Chain
    PROVE  /\ calls' \in Seq(Call) /\ calls' # << >>
           /\ Len(calls') = Len(calls)
           /\ \A i \in 1..Len(calls) : calls'[i].at = calls[i].at
           /\ \A i \in 1..(Len(calls) - 1) : calls'[i] = calls[i]
  <1>1. CASE calls' = calls
    BY <1>1
  <1>2. CASE \E w \in Seq(Frame) : SetWork(w)
    BY <1>2, SetWorkKeeps
  <1> QED BY <1>1, <1>2 DEF Chain

(* A step that changes no cell and no document keeps what Keeps names. *)
LEMMA PureKeeps ==
    ASSUME TypeOK, OnlyLoaded, Pure, UNCHANGED callVars
    PROVE  Keeps
  BY DEF TypeOK, OnlyLoaded, Pure, callVars, Keeps

(* MakeDocument fills the cells of a document that had none. *)
LEMMA MakeKeeps ==
    ASSUME TypeOK, OnlyLoaded, NEW d \in Doc, MakeDocument(d),
           UNCHANGED <<files, state, args, scan, output>>
    PROVE  Keeps /\ d \in loaded'
  <1>1. loaded' = loaded \cup {d} /\ loaded' \subseteq Doc
    BY DEF MakeDocument, TypeOK
  <1>2. cell' = [a \in Addr |-> IF a[1] = d /\ d \notin loaded THEN files[a] ELSE cell[a]]
    BY DEF MakeDocument
  <1>3. files \in [Addr -> Cell] /\ cell \in [Addr -> Cell]
    BY DEF TypeOK
  <1>4. cell' \in [Addr -> Cell]
    BY <1>2, <1>3
  <1>5. \A a \in Addr : a[1] \in loaded => cell'[a] = cell[a]
    BY <1>2
  <1>6. \A a \in Addr : IF a[1] \notin loaded' THEN cell'[a] = NullCell
                        ELSE a[1] \notin loaded => cell'[a] = files[a]
    BY <1>1, <1>2 DEF OnlyLoaded
  <1> QED BY <1>1, <1>4, <1>5, <1>6 DEF Keeps

(* Such a step keeps the invariant if what the program does next is typed  *)
(* and, where it asks for a cell, the innermost call waits for that cell.  *)
LEMMA Inside ==
    ASSUME IInv, calls # << >>, Keeps, Chain, ctl' \in Control,
           ctl'.mode \in {"REDUCE", "VALUE", "APPLY", "LOOP", "ABORT", "EVALUATE"},
           ctl'.mode = "EVALUATE" =>
              Waiting(Top') /\ ctl'.at = Awaited(Top') /\ ctl'.at[1] \in loaded'
    PROVE  IInv'
  <1>1. TypeOK /\ CallsInv /\ OnlyLoaded /\ ReadsFinal /\ ControlInv
    BY DEF IInv
  <1>2. calls \in Seq(Call) /\ Len(calls) \in Nat /\ Len(calls) >= 1
    BY <1>1, TopType DEF TypeOK
  <1>3. /\ calls' \in Seq(Call) /\ calls' # << >>
        /\ Len(calls') = Len(calls)
        /\ \A i \in 1..Len(calls) : calls'[i].at = calls[i].at
        /\ \A i \in 1..(Len(calls) - 1) : calls'[i] = calls[i]
    BY <1>2, ChainKeeps
  <1>4. \A i \in 1..Len(calls) : calls[i].at \in Addr
    <2>1. \A i \in 1..Len(calls) : calls[i] \in Call
      BY <1>2, ElementOfSeq
    <2> QED BY <2>1 DEF Call
  <1>5. TypeOK'
    BY <1>1, <1>3 DEF TypeOK, Keeps
  <1>6. CallsInv'
    <2>1. \A i \in 1..Len(calls) : calls[i].at[1] \in loaded
      BY <1>1 DEF OnlyLoaded
    <2>2. \A i \in 1..Len(calls) : cell'[calls[i].at] = cell[calls[i].at]
      BY <2>1, <1>4 DEF Keeps
    <2>3. files' = files /\ state' = state
      BY DEF Keeps
    <2> QED BY <1>1, <1>3, <2>2, <2>3 DEF CallsInv
  <1>7. OnlyLoaded'
    <2>1. \A a \in Addr : IF a[1] \notin loaded' THEN cell'[a] = NullCell
                          ELSE cell'[a].type = "EXPR" => cell'[a] = files'[a]
      BY <1>1 DEF Keeps, OnlyLoaded
    <2>2. \A i \in 1..Len(calls') : calls'[i].at[1] \in loaded'
      BY <1>1, <1>3 DEF Keeps, OnlyLoaded
    <2>3. scan'.doc \in loaded'
      BY <1>1 DEF Keeps, OnlyLoaded, ControlInv, In
    <2> QED BY <2>1, <2>2, <2>3 DEF OnlyLoaded, In
  <1>8. ReadsFinal'
    <2>1. \A i \in 1..(Len(calls') - 1) :
              Waiting(calls'[i]) /\ calls'[i + 1].at = Awaited(calls'[i])
      <3> TAKE i \in 1..(Len(calls') - 1)
      <3>1. Waiting(calls[i]) /\ calls[i + 1].at = Awaited(calls[i])
        BY <1>1, <1>3 DEF ReadsFinal
      <3>2. i + 1 \in 1..Len(calls) /\ i \in 1..(Len(calls) - 1)
        BY <1>2, <1>3
      <3>3. calls'[i] = calls[i] /\ calls'[i + 1].at = calls[i + 1].at
        BY <1>3, <3>2
      <3> QED BY <3>1, <3>3
    <2> QED BY <2>1 DEF ReadsFinal, In
  <1>9. ControlInv'
    <2>1. args' # << >>
      BY <1>1 DEF Keeps, ControlInv, In
    <2> QED BY <1>3, <2>1 DEF ControlInv
  <1> QED BY <1>5, <1>6, <1>7, <1>8, <1>9 DEF IInv

(* A step inside the innermost call that asks for no cell keeps the        *)
(* invariant.                                                              *)
LEMMA Quiet ==
    ASSUME IInv, calls # << >>, Keeps, Chain, ctl' \in Onward
    PROVE  IInv'
  <1>1. ctl' \in Control /\ ctl'.mode \in {"REDUCE", "VALUE", "APPLY", "LOOP", "ABORT"}
    BY DEF Onward
  <1> QED BY <1>1, Inside

(* What the invariant gives at once. *)
LEMMA Facts ==
    ASSUME IInv
    PROVE  /\ TypeOK /\ CallsInv /\ OnlyLoaded /\ ReadsFinal /\ ControlInv
           /\ ctl \in Control /\ calls \in Seq(Call) /\ cell \in [Addr -> Cell]
           /\ loaded \subseteq Doc
           /\ Pure /\ UNCHANGED callVars => Keeps
           /\ calls # << >> => D \in loaded
  <1>1. TypeOK /\ CallsInv /\ OnlyLoaded /\ ReadsFinal /\ ControlInv
    BY DEF IInv
  <1>2. calls # << >> => D \in loaded
    BY <1>1, TopType DEF TypeOK, OnlyLoaded, D, Here, Top
  <1> QED BY <1>1, <1>2, PureKeeps DEF TypeOK

(* Push, Pop and Replace keep the chain of calls; the head of the work     *)
(* they leave.                                                             *)
LEMMA WorkChain ==
    ASSUME calls \in Seq(Call), calls # << >>
    PROVE  /\ UNCHANGED calls => Chain
           /\ \A f \in Frame : Push(f) =>
                  /\ Chain
                  /\ Top'.at = Here /\ Top'.work # << >> /\ Head(Top'.work) = f
           /\ Work # << >> =>
                  /\ F \in Frame
                  /\ Pop => Chain
                  /\ \A f \in Frame : Replace(f) => Chain
  <1>1. Work \in Seq(Frame)
    BY TopType
  <1>2. ASSUME NEW f \in Frame, Push(f)
        PROVE  /\ Chain
               /\ Top'.at = Here /\ Top'.work # << >> /\ Head(Top'.work) = f
    <2>1. <<f>> \o Work \in Seq(Frame) /\ <<f>> \o Work # << >> /\ Head(<<f>> \o Work) = f
      BY <1>1, Cons
    <2>2. SetWork(<<f>> \o Work)
      BY <1>2 DEF Push
    <2>3. Top' = [at |-> Here, work |-> <<f>> \o Work]
      BY <2>1, <2>2, SetWorkKeeps
    <2> QED BY <2>1, <2>2, <2>3 DEF Chain
  <1>3. ASSUME Work # << >>
        PROVE  /\ F \in Frame
               /\ Pop => Chain
               /\ \A f \in Frame : Replace(f) => Chain
    <2>1. F \in Frame /\ Tail(Work) \in Seq(Frame)
      BY <1>1, <1>3, HeadTail DEF F
    <2>2. \A f \in Frame : <<f>> \o Tail(Work) \in Seq(Frame)
      BY <2>1, Cons
    <2> QED BY <2>1, <2>2 DEF Pop, Replace, Chain
  <1> QED BY <1>2, <1>3 DEF Chain

-----------------------------------------------------------------------------
(* ReduceNode, the nodes that are not functions.                           *)

(* The steps that give a value, an error or another node at once. *)
LEMMA ReduceAtOnce ==
    ASSUME IInv,
           ReduceFinal \/ ReduceRange \/ ReduceMacro \/ ReduceNoMacro \/ ReduceNoFile
    PROVE  IInv'
  <1>1. calls # << >> /\ N \in Node \cup XenoNodes /\ Pure /\ UNCHANGED calls
    BY Facts, ControlFields
       DEF ControlInv, ReduceFinal, ReduceRange, ReduceMacro, ReduceNoMacro, ReduceNoFile,
           Reducing, In, N
  <1>2. UNCHANGED callVars
    BY DEF ReduceFinal, ReduceRange, ReduceMacro, ReduceNoMacro, ReduceNoFile, Go
  <1>3. D \in Doc /\ Here \in Addr
    BY <1>1, Facts, TopType
  <1>4. ctl' \in Onward
    <2>1. CASE ReduceFinal
      BY <2>1, <1>1, NodeParts, ControlTypes DEF ReduceFinal, Go
    <2>2. CASE ReduceRange
      BY <2>2, <1>1, <1>3, NodeParts, RangeType, ControlTypes DEF ReduceRange, Reducing, Go, N
    <2>3. CASE ReduceMacro
      <3>1. N.name \in Str
        BY <2>3, <1>1, NodeParts DEF ReduceMacro, Reducing, N
      <3> QED BY <2>3, <3>1, <1>3, MacroBodyType, ControlTypes DEF ReduceMacro, Go
    <2>4. CASE ReduceNoMacro
      BY <2>4, ControlTypes DEF ReduceNoMacro, Go, ExprError
    <2>5. CASE ReduceNoFile
      BY <2>5, ControlTypes DEF ReduceNoFile, Go, ExprError
    <2> QED BY <2>1, <2>2, <2>3, <2>4, <2>5
  <1>5. Keeps /\ Chain
    BY <1>1, <1>2, Facts, WorkChain
  <1> QED BY <1>1, <1>4, <1>5, Quiet

(* EvaluateIntoNode asks for a cell only if it exists, and waits for it. *)
LEMMA IntoAsks ==
    ASSUME IInv, calls # << >>, Keeps, NEW p \in Place, p[1] \in loaded', Into(p)
    PROVE  IInv'
  <1>1. CASE CellExists(p)
    <2> DEFINE f == [k |-> "INTO", at |-> p]
    <2>1. p \in Addr /\ p[2] \in Nat /\ p[3] \in Nat
      BY <1>1, AddrType DEF CellExists
    <2>2. Push(f) /\ ctl' = Evaluate(p)
      BY <1>1, <2>1 DEF Into, Go
    <2>3. f \in Frame
      BY <2>1 DEF Frame, IntoFrame
    <2>4. f.k = "INTO" /\ f.at = p
      OBVIOUS
    <2> HIDE DEF f
    <2>5. Chain /\ Top'.work # << >> /\ Head(Top'.work) = f
      BY <2>2, <2>3, Facts, WorkChain
    <2>6. Waiting(Top') /\ Awaited(Top') = p
      BY <2>4, <2>5 DEF Waiting, Awaited
    <2>7. ctl' \in Control /\ ctl'.mode = "EVALUATE" /\ ctl'.at = p
      BY <2>2, ControlTypes DEF Evaluate
    <2> QED BY <2>5, <2>6, <2>7, Inside
  <1>2. CASE ~CellExists(p)
    <2>1. ctl' = Fail("RELATIVE") \/ ctl' = Fail("DNE")
      BY <1>2 DEF Into, Go
    <2>2. ctl' \in Onward
      BY <2>1, ControlTypes DEF ExprError
    <2>3. Chain
      BY <1>2, Facts, WorkChain DEF Into
    <2> QED BY <2>2, <2>3, Quiet
  <1> QED BY <1>1, <1>2

(* A plain reference and a foreign one keep the invariant. *)
LEMMA ReduceReads ==
    ASSUME IInv, ReduceCell \/ ReduceXeno \/ ReduceBadXeno
    PROVE  IInv'
  <1>1. calls # << >> /\ N \in Node \cup XenoNodes
    BY Facts, ControlFields
       DEF ControlInv, ReduceCell, ReduceXeno, ReduceBadXeno, Reducing, In, N
  <1>2. D \in Doc /\ Here \in Addr /\ D \in loaded
    BY <1>1, Facts, TopType
  <1>3. CASE ReduceCell
    <2>1. Reducing("CELL") /\ Into(Target(D, N, Here)) /\ Pure
      BY <1>3 DEF ReduceCell
    <2>2. N.col \in Int /\ N.row \in Int
      BY <1>1, <2>1, NodeParts DEF Reducing, N
    <2>3. Target(D, N, Here) \in Place /\ Target(D, N, Here)[1] = D
      BY <1>2, <2>2, TargetType
    <2>4. Keeps
      BY <2>1, Facts DEF Into, Go
    <2>5. Target(D, N, Here)[1] \in loaded'
      BY <1>2, <2>3, <2>4 DEF Keeps
    <2> QED BY <1>1, <2>1, <2>3, <2>4, <2>5, IntoAsks
  <1>4. CASE ReduceXeno \/ ReduceBadXeno
    <2> DEFINE sub == Resolve(D, N.file)
    <2>1. Reducing("XENO") /\ sub # NoDoc /\ MakeDocument(sub)
      BY <1>4 DEF ReduceXeno, ReduceBadXeno
    <2>2. N.file \in Str /\ N.col \in Int /\ N.row \in Int
      BY <1>1, <2>1, NodeParts DEF Reducing, N
    <2>3. sub \in Doc
      BY <1>2, <2>1, <2>2, ResolveAssumption
    <2>4. UNCHANGED <<files, state, args, scan, output>>
      BY <1>4 DEF ReduceXeno, ReduceBadXeno, Into, Go, callVars
    <2> HIDE DEF sub
    <2>5. Keeps /\ sub \in loaded'
      BY <2>1, <2>3, <2>4, Facts, MakeKeeps
    <2>6. CASE ReduceXeno
      <3>1. Into(Target(sub, N, Here))
        BY <2>6 DEF ReduceXeno, sub
      <3>2. Target(sub, N, Here) \in Place /\ Target(sub, N, Here)[1] = sub
        BY <1>2, <2>2, <2>3, TargetType
      <3>3. Target(sub, N, Here)[1] \in loaded'
        BY <2>5, <3>2
      <3> QED BY <1>1, <2>5, <3>1, <3>2, <3>3, IntoAsks
    <2>7. CASE ReduceBadXeno
      <3>1. ctl' \in Onward /\ UNCHANGED calls
        BY <2>7, ControlTypes DEF ReduceBadXeno, Go
      <3> QED BY <1>1, <2>5, <3>1, Facts, WorkChain, Quiet
    <2> QED BY <1>4, <2>6, <2>7
  <1> QED BY <1>3, <1>4

(* A failing assertion changes nothing but what the program does next. *)
LEMMA Stops ==
    ASSUME IInv, Stop, ~In("MAIN"), ~In("EXIT")
    PROVE  IInv'
  <1>1. ctl' = Plain("ABORT") /\ ctl' \in Control /\ ctl'.mode = "ABORT"
    BY ControlTypes DEF Stop, Go, Plain
  <1>2. UNCHANGED <<files, cell, state, loaded, args, scan, calls, output>>
    BY DEF Stop, Go, callVars
  <1>3. TypeOK'
    BY <1>1, <1>2, Facts DEF TypeOK
  <1>4. CallsInv'
    BY <1>2, Facts DEF CallsInv
  <1>5. OnlyLoaded'
    BY <1>1, <1>2, Facts DEF OnlyLoaded, In
  <1>6. ReadsFinal'
    BY <1>1, <1>2, Facts DEF ReadsFinal, In
  <1>7. ControlInv'
    BY <1>1, <1>2, Facts DEF ControlInv, In
  <1> QED BY <1>3, <1>4, <1>5, <1>6, <1>7 DEF IInv

(* What a caller reads after EvaluateCell returned without an error. *)
LEMMA ReturnedCell ==
    ASSUME IInv, In("RETURNED"), calls # << >>
    PROVE  /\ Waiting(Top) /\ Awaited(Top) \in Addr /\ ctl.ok \in BOOLEAN
           /\ cell[Awaited(Top)] \in Cell
           /\ ctl.ok => cell[Awaited(Top)] \in FinalCell
           /\ cell[Awaited(Top)].type = "NUMBER" => cell[Awaited(Top)].num \in Num
  <1>1. /\ Waiting(Top) /\ Awaited(Top) \in Addr
        /\ ctl.ok => cell[Awaited(Top)].type # "EXPR"
    BY Facts DEF ReadsFinal, In
  <1>2. cell[Awaited(Top)] \in Cell
    BY <1>1, Facts
  <1> QED BY <1>1, <1>2, Facts, ControlFields, CellTypes DEF In

(* So does a return that ends the work in hand. *)
LEMMA ReduceReturns ==
    ASSUME IInv, IntoReturns \/ NegateReturns \/ MathFails
    PROVE  IInv'
  <1>1. /\ calls # << >> /\ Work # << >>
        /\ Pure /\ Pop /\ UNCHANGED callVars
    BY DEF IntoReturns, NegateReturns, MathFails, OnTop, Go
  <1>2. Keeps /\ Chain
    BY <1>1, Facts, WorkChain
  <1>3. In("VALUE") => ctl.value \in Value
    BY Facts, ControlFields DEF In
  <1>4. ctl' \in Onward
    <2>1. CASE IntoReturns
      <3>1. ctl' = IF ctl.ok THEN Give(SetAsNodeFrom(cell[Awaited(Top)])) ELSE Fail("SUB")
        BY <2>1 DEF IntoReturns, Go
      <3>2. ctl.ok => SetAsNodeFrom(cell[Awaited(Top)]) \in Value
        BY <1>1, <2>1, ReturnedCell, ReadType DEF IntoReturns
      <3>3. "SUB" \in ExprError
        BY DEF ExprError
      <3> QED BY <3>1, <3>2, <3>3, ControlTypes
    <2>2. CASE NegateReturns
      <3>1. ctl.value \in Value
        BY <1>3, <2>2 DEF NegateReturns
      <3>2. ctl.value.type = "NUMBER" => NumberNode(Negated(ctl.value.num)) \in Value
        BY <3>1, ValueFields, NegatedType, NodeTypes
      <3>3. ctl' = IF ctl.value.type = "NUMBER" THEN Give(NumberNode(Negated(ctl.value.num)))
                   ELSE Fail("TYPE")
        BY <2>2 DEF NegateReturns, Go
      <3>4. "TYPE" \in ExprError
        BY DEF ExprError
      <3> QED BY <3>2, <3>3, <3>4, ControlTypes
    <2>3. CASE MathFails
      <3>1. MathError(ctl.value) \in ExprError
        BY <1>3, <2>3, MathType, NaNAssumption DEF MathFails, Num
      <3> QED BY <2>3, <3>1, ControlTypes DEF MathFails, Go
    <2> QED BY <2>1, <2>2, <2>3
  <1> QED BY <1>1, <1>2, <1>4, Quiet

(* So do a negation and a sum that reduce their first operand. *)
LEMMA ReduceOperands ==
    ASSUME IInv, ReduceTerm \/ ReduceSum
    PROVE  IInv'
  <1>1. calls # << >> /\ N \in Node \cup XenoNodes
    BY Facts, ControlFields DEF ControlInv, ReduceTerm, ReduceSum, Reducing, In, N
  <1>2. Keeps
    BY Facts DEF ReduceTerm, ReduceSum, Go
  <1>3. CASE ReduceTerm
    <2> DEFINE f == [k |-> "NEGATE"]
    <2>1. Push(f) /\ ctl' = Reduce(N.child) /\ N.type = "TERM"
      BY <1>3 DEF ReduceTerm, Reducing, Go, N
    <2>2. f \in Frame
      BY DEF Frame, NegateFrame
    <2> HIDE DEF f
    <2>3. N.child \in Node
      BY <1>1, <2>1, NodeParts
    <2>4. ctl' \in Onward /\ Chain
      BY <1>1, <2>1, <2>2, <2>3, Facts, WorkChain, ControlTypes
    <2> QED BY <1>1, <1>2, <2>4, Quiet
  <1>4. CASE ReduceSum
    <2> DEFINE f == [k |-> "MATH", acc |-> 0, op |-> "SET", rest |-> N.rest]
    <2>1. Push(f) /\ ctl' = Reduce(N.first) /\ N.type = "SUM"
      BY <1>4 DEF ReduceSum, Reducing, Go, N
    <2>2. N.first \in Node /\ N.rest \in Operands
      BY <1>1, <2>1, NodeParts
    <2>3. f \in Frame
      BY <2>2 DEF Frame, MathFrame, Num, MathOp
    <2> HIDE DEF f
    <2>4. ctl' \in Onward /\ Chain
      BY <1>1, <2>1, <2>2, <2>3, Facts, WorkChain, ControlTypes
    <2> QED BY <1>1, <1>2, <2>4, Quiet
  <1> QED BY <1>3, <1>4

(* So does a sum that goes on to its next operand, or ends. *)
LEMMA MathGoesOn ==
    ASSUME IInv, MathReturns
    PROVE  IInv'
  <1> DEFINE acc == MathValue(F.acc, F.op, ctl.value)
             f == [k |-> "MATH", acc |-> acc, op |-> Head(F.rest).op, rest |-> Tail(F.rest)]
  <1>1. calls # << >> /\ Work # << >> /\ F.k = "MATH" /\ Pure /\ ctl.value \in Value
    BY Facts, ControlFields DEF MathReturns, OnTop, In, F
  <1>2. F \in MathFrame
    BY <1>1, Facts, WorkChain, FrameOf
  <1>3. F.acc \in Num /\ F.rest \in Operands
    BY <1>2 DEF MathFrame
  <1>4. acc \in Num
    BY <1>1, <1>3, MathType
  <1>5. Keeps
    BY <1>1, Facts DEF MathReturns, Go
  <1>6. CASE F.rest = << >>
    <2>1. Pop /\ ctl' = Give(NumberNode(acc))
      BY <1>6 DEF MathReturns, Go
    <2> HIDE DEF acc
    <2>2. ctl' \in Onward /\ Chain
      BY <1>1, <1>4, <2>1, NodeTypes, ControlTypes, Facts, WorkChain
    <2> QED BY <1>1, <1>5, <2>2, Quiet
  <1>7. CASE F.rest # << >>
    <2>1. Replace(f) /\ ctl' = Reduce(Head(F.rest).node)
      BY <1>7 DEF MathReturns, Go
    <2>2. Head(F.rest) \in [op : MathOp \ {"SET"}, node : Node] /\ Tail(F.rest) \in Operands
      BY <1>3, <1>7, HeadTail DEF Operands
    <2>3. f \in Frame
      <3> HIDE DEF acc
      <3> QED BY <1>4, <2>2 DEF Frame, MathFrame
    <2> HIDE DEF f, acc
    <2>4. ctl' \in Onward /\ Chain
      BY <1>1, <2>1, <2>2, <2>3, ControlTypes, Facts, WorkChain
    <2> QED BY <1>1, <1>5, <2>4, Quiet
  <1> QED BY <1>6, <1>7

-----------------------------------------------------------------------------
(* ReduceNode of a function.                                               *)

(* So does a function that reduces its first argument. *)
LEMMA FuncStarts ==
    ASSUME IInv, ReduceFunc
    PROVE  IInv'
  <1>1. calls # << >> /\ N \in Node \cup XenoNodes /\ N.type = "FUNC"
    BY Facts, ControlFields DEF ControlInv, ReduceFunc, Reducing, In, N
  <1>2. Keeps
    BY Facts DEF ReduceFunc, Go
  <1>3. N.func \in Func /\ N.args \in Seq(Node)
    BY <1>1, NodeParts
  <1>4. CASE N.args = << >>
    <2>1. ctl' = Apply(N.func, << >>) /\ UNCHANGED calls
      BY <1>4 DEF ReduceFunc, Go
    <2>2. ctl' \in Onward /\ Chain
      BY <1>1, <1>3, <2>1, ControlTypes, Facts, WorkChain, EmptySeq
    <2> QED BY <1>1, <1>2, <2>2, Quiet
  <1>5. CASE N.args # << >>
    <2> DEFINE f == [k |-> "ARGS", func |-> N.func, done |-> << >>, rest |-> Tail(N.args)]
    <2>1. Push(f) /\ ctl' = Reduce(Head(N.args))
      BY <1>5 DEF ReduceFunc, Go
    <2>2. Head(N.args) \in Node /\ Tail(N.args) \in Seq(Node)
      BY <1>3, <1>5, HeadTail
    <2>3. f \in Frame
      BY <1>3, <2>2, EmptySeq DEF Frame, ArgsFrame
    <2> HIDE DEF f
    <2>4. ctl' \in Onward /\ Chain
      BY <1>1, <2>1, <2>2, <2>3, ControlTypes, Facts, WorkChain
    <2> QED BY <1>1, <1>2, <2>4, Quiet
  <1> QED BY <1>4, <1>5

(* So does a function that goes on to its next argument, or has them all. *)
LEMMA ArgsGoOn ==
    ASSUME IInv, ArgsReturn
    PROVE  IInv'
  <1> DEFINE done == Append(F.done, ctl.value)
             f == [F EXCEPT !.done = done, !.rest = Tail(@)]
  <1>1. calls # << >> /\ Work # << >> /\ F.k = "ARGS" /\ Pure /\ ctl.value \in Value
    BY Facts, ControlFields DEF ArgsReturn, OnTop, In, F
  <1>2. F \in ArgsFrame
    BY <1>1, Facts, WorkChain, FrameOf
  <1>3. F.func \in Func /\ F.done \in Seq(Value) /\ F.rest \in Seq(Node)
    BY <1>2 DEF ArgsFrame
  <1>4. done \in Seq(Value)
    BY <1>1, <1>3, AppendProperties
  <1>5. Keeps
    BY <1>1, Facts DEF ArgsReturn, Go
  <1>6. CASE F.rest = << >>
    <2>1. Pop /\ ctl' = Apply(F.func, done)
      BY <1>6 DEF ArgsReturn, Go
    <2> HIDE DEF done
    <2>2. ctl' \in Onward /\ Chain
      BY <1>1, <1>3, <1>4, <2>1, ControlTypes, Facts, WorkChain
    <2> QED BY <1>1, <1>5, <2>2, Quiet
  <1>7. CASE F.rest # << >>
    <2>1. Replace(f) /\ ctl' = Reduce(Head(F.rest))
      BY <1>7 DEF ArgsReturn, Go
    <2>2. Head(F.rest) \in Node /\ Tail(F.rest) \in Seq(Node)
      BY <1>3, <1>7, HeadTail
    <2>3. f \in Frame
      <3> HIDE DEF done
      <3>1. f \in ArgsFrame
        BY <1>2, <1>4, <2>2 DEF ArgsFrame
      <3> QED BY <3>1 DEF Frame
    <2> HIDE DEF f, done
    <2>4. ctl' \in Onward /\ Chain
      BY <1>1, <2>1, <2>2, <2>3, ControlTypes, Facts, WorkChain
    <2> QED BY <1>1, <1>5, <2>4, Quiet
  <1> QED BY <1>6, <1>7

(* The functions that give their value, an error or a node at once. *)
LEMMA AppliesAtOnce ==
    ASSUME IInv, ApplyMismatch \/ ApplyPure \/ ApplyRow \/ ApplyBodyCol \/ ApplyCell
    PROVE  IInv'
  <1>1. In("APPLY") /\ Pure /\ UNCHANGED callVars /\ UNCHANGED calls
    BY DEF ApplyMismatch, ApplyPure, ApplyRow, ApplyBodyCol, ApplyCell, Applying, Go, In
  <1>2. calls # << >> /\ ctl.func \in Func /\ ctl.args \in Seq(Value)
    BY <1>1, Facts, ControlFields DEF ControlInv, In
  <1>3. D \in Doc /\ Here[2] \in Nat /\ Here[3] \in Nat
    BY <1>2, Facts, TopType
  <1>4. ctl' \in Onward
    <2>1. CASE ApplyMismatch
      <3>1. ctl' = Fail("ARGC") \/ ctl' = Fail("TYPE")
        BY <2>1 DEF ApplyMismatch, Go
      <3> QED BY <3>1, ControlTypes DEF ExprError
    <2>2. CASE ApplyPure
      BY <2>2, PureValueType, ControlTypes DEF ApplyPure, Go
    <2>3. CASE ApplyRow
      BY <2>3, <1>3, NodeTypes, ControlTypes DEF ApplyRow, Go, Num
    <2>4. CASE ApplyBodyCol
      <3> DEFINE c == IF Arity = 0 THEN Here[2] ELSE ReadAsNumber(Arg(1))
      <3>1. ReadAsNumber(Arg(1)) \in Int
        <4>1. ToS32(NaN) \in Int
          BY ToS32Type DEF Num
        <4> QED BY <4>1 DEF ReadAsNumber
      <3>2. c \in Int
        BY <1>3, <3>1
      <3>3. ctl' = Give(BodyCol(Shape[D], c))
        BY <2>4 DEF ApplyBodyCol, Go
      <3> HIDE DEF c
      <3> QED BY <1>3, <3>2, <3>3, BodyColType, ControlTypes
    <2>5. CASE ApplyCell
      <3>1. ctl.args \in Seq(Value) /\ WellTyped("CELL", ctl.args)
        BY <1>2, <2>5 DEF ApplyCell, Applying
      <3>2. CASE Len(ctl.args) = 2
        <4>1. Arg(1).num \in Num /\ Arg(2).num \in Num
          BY <3>1, <3>2, CellArgs DEF Arg
        <4>2. CellNode(ToS32(Arg(1).num), ToS32(Arg(2).num)) \in Value
          BY <4>1, ToS32Type, NodeTypes
        <4> QED BY <2>5, <3>2, <4>2, ControlTypes DEF ApplyCell, Go, Arity
      <3>3. CASE Len(ctl.args) # 2
        <4>1. Arg(1).str \in Str /\ Arg(2).num \in Num /\ Arg(3).num \in Num
          BY <3>1, <3>3, CellArgs DEF Arg
        <4>2. XenoNode(Arg(1).str, ToS32(Arg(2).num), ToS32(Arg(3).num)) \in XenoNodes
          BY <4>1, ToS32Type, NodeTypes
        <4> QED BY <2>5, <3>3, <4>2, ControlTypes DEF ApplyCell, Go, Arity
      <3> QED BY <3>2, <3>3
    <2> QED BY <2>1, <2>2, <2>3, <2>4, <2>5
  <1>5. Keeps /\ Chain
    BY <1>1, <1>2, Facts, WorkChain
  <1> QED BY <1>2, <1>4, <1>5, Quiet

(* The functions that walk over cells open a frame for their loop. *)
OpenedFold == [k |-> "FOLD", func |-> ctl.func, acc |-> NoNumbers,
               args |-> ctl.args, todo |-> << >>]
LEMMA OpensFold ==
    ASSUME IInv, ApplyAggregate
    PROVE  OpenedFold \in FoldFrame /\ Push(OpenedFold) /\ OpenedFold.k = "FOLD"
  <1>1. In("APPLY") /\ ctl.func \in Aggregates /\ WellTyped(ctl.func, ctl.args)
    BY DEF ApplyAggregate, Applying, In
  <1>2. ctl.args \in Seq(Value)
    BY <1>1, Facts, ControlFields DEF In
  <1>3. ctl.args \in Seq(NumberNodes \cup RangeNodes)
    BY <1>1, <1>2, AggregateArgs
  <1>4. NoNumbers \in [count : Nat, num : Num] /\ << >> \in Seq(Int \X Int)
    BY EmptySeq DEF NoNumbers, Num
  <1>5. OpenedFold \in FoldFrame /\ OpenedFold.k = "FOLD"
    BY <1>1, <1>3, <1>4 DEF FoldFrame, OpenedFold
  <1> QED BY <1>5 DEF ApplyAggregate, OpenedFold
OpenedMask ==
    [k |-> "MASK", test |-> ToS32(Arg(1).num), proto |-> Arg(2),
     trgt |-> ToS32(Arg(3).num), row |-> Shape[D].firstBodyRow,
     last |-> IF Shape[D].firstFootRow < Shape[D].rows THEN Shape[D].firstFootRow
              ELSE Shape[D].rows,
     phase |-> "TEST", acc |-> 0]
LEMMA OpensMask ==
    ASSUME IInv, ApplyMaskSum
    PROVE  OpenedMask \in MaskFrame /\ Push(OpenedMask) /\ OpenedMask.k = "MASK"
  <1> DEFINE s == Shape[D]
             last == IF s.firstFootRow < s.rows THEN s.firstFootRow ELSE s.rows
  <1>1. In("APPLY") /\ WellTyped("MASK_SUM", ctl.args) /\ Push(OpenedMask)
    BY DEF ApplyMaskSum, Applying, In, OpenedMask
  <1>2. calls # << >> /\ ctl.args \in Seq(Value)
    BY <1>1, Facts, ControlFields DEF ControlInv, In
  <1>3. /\ Arg(1).num \in Num /\ Arg(3).num \in Num
        /\ Arg(2) \in NumberNodes \cup StringNodes
    BY <1>1, <1>2, MaskArgs DEF Arg
  <1>4. ToS32(Arg(1).num) \in Int /\ ToS32(Arg(3).num) \in Int
    BY <1>3, ToS32Type
  <1>5. s.firstBodyRow \in Int /\ last \in Int
    BY <1>2, Facts, TopType, ShapeAssumption, IntMaxAssumption
  <1>6. OpenedMask = [k |-> "MASK", test |-> ToS32(Arg(1).num), proto |-> Arg(2),
                      trgt |-> ToS32(Arg(3).num), row |-> s.firstBodyRow,
                      last |-> last, phase |-> "TEST", acc |-> 0]
    BY DEF OpenedMask
  <1> HIDE DEF s, last
  <1>7. OpenedMask \in MaskFrame /\ OpenedMask.k = "MASK"
    BY <1>3, <1>4, <1>5, <1>6 DEF MaskFrame, Num
  <1> QED BY <1>1, <1>7
LEMMA AppliesPush ==
    ASSUME IInv, ApplyAggregate \/ ApplyMaskSum
    PROVE  \E f \in Frame : Push(f) /\ f.k \in {"FOLD", "MASK"}
  BY OpensFold, OpensMask DEF Frame

(* So they keep the invariant. *)
LEMMA AppliesLoop ==
    ASSUME IInv, ApplyAggregate \/ ApplyMaskSum
    PROVE  IInv'
  <1>1. In("APPLY") /\ Pure /\ UNCHANGED callVars /\ ctl' = Plain("LOOP")
    BY DEF ApplyAggregate, ApplyMaskSum, Applying, Go, In
  <1>2. calls # << >>
    BY <1>1, Facts DEF ControlInv, In
  <1>3. PICK f \in Frame : Push(f)
    BY AppliesPush
  <1>4. Keeps /\ Chain /\ ctl' \in Onward
    BY <1>1, <1>2, <1>3, Facts, WorkChain, ControlTypes
  <1> QED BY <1>1, <1>2, <1>4, Quiet

-----------------------------------------------------------------------------
(* The loops over cells.                                                   *)

(* The loop asks for the cell its innermost call waits for. *)
LEMMA LoopAsks ==
    ASSUME IInv, FoldCell \/ MaskCell
    PROVE  IInv'
  <1>1. /\ calls # << >> /\ Work # << >> /\ F.k \in {"FOLD", "MASK"}
        /\ Pure /\ UNCHANGED callVars /\ UNCHANGED calls
        /\ ctl' = Evaluate(Awaited(Top)) /\ Waiting(Top)
    BY DEF FoldCell, MaskCell, Turn, OnTop, Go, Waiting, F, Work
  <1>2. Top' = Top /\ Keeps /\ Chain
    BY <1>1, Facts, WorkChain DEF Top
  <1>3. Awaited(Top) \in Place /\ Awaited(Top)[1] = D
    <2>1. D \in Doc /\ F \in Frame
      BY <1>1, Facts, TopType, WorkChain
    <2>2. CASE F.k = "FOLD"
      <3>1. F \in FoldFrame /\ F.todo # << >>
        BY <1>1, <2>1, <2>2, FrameOf DEF Waiting, F, Work
      <3>2. Head(F.todo) \in Int \X Int
        BY <3>1, HeadTail DEF FoldFrame
      <3>3. Awaited(Top) = Located(D, Head(F.todo))
        BY <2>2 DEF Awaited, F, Work, D, Here
      <3> QED BY <2>1, <3>2, <3>3 DEF Located, Place
    <2>3. CASE F.k = "MASK"
      <3>1. F \in MaskFrame
        BY <2>1, <2>3, FrameOf
      <3>2. F.test \in Int /\ F.trgt \in Int /\ F.row \in Int
        BY <3>1 DEF MaskFrame
      <3>3. Awaited(Top) = <<D, IF F.phase = "TEST" THEN F.test ELSE F.trgt, F.row>>
        BY <2>3 DEF Awaited, F, Work, D, Here
      <3> QED BY <2>1, <3>2, <3>3 DEF Place
    <2> QED BY <1>1, <2>2, <2>3
  <1>4. Awaited(Top)[1] \in loaded'
    BY <1>1, <1>3, Facts DEF Pure
  <1>5. ctl' \in Control /\ ctl'.mode = "EVALUATE" /\ ctl'.at = Awaited(Top)
    BY <1>1, <1>3, ControlTypes DEF Evaluate
  <1> QED BY <1>1, <1>2, <1>4, <1>5, Inside

(* So does a loop that ends with its value. *)
LEMMA LoopEnds ==
    ASSUME IInv, FoldEnds \/ MaskEnds
    PROVE  IInv'
  <1>1. calls # << >> /\ Work # << >> /\ Pure /\ UNCHANGED callVars /\ Pop /\ F \in Frame
    BY Facts, WorkChain DEF FoldEnds, MaskEnds, Turn, OnTop, Go
  <1>2. ctl' \in Onward
    <2>1. CASE FoldEnds
      <3>1. F \in FoldFrame
        BY <1>1, <2>1, FrameOf DEF FoldEnds, Turn, OnTop, F
      <3>2. F.acc \in AccType
        BY <3>1 DEF FoldFrame, AccType
      <3>3. AggregateOf(F.func, F.acc) \in Num
        BY <3>2, AggregateType
      <3> QED BY <2>1, <3>3, NodeTypes, ControlTypes DEF FoldEnds, Go
    <2>2. CASE MaskEnds
      <3>1. F \in MaskFrame
        BY <1>1, <2>2, FrameOf DEF MaskEnds, Turn, OnTop, F
      <3>2. F.acc \in Num
        BY <3>1 DEF MaskFrame
      <3> QED BY <2>2, <3>2, NodeTypes, ControlTypes DEF MaskEnds, Go
    <2> QED BY <2>1, <2>2
  <1>3. Keeps /\ Chain
    BY <1>1, Facts, WorkChain
  <1> QED BY <1>1, <1>2, <1>3, Quiet

(* A turn of a loop over the ranges of an aggregate function leaves its    *)
(* frame the frame of such a loop.                                         *)
FoldNumberTurn ==
    [F EXCEPT !.acc = Accumulate(F.func, @, Head(F.args).num), !.args = Tail(@)]
FoldRangeTurn == [F EXCEPT !.todo = RangeCells(Shape[D], Head(F.args)), !.args = Tail(@)]
FoldCellTurn ==
    LET c == cell[Awaited(Top)] IN
    [F EXCEPT !.acc = IF c.type = "NUMBER" THEN Accumulate(F.func, @, c.num) ELSE @,
              !.todo = Tail(@)]
LEMMA FoldTurns ==
    ASSUME IInv, FoldNumber \/ FoldRange \/ FoldReturns
    PROVE  /\ FoldNumber => FoldNumberTurn \in FoldFrame /\ Replace(FoldNumberTurn)
           /\ FoldRange => FoldRangeTurn \in FoldFrame /\ Replace(FoldRangeTurn)
           /\ FoldReturns => FoldCellTurn \in FoldFrame /\ Replace(FoldCellTurn)
  <1>1. calls # << >> /\ Work # << >> /\ F.k = "FOLD"
    BY DEF FoldNumber, FoldRange, FoldReturns, Turn, OnTop, F
  <1>2. F \in FoldFrame
    BY <1>1, Facts, WorkChain, FrameOf
  <1>3. /\ F.acc \in AccType /\ F.args \in Seq(NumberNodes \cup RangeNodes)
        /\ F.todo \in Seq(Int \X Int)
    BY <1>2 DEF FoldFrame, AccType
  <1>4. D \in Doc
    BY <1>1, Facts, TopType
  <1>5. ASSUME FoldNumber PROVE FoldNumberTurn \in FoldFrame /\ Replace(FoldNumberTurn)
    <2> DEFINE acc == Accumulate(F.func, F.acc, Head(F.args).num)
    <2>1. F.args # << >> /\ Head(F.args).type = "NUMBER"
      BY <1>5 DEF FoldNumber
    <2>2. Head(F.args) \in NumberNodes \cup RangeNodes /\ Tail(F.args)
              \in Seq(NumberNodes \cup RangeNodes)
      BY <1>3, <2>1, HeadTail
    <2>3. Head(F.args).num \in Num
      BY <2>1, <2>2 DEF NumberNodes, RangeNodes
    <2>4. acc \in AccType
      BY <1>3, <2>3, AccumulateType
    <2>5. Replace([F EXCEPT !.acc = acc, !.args = Tail(@)])
      BY <1>5 DEF FoldNumber
    <2>6. FoldNumberTurn = [F EXCEPT !.acc = acc, !.args = Tail(@)]
      BY DEF FoldNumberTurn
    <2> HIDE DEF acc
    <2>7. [F EXCEPT !.acc = acc, !.args = Tail(@)] \in FoldFrame
      BY <1>2, <2>2, <2>4 DEF FoldFrame, AccType
    <2> QED BY <2>5, <2>6, <2>7
  <1>6. ASSUME FoldRange PROVE FoldRangeTurn \in FoldFrame /\ Replace(FoldRangeTurn)
    <2> DEFINE todo == RangeCells(Shape[D], Head(F.args))
    <2>1. F.args # << >> /\ Head(F.args).type = "RANGE"
      BY <1>6 DEF FoldRange
    <2>2. Head(F.args) \in NumberNodes \cup RangeNodes /\ Tail(F.args)
              \in Seq(NumberNodes \cup RangeNodes)
      BY <1>3, <2>1, HeadTail
    <2>3. Head(F.args) \in RangeNodes
      BY <2>1, <2>2 DEF NumberNodes, RangeNodes
    <2>4. todo \in Seq(Int \X Int)
      BY <1>4, <2>3, RangeCellsType
    <2>5. Replace([F EXCEPT !.todo = todo, !.args = Tail(@)])
      BY <1>6 DEF FoldRange
    <2>6. FoldRangeTurn = [F EXCEPT !.todo = todo, !.args = Tail(@)]
      BY DEF FoldRangeTurn
    <2> HIDE DEF todo
    <2>7. [F EXCEPT !.todo = todo, !.args = Tail(@)] \in FoldFrame
      BY <1>2, <2>2, <2>4 DEF FoldFrame
    <2> QED BY <2>5, <2>6, <2>7
  <1>7. ASSUME FoldReturns PROVE FoldCellTurn \in FoldFrame /\ Replace(FoldCellTurn)
    <2> DEFINE c == cell[Awaited(Top)]
               acc == IF c.type = "NUMBER" THEN Accumulate(F.func, F.acc, c.num) ELSE F.acc
    <2>1. Waiting(Top) /\ (c.type = "NUMBER" => c.num \in Num)
      BY <1>1, <1>7, ReturnedCell DEF FoldReturns
    <2>2. F.todo # << >>
      BY <1>1, <2>1 DEF Waiting, F, Work
    <2>3. Tail(F.todo) \in Seq(Int \X Int)
      BY <1>3, <2>2, HeadTail
    <2>4. acc \in AccType
      <3> HIDE DEF c
      <3> QED BY <1>3, <2>1, AccumulateType
    <2>5. Replace([F EXCEPT !.acc = acc, !.todo = Tail(@)])
      BY <1>7 DEF FoldReturns
    <2>6. FoldCellTurn = [F EXCEPT !.acc = acc, !.todo = Tail(@)]
      BY DEF FoldCellTurn
    <2> HIDE DEF acc
    <2>7. [F EXCEPT !.acc = acc, !.todo = Tail(@)] \in FoldFrame
      BY <1>2, <2>3, <2>4 DEF FoldFrame, AccType
    <2> QED BY <2>5, <2>6, <2>7
  <1> QED BY <1>5, <1>6, <1>7

(* So it keeps the invariant. *)
LEMMA FoldGoesOn ==
    ASSUME IInv, FoldNumber \/ FoldRange \/ FoldReturns
    PROVE  IInv'
  <1>1. calls # << >> /\ Work # << >> /\ Pure /\ UNCHANGED callVars
    BY DEF FoldNumber, FoldRange, FoldReturns, Turn, OnTop, Go
  <1>2. ctl' \in Onward
    <2>1. FoldNumber \/ FoldRange => ctl' \in Control /\ ctl'.mode = "LOOP"
      BY Facts DEF FoldNumber, FoldRange, Turn, In, Go
    <2>2. FoldReturns => ctl' = Plain("LOOP")
      BY DEF FoldReturns, Go
    <2> QED BY <2>1, <2>2, ControlTypes DEF Onward
  <1>3. Keeps /\ Chain
    <2>1. \E f \in Frame : Replace(f)
      BY FoldTurns DEF Frame
    <2> QED BY <1>1, <2>1, Facts, WorkChain
  <1> QED BY <1>1, <1>2, <1>3, Quiet

(* A turn of the loop of mask_sum leaves its frame the frame of the loop. *)
MaskTestTurn ==
    IF CellsEq(F.proto, cell[Awaited(Top)])
    THEN [F EXCEPT !.phase = "TARGET"] ELSE [F EXCEPT !.row = @ + 1]
MaskCellTurn ==
    LET c == cell[Awaited(Top)] IN
    [F EXCEPT !.acc = IF c.type = "NUMBER" THEN Arith(@, "ADD", c.num) ELSE @,
              !.phase = "TEST", !.row = @ + 1]
LEMMA MaskTurns ==
    ASSUME IInv, MaskTested \/ MaskReturns
    PROVE  /\ MaskTested => MaskTestTurn \in MaskFrame /\ Replace(MaskTestTurn)
           /\ MaskReturns => MaskCellTurn \in MaskFrame /\ Replace(MaskCellTurn)
  <1>1. calls # << >> /\ Work # << >> /\ F.k = "MASK" /\ In("RETURNED")
    BY DEF MaskTested, MaskReturns, OnTop, F, In
  <1>2. F \in MaskFrame
    BY <1>1, Facts, WorkChain, FrameOf
  <1>3. F.row + 1 \in Int /\ F.acc \in Num
    BY <1>2 DEF MaskFrame
  <1>4. ASSUME MaskTested PROVE MaskTestTurn \in MaskFrame /\ Replace(MaskTestTurn)
    <2>1. [F EXCEPT !.phase = "TARGET"] \in MaskFrame
      BY <1>2 DEF MaskFrame
    <2>2. [F EXCEPT !.row = @ + 1] \in MaskFrame
      BY <1>2, <1>3 DEF MaskFrame
    <2> QED BY <1>4, <2>1, <2>2 DEF MaskTested, MaskTestTurn
  <1>5. ASSUME MaskReturns PROVE MaskCellTurn \in MaskFrame /\ Replace(MaskCellTurn)
    <2> DEFINE c == cell[Awaited(Top)]
               acc == IF c.type = "NUMBER" THEN Arith(F.acc, "ADD", c.num) ELSE F.acc
    <2>1. c.type = "NUMBER" => c.num \in Num
      BY <1>1, ReturnedCell
    <2>2. acc \in Num
      <3> HIDE DEF c
      <3> QED BY <1>3, <2>1, ArithType
    <2>3. Replace([F EXCEPT !.acc = acc, !.phase = "TEST", !.row = @ + 1])
      BY <1>5 DEF MaskReturns
    <2>4. MaskCellTurn = [F EXCEPT !.acc = acc, !.phase = "TEST", !.row = @ + 1]
      BY DEF MaskCellTurn
    <2> HIDE DEF acc
    <2>5. [F EXCEPT !.acc = acc, !.phase = "TEST", !.row = @ + 1] \in MaskFrame
      BY <1>2, <1>3, <2>2 DEF MaskFrame
    <2> QED BY <2>3, <2>4, <2>5
  <1> QED BY <1>4, <1>5

(* So it keeps the invariant. *)
LEMMA MaskGoesOn ==
    ASSUME IInv, MaskTested \/ MaskReturns
    PROVE  IInv'
  <1>1. /\ calls # << >> /\ Work # << >> /\ In("RETURNED")
        /\ Pure /\ UNCHANGED callVars /\ ctl' = Plain("LOOP")
    BY DEF MaskTested, MaskReturns, OnTop, Go, In
  <1>2. Keeps /\ Chain
    <2>1. \E f \in Frame : Replace(f)
      BY MaskTurns DEF Frame
    <2> QED BY <1>1, <2>1, Facts, WorkChain
  <1>3. ctl' \in Onward
    BY <1>1, ControlTypes
  <1> QED BY <1>1, <1>2, <1>3, Quiet

-----------------------------------------------------------------------------
(* main and EvaluateDocument.                                              *)

(* So does main when a file is not there. *)
LEMMA MainSkipsKeeps ==
    ASSUME IInv, MainSkips
    PROVE  IInv'
  <1>1. args' \in Seq(Doc \cup {NoDoc})
    BY Facts, HeadTail DEF MainSkips, TypeOK
  <1>2. UNCHANGED <<files, cell, state, loaded, scan, calls, ctl, output>> /\ In("MAIN")
    BY DEF MainSkips
  <1>3. TypeOK'
    BY <1>1, <1>2, Facts DEF TypeOK
  <1>4. CallsInv' /\ OnlyLoaded' /\ ReadsFinal' /\ ControlInv'
    BY <1>2, Facts DEF CallsInv, OnlyLoaded, ReadsFinal, ControlInv, In
  <1> QED BY <1>3, <1>4 DEF IInv

(* The other steps of main and of EvaluateDocument's loop leave the chain  *)
(* of calls empty.                                                         *)
LEMMA Outside ==
    ASSUME IInv, calls = << >>, UNCHANGED <<files, state, calls>>,
           cell' \in [Addr -> Cell], loaded' \subseteq Doc,
           args' \in Seq(Doc \cup {NoDoc}), ctl' \in Control,
           scan' \in [doc : Doc \cup {NoDoc}, todo : Seq(Int \X Int)],
           \A a \in Addr : IF a[1] \notin loaded' THEN cell'[a] = NullCell
                           ELSE cell'[a].type = "EXPR" => cell'[a] = files[a],
           ctl'.mode \in {"MAIN", "SCAN", "EXIT", "EVALUATE"},
           ctl'.mode = "EVALUATE" => ctl'.at[1] \in loaded',
           ctl'.mode \notin {"MAIN", "EXIT"} => scan'.doc \in loaded' /\ args' # << >>
    PROVE  IInv'
  <1>1. Len(calls') = 0 /\ calls' = << >> /\ calls = << >>
    OBVIOUS
  <1>2. TypeOK'
    BY Facts DEF TypeOK
  <1>3. CallsInv'
    <2>1. \A a \in Addr : state'[a] # "EVALUATING"
      BY Facts DEF CallsInv
    <2> QED BY <1>1, <2>1 DEF CallsInv
  <1>4. OnlyLoaded'
    BY <1>1 DEF OnlyLoaded, In
  <1>5. ReadsFinal'
    BY <1>1 DEF ReadsFinal
  <1>6. ControlInv'
    BY <1>1 DEF ControlInv
  <1> QED BY <1>2, <1>3, <1>4, <1>5, <1>6 DEF IInv

(* So do the other steps of main and EvaluateDocument, which have no open  *)
(* call.                                                                   *)
LEMMA MainKeeps ==
    ASSUME IInv, MainOpens \/ ScanCell \/ MainPrints \/ Exit
    PROVE  IInv'
  <1>1. calls = << >> /\ UNCHANGED <<files, state, calls>>
    BY Facts DEF MainOpens, ScanCell, MainPrints, Exit, ControlInv, In, Go, callVars, Pure
  <1>2. /\ args \in Seq(Doc \cup {NoDoc}) /\ cell \in [Addr -> Cell]
        /\ scan \in [doc : Doc \cup {NoDoc}, todo : Seq(Int \X Int)]
    BY Facts DEF TypeOK
  <1>3. \A a \in Addr : IF a[1] \notin loaded THEN cell[a] = NullCell
                        ELSE cell[a].type = "EXPR" => cell[a] = files[a]
    BY Facts DEF OnlyLoaded
  <1>4. In("SCAN") => scan.doc \in loaded /\ scan.doc \in Doc /\ args # << >>
    BY Facts DEF OnlyLoaded, ControlInv, In
  <1>5. CASE MainOpens
    <2> DEFINE d == Head(args)
    <2>1. d \in Doc
      BY <1>2, <1>5, HeadTail DEF MainOpens
    <2>2. /\ MakeDocument(d) /\ UNCHANGED <<args, calls>>
          /\ scan' = [doc |-> d, todo |-> DocCells(d)] /\ ctl' = Plain("SCAN")
      BY <1>5 DEF MainOpens
    <2>3. args # << >>
      BY <1>5 DEF MainOpens
    <2> HIDE DEF d
    <2>4. DocCells(d) \in Seq(Int \X Int)
      <3>1. Shape[d].cols \in Int /\ Shape[d].rows \in Int /\ 0 \in Int
        BY <2>1, ShapeAssumption
      <3> QED BY <3>1, BlockType, Zenon DEF DocCells
    <2>5. scan' \in [doc : Doc \cup {NoDoc}, todo : Seq(Int \X Int)] /\ scan'.doc = d
      BY <2>1, <2>2, <2>4
    <2>6. loaded' = loaded \cup {d} /\ loaded' \subseteq Doc /\ scan'.doc \in loaded'
      BY <2>1, <2>2, <2>5, Facts DEF MakeDocument
    <2>7. /\ cell' \in [Addr -> Cell]
          /\ \A a \in Addr :
                cell'[a] = IF a[1] = d /\ d \notin loaded THEN files[a] ELSE cell[a]
      BY <1>2, <2>2, Facts DEF MakeDocument, TypeOK
    <2>8. \A a \in Addr : IF a[1] \notin loaded' THEN cell'[a] = NullCell
                          ELSE cell'[a].type = "EXPR" => cell'[a] = files[a]
      BY <1>3, <2>6, <2>7
    <2>9. ctl' \in Control /\ ctl'.mode = "SCAN"
      BY <2>2, ControlTypes DEF Plain
    <2> QED BY <1>1, <1>2, <2>2, <2>3, <2>5, <2>6, <2>7, <2>8, <2>9, Outside
  <1>6. CASE ScanCell
    <2>1. scan.todo # << >> /\ UNCHANGED <<cell, loaded, args>> /\ In("SCAN")
      BY <1>6 DEF ScanCell
    <2>2. Head(scan.todo) \in Int \X Int /\ Tail(scan.todo) \in Seq(Int \X Int)
      BY <1>2, <2>1, HeadTail
    <2>3. scan' = [scan EXCEPT !.todo = Tail(@)]
      BY <1>6 DEF ScanCell
    <2>4. scan'.doc = scan.doc /\ scan' \in [doc : Doc \cup {NoDoc}, todo : Seq(Int \X Int)]
      BY <1>2, <2>2, <2>3
    <2>5. ctl' = Evaluate(Located(scan.doc, Head(scan.todo)))
      BY <1>6 DEF ScanCell
    <2>6. Located(scan.doc, Head(scan.todo)) \in Place
      BY <1>4, <2>1, <2>2 DEF Located, Place
    <2>7. ctl' \in Control /\ ctl'.mode = "EVALUATE" /\ ctl'.at[1] = scan.doc
      BY <2>5, <2>6, ControlTypes DEF Evaluate, Located
    <2> QED BY <1>1, <1>2, <1>3, <1>4, <2>1, <2>4, <2>7, Facts, Outside
  <1>7. CASE MainPrints
    <2>1. In("SCAN") /\ UNCHANGED <<cell, loaded>> /\ args' = Tail(args) /\ scan' = Idle
          /\ ctl' = Plain("MAIN")
      BY <1>7 DEF MainPrints
    <2>2. args' \in Seq(Doc \cup {NoDoc})
      BY <1>2, <1>4, <2>1, HeadTail
    <2>3. scan' \in [doc : Doc \cup {NoDoc}, todo : Seq(Int \X Int)]
      BY <2>1, EmptySeq DEF Idle
    <2>4. ctl' \in Control /\ ctl'.mode = "MAIN"
      BY <2>1, ControlTypes DEF Plain
    <2> QED BY <1>1, <1>2, <1>3, <2>1, <2>2, <2>3, <2>4, Facts, Outside
  <1>8. CASE Exit
    <2>1. UNCHANGED <<cell, loaded, args, scan>> /\ ctl' = Plain("EXIT")
      BY <1>8 DEF Exit, Go, Pure, callVars
    <2>2. ctl' \in Control /\ ctl'.mode = "EXIT"
      BY <2>1, ControlTypes DEF Plain
    <2> QED BY <1>1, <1>2, <1>3, <2>1, <2>2, Facts, Outside
  <1> QED BY <1>5, <1>6, <1>7, <1>8

-----------------------------------------------------------------------------
(* EvaluateCell.                                                           *)

(* It returns without reducing anything: the cell was final already, is    *)
(* open further down, or its text does not parse.                          *)
LEMMA Answers ==
    ASSUME IInv, In("EVALUATE"), ctl.at \in Addr,
           UNCHANGED <<state, loaded, calls>>, UNCHANGED callVars,
           NEW ok \in BOOLEAN, ctl' = Returned(ok), cell' \in [Addr -> Cell],
           \A a \in Addr : \/ cell'[a] = cell[a]
                           \/ a = ctl.at /\ state[a] = "STABLE" /\ cell'[a].type # "EXPR",
           ok => cell'[ctl.at].type # "EXPR",
           ~ok => state[ctl.at] = "EVALUATING"
    PROVE  IInv'
  <1>1. /\ ctl' \in Control /\ ctl'.mode = "RETURNED" /\ ctl'.ok = ok
        /\ UNCHANGED <<files, state, loaded, args, scan, calls, output>>
    BY ControlTypes DEF Returned, callVars
  <1>2. TypeOK'
    BY <1>1, Facts DEF TypeOK
  <1>3. CallsInv'
    <2>1. \A i \in 1..Len(calls) : calls[i].at \in Addr
      <3>1. \A i \in 1..Len(calls) : calls[i] \in Call
        BY Facts, ElementOfSeq
      <3> QED BY <3>1 DEF Call
    <2>2. \A i \in 1..Len(calls) : state[calls[i].at] = "EVALUATING"
      BY <2>1, Facts DEF CallsInv
    <2>3. \A i \in 1..Len(calls) : cell'[calls[i].at] = cell[calls[i].at]
      BY <2>1, <2>2
    <2> QED BY <1>1, <2>3, Facts DEF CallsInv
  <1>4. OnlyLoaded'
    <2>1. ctl.at[1] \in loaded /\ scan.doc \in loaded
      BY Facts DEF OnlyLoaded, In
    <2>2. \A a \in Addr : IF a[1] \notin loaded THEN cell'[a] = NullCell
                          ELSE cell'[a].type = "EXPR" => cell'[a] = files[a]
      BY <2>1, Facts DEF OnlyLoaded
    <2> QED BY <1>1, <2>1, <2>2, Facts DEF OnlyLoaded, In
  <1>5. ReadsFinal'
    <2>1. calls # << >> => Waiting(Top) /\ ctl.at = Awaited(Top)
      BY Facts DEF ReadsFinal
    <2>2. Top' = Top
      BY <1>1 DEF Top
    <2>3. ~ok => \E i \in 1..Len(calls) : calls[i].at = ctl.at
      BY Facts DEF CallsInv
    <2>4. \A i \in 1..(Len(calls) - 1) :
              Waiting(calls[i]) /\ calls[i + 1].at = Awaited(calls[i])
      BY Facts DEF ReadsFinal
    <2> QED BY <1>1, <2>1, <2>2, <2>3, <2>4 DEF ReadsFinal, In
  <1>6. ControlInv'
    BY <1>1, Facts DEF ControlInv, In
  <1> QED BY <1>2, <1>3, <1>4, <1>5, <1>6 DEF IInv

(* EvaluateCell that answers at once keeps the invariant. *)
LEMMA EvaluateAnswers ==
    ASSUME IInv, EvaluateFinal \/ EvaluateCycle \/ EvaluateUnparsable
    PROVE  IInv'
  <1>1. /\ In("EVALUATE") /\ ctl.at \in Addr
        /\ UNCHANGED <<state, loaded, calls>> /\ UNCHANGED callVars
    BY DEF EvaluateFinal, EvaluateCycle, EvaluateUnparsable, EvaluatePending, CellExists,
           Pure, Go
  <1>2. cell \in [Addr -> Cell]
    BY Facts
  <1>3. CASE EvaluateFinal
    <2>1. cell' = cell /\ ctl' = Returned(TRUE) /\ cell[ctl.at].type # "EXPR"
      BY <1>3 DEF EvaluateFinal, Go, Pure
    <2> QED BY <1>1, <1>2, <2>1, Answers
  <1>4. CASE EvaluateCycle
    <2>1. cell' = cell /\ ctl' = Returned(FALSE) /\ state[ctl.at] = "EVALUATING"
      BY <1>4 DEF EvaluateCycle, Go, Pure
    <2> QED BY <1>1, <1>2, <2>1, Answers
  <1>5. CASE EvaluateUnparsable
    <2>1. /\ cell' = [cell EXCEPT ![ctl.at] = ErrorNode("PARSE")]
          /\ ctl' = Returned(TRUE) /\ state[ctl.at] = "STABLE"
      BY <1>5 DEF EvaluateUnparsable, Go
    <2>2. ErrorNode("PARSE") \in Cell /\ ErrorNode("PARSE").type # "EXPR"
      BY NodeTypes DEF ErrorNode, Cell, FinalCell, ExprError
    <2>3. /\ cell' \in [Addr -> Cell] /\ cell'[ctl.at].type # "EXPR"
          /\ \A a \in Addr : a # ctl.at => cell'[a] = cell[a]
      BY <1>1, <1>2, <2>1, <2>2
    <2> QED BY <1>1, <2>1, <2>3, Answers
  <1> QED BY <1>3, <1>4, <1>5

(* Every call is open for a cell. *)
LEMMA CallAts ==
    ASSUME calls \in Seq(Call)
    PROVE  \A i \in 1..Len(calls) : calls[i] \in Call /\ calls[i].at \in Addr
  <1>1. \A i \in 1..Len(calls) : calls[i] \in Call
    BY ElementOfSeq
  <1> QED BY <1>1 DEF Call

(* The cell is not open yet: its flag was STABLE. *)
LEMMA EnterKeeps ==
    ASSUME IInv, EvaluateEnter
    PROVE  IInv'
  <1> DEFINE a == ctl.at
             c == [at |-> a, work |-> << >>]
             n == Len(calls)
  <1>1. /\ In("EVALUATE") /\ a \in Addr /\ cell[a].type = "EXPR" /\ state[a] = "STABLE"
        /\ cell[a].expr # Unparsable
        /\ state' = [state EXCEPT ![a] = "EVALUATING"]
        /\ calls' = Append(calls, c)
        /\ ctl' = Reduce(cell[a].expr)
        /\ UNCHANGED <<files, cell, loaded, args, scan, output>>
    BY DEF EvaluateEnter, EvaluatePending, CellExists, Go, callVars
  <1>2. c \in Call /\ c.at = a
    BY <1>1, EmptySeq DEF Call
  <1>3. calls \in Seq(Call) /\ n \in Nat
    BY Facts, LenProperties
  <1> HIDE DEF c
  <1>4. /\ calls' \in Seq(Call) /\ Len(calls') = n + 1
        /\ \A i \in 1..n : calls'[i] = calls[i]
        /\ calls'[n + 1] = c
    BY <1>1, <1>2, <1>3, AppendProperties
  <1>5. calls' # << >> /\ \A i \in 1..Len(calls') : i \in 1..n \/ i = n + 1
    BY <1>3, <1>4, EmptySeq
  <1>6. ctl' \in Control /\ ctl'.mode = "REDUCE"
    <2>1. cell[a].expr \in Node
      BY <1>1, Facts, CellTypes
    <2> QED BY <1>1, <2>1, ControlTypes DEF Reduce, Onward
  <1>7. TypeOK'
    BY <1>1, <1>4, <1>6, Facts DEF TypeOK
  <1>8. \A i \in 1..n : calls[i].at # a
    BY <1>1, Facts DEF CallsInv
  <1>9. CallsInv'
    <2>1. \A i, j \in 1..Len(calls') : calls'[i].at = calls'[j].at => i = j
      BY <1>2, <1>4, <1>5, <1>8, Facts DEF CallsInv
    <2>2. \A b \in Addr :
              state'[b] = "EVALUATING" <=> \E i \in 1..Len(calls') : calls'[i].at = b
      <3> TAKE b \in Addr
      <3>1. state'[b] = IF b = a THEN "EVALUATING" ELSE state[b]
        BY <1>1, Facts DEF TypeOK
      <3>2. CASE b = a
        <4>1. n + 1 \in 1..Len(calls')
          BY <1>3, <1>4
        <4> QED BY <1>2, <1>4, <3>1, <3>2, <4>1
      <3>3. CASE b # a
        <4>1. state[b] = "EVALUATING" <=> \E i \in 1..n : calls[i].at = b
          BY Facts DEF CallsInv
        <4>2. (\E i \in 1..n : calls[i].at = b) <=> \E i \in 1..Len(calls') : calls'[i].at = b
          BY <1>2, <1>3, <1>4, <3>3
        <4> QED BY <3>1, <3>3, <4>1, <4>2
      <3> QED BY <3>2, <3>3
    <2>3. cell[a] = files[a]
      BY <1>1, Facts DEF OnlyLoaded
    <2>4. \A i \in 1..Len(calls') : cell'[calls'[i].at] = files'[calls'[i].at]
                                 /\ cell'[calls'[i].at].type = "EXPR"
      BY <1>1, <1>2, <1>4, <1>5, <2>3, Facts DEF CallsInv
    <2> QED BY <2>1, <2>2, <2>4 DEF CallsInv
  <1>10. OnlyLoaded'
    <2>1. a[1] \in loaded /\ scan.doc \in loaded
      BY <1>1, Facts DEF OnlyLoaded, In
    <2>2. \A i \in 1..Len(calls') : calls'[i].at[1] \in loaded
      BY <1>2, <1>4, <1>5, <2>1, Facts DEF OnlyLoaded
    <2> QED BY <1>1, <1>6, <2>1, <2>2, Facts DEF OnlyLoaded, In
  <1>11. ReadsFinal'
    <2>1. \A i \in 1..(Len(calls') - 1) :
              Waiting(calls'[i]) /\ calls'[i + 1].at = Awaited(calls'[i])
      <3> TAKE i \in 1..(Len(calls') - 1)
      <3>1. i \in 1..n /\ calls'[i] = calls[i]
        BY <1>3, <1>4
      <3>2. CASE i = n
        <4>1. calls[i] = Top /\ calls # << >>
          BY <1>3, <3>1, <3>2, EmptySeq DEF Top
        <4>2. Waiting(Top) /\ a = Awaited(Top)
          BY <1>1, <4>1, Facts DEF ReadsFinal
        <4> QED BY <1>2, <1>4, <3>1, <3>2, <4>1, <4>2
      <3>3. CASE i # n
        <4>1. i \in 1..(n - 1) /\ i + 1 \in 1..n
          BY <1>3, <3>1, <3>3
        <4>2. Waiting(calls[i]) /\ calls[i + 1].at = Awaited(calls[i])
          BY <4>1, Facts DEF ReadsFinal
        <4> QED BY <1>4, <3>1, <4>1, <4>2
      <3> QED BY <3>2, <3>3
    <2> QED BY <1>6, <2>1 DEF ReadsFinal, In
  <1>12. ControlInv'
    BY <1>1, <1>5, <1>6, Facts DEF ControlInv, In
  <1> QED BY <1>7, <1>9, <1>10, <1>11, <1>12 DEF IInv

(* A sequence without its last item. *)
LEMMA DropLast ==
    ASSUME NEW S, NEW s \in Seq(S), Len(s) >= 1
    PROVE  /\ SubSeq(s, 1, Len(s) - 1) \in Seq(S)
           /\ Len(SubSeq(s, 1, Len(s) - 1)) = Len(s) - 1
           /\ \A i \in 1..(Len(s) - 1) : SubSeq(s, 1, Len(s) - 1)[i] = s[i]
  <1> DEFINE n == Len(s)
             t == SubSeq(s, 1, n - 1)
  <1>1. n \in Nat /\ n >= 1 /\ n - 1 \in Int /\ 1 \in Int
    BY LenProperties
  <1>2. \A i \in 1..(n - 1) : s[i] \in S
    BY <1>1, ElementOfSeq
  <1>3. /\ t \in Seq(S) /\ Len(t) = IF 1 <= n - 1 THEN (n - 1) - 1 + 1 ELSE 0
        /\ \A i \in 1..((n - 1) - 1 + 1) : t[i] = s[1 + i - 1]
    BY <1>1, <1>2, SubSeqProperties
  <1> HIDE DEF t, n
  <1>4. Len(t) = n - 1
    <2>1. CASE 1 <= n - 1
      BY <1>1, <1>3, <2>1
    <2>2. CASE ~(1 <= n - 1)
      <3>1. Len(t) = 0
        BY <1>3, <2>2, Zenon
      <3> QED BY <1>1, <2>2, <3>1
    <2> QED BY <2>1, <2>2
  <1>5. ASSUME NEW i \in 1..(n - 1)
        PROVE  t[i] = s[i]
    <2>1. i \in 1..((n - 1) - 1 + 1) /\ 1 + i - 1 = i
      BY <1>1
    <2> QED BY <1>3, <2>1
  <1> QED BY <1>3, <1>4, <1>5 DEF t, n

(* The innermost call ends; the call below it waits for its cell. *)
LEMMA StoreKeeps ==
    ASSUME IInv, EvaluateStore
    PROVE  IInv'
  <1> DEFINE n == Len(calls)
             v == SetCellFromNode(ctl.value)
  <1>1. /\ In("VALUE") /\ calls # << >> /\ ctl.value \in Value
        /\ cell' = [cell EXCEPT ![Here] = v]
        /\ state' = [state EXCEPT ![Here] = "STABLE"]
        /\ calls' = SubSeq(calls, 1, n - 1)
        /\ ctl' = Returned(TRUE)
        /\ UNCHANGED <<files, loaded, args, scan, output>>
    BY Facts, ControlFields DEF EvaluateStore, ControlInv, In, Go, callVars
  <1>2. v \in FinalCell /\ v.type # "EXPR"
    BY <1>1, StoredType, StoredIsFinal
  <1> HIDE DEF v
  <1>3. calls \in Seq(Call) /\ n \in Nat /\ n >= 1 /\ Here \in Addr /\ Here = calls[n].at
    BY <1>1, Facts, TopType DEF Here, Top
  <1>4. /\ calls' \in Seq(Call) /\ Len(calls') = n - 1
        /\ \A i \in 1..(n - 1) : calls'[i] = calls[i]
    BY <1>1, <1>3, DropLast
  <1>5. ctl' \in Control /\ ctl'.mode = "RETURNED" /\ ctl'.ok = TRUE
    BY <1>1, ControlTypes DEF Returned
  <1>6. /\ cell' \in [Addr -> Cell] /\ state' \in [Addr -> {"STABLE", "EVALUATING"}]
        /\ cell'[Here] = v /\ state'[Here] = "STABLE"
        /\ \A a \in Addr : a # Here => cell'[a] = cell[a] /\ state'[a] = state[a]
    <2>1. v \in Cell
      BY <1>2 DEF Cell
    <2> QED BY <1>1, <1>3, <2>1, Facts DEF TypeOK
  <1>7. TypeOK'
    BY <1>1, <1>4, <1>5, <1>6, Facts DEF TypeOK
  <1>8. \A i \in 1..(n - 1) : i \in 1..n /\ calls[i].at \in Addr /\ calls[i].at # Here
    <2> TAKE i \in 1..(n - 1)
    <2>1. i \in 1..n /\ n \in 1..n /\ i # n
      BY <1>3
    <2>2. calls[i].at = calls[n].at => i = n
      BY <2>1, Facts, Zenon DEF CallsInv
    <2> QED BY <1>3, <2>1, <2>2, CallAts
  <1>9. CallsInv'
    <2>1. \A i, j \in 1..Len(calls') : calls'[i].at = calls'[j].at => i = j
      BY <1>4, <1>8, Facts DEF CallsInv
    <2>2. \A a \in Addr :
              state'[a] = "EVALUATING" <=> \E i \in 1..Len(calls') : calls'[i].at = a
      <3> TAKE a \in Addr
      <3>1. CASE a = Here
        BY <1>4, <1>6, <1>8, <3>1
      <3>2. CASE a # Here
        <4>1. state'[a] = "EVALUATING" <=> \E i \in 1..n : calls[i].at = a
          BY <1>6, <3>2, Facts DEF CallsInv
        <4>2. \A i \in 1..n : calls[i].at = a => i \in 1..(n - 1)
          BY <1>3, <3>2
        <4> QED BY <1>4, <1>8, <4>1, <4>2
      <3> QED BY <3>1, <3>2
    <2>3. \A i \in 1..Len(calls') : cell'[calls'[i].at] = files'[calls'[i].at]
                                 /\ cell'[calls'[i].at].type = "EXPR"
      BY <1>1, <1>4, <1>6, <1>8, Facts DEF CallsInv
    <2> QED BY <2>1, <2>2, <2>3 DEF CallsInv
  <1>10. OnlyLoaded'
    <2>1. Here[1] \in loaded /\ scan.doc \in loaded
      BY <1>1, Facts DEF OnlyLoaded, In, D
    <2>2. \A a \in Addr : IF a[1] \notin loaded' THEN cell'[a] = NullCell
                          ELSE cell'[a].type = "EXPR" => cell'[a] = files'[a]
      BY <1>1, <1>2, <1>6, <2>1, Facts DEF OnlyLoaded
    <2>3. \A i \in 1..Len(calls') : calls'[i].at[1] \in loaded'
      BY <1>1, <1>4, <1>8, Facts DEF OnlyLoaded
    <2> QED BY <1>1, <1>5, <2>1, <2>2, <2>3 DEF OnlyLoaded, In
  <1>11. ReadsFinal'
    <2>1. \A i \in 1..(Len(calls') - 1) :
              Waiting(calls'[i]) /\ calls'[i + 1].at = Awaited(calls'[i])
      <3> TAKE i \in 1..(Len(calls') - 1)
      <3>1. i \in 1..(n - 1) /\ i + 1 \in 1..(n - 1)
        BY <1>3, <1>4
      <3>2. Waiting(calls[i]) /\ calls[i + 1].at = Awaited(calls[i])
        BY <3>1, Facts DEF ReadsFinal
      <3> QED BY <1>4, <3>1, <3>2
    <2>2. ASSUME calls' # << >>
          PROVE  Waiting(Top') /\ Awaited(Top') = Here
      <3>1. n - 1 \in 1..(n - 1) /\ (n - 1) + 1 = n
        BY <1>3, <1>4, <2>2, EmptySeq
      <3>2. Top' = calls[n - 1]
        BY <1>4, <3>1 DEF Top
      <3>3. Waiting(calls[n - 1]) /\ calls[n].at = Awaited(calls[n - 1])
        BY <3>1, Facts DEF ReadsFinal
      <3> QED BY <1>3, <3>2, <3>3
    <2> QED BY <1>2, <1>3, <1>5, <1>6, <2>1, <2>2 DEF ReadsFinal, In
  <1>12. ControlInv'
    BY <1>1, <1>5, Facts DEF ControlInv, In
  <1> QED BY <1>7, <1>9, <1>10, <1>11, <1>12 DEF IInv

(* EvaluateCell's return to EvaluateDocument keeps the invariant. *)
LEMMA ResumesKeeps ==
    ASSUME IInv, ScanResumes
    PROVE  IInv'
  <1>1. /\ In("RETURNED") /\ calls = << >>
        /\ UNCHANGED <<files, cell, state, loaded, args, scan, calls, output>>
        /\ ctl' = Plain("SCAN")
    BY DEF ScanResumes, Go, Pure, callVars
  <1>2. ctl' \in Control /\ ctl'.mode = "SCAN"
    BY <1>1, ControlTypes DEF Plain
  <1>3. scan.doc \in loaded /\ args # << >>
    BY <1>1, Facts DEF OnlyLoaded, ControlInv, In
  <1>4. /\ args \in Seq(Doc \cup {NoDoc})
        /\ scan \in [doc : Doc \cup {NoDoc}, todo : Seq(Int \X Int)]
    BY Facts DEF TypeOK
  <1>5. \A a \in Addr : IF a[1] \notin loaded THEN cell[a] = NullCell
                        ELSE cell[a].type = "EXPR" => cell[a] = files[a]
    BY Facts DEF OnlyLoaded
  <1> QED BY <1>1, <1>2, <1>3, <1>4, <1>5, Facts, Outside

-----------------------------------------------------------------------------
(* The invariant.                                                          *)

(* The initial states satisfy the invariant. *)
LEMMA InitKeeps == Init => IInv
  <1> SUFFICES ASSUME Init PROVE IInv
    OBVIOUS
  <1>1. /\ files \in Contents /\ cell = [a \in Addr |-> NullCell]
        /\ state = [a \in Addr |-> "STABLE"] /\ args \in ArgLists
        /\ loaded = {} /\ scan = Idle /\ calls = << >> /\ ctl = Plain("MAIN")
    BY DEF Init
  <1>2. Len(calls) = 0 /\ calls \in Seq(Call)
    BY <1>1, EmptySeq
  <1>3. ctl \in Control /\ ctl.mode = "MAIN"
    BY <1>1, ControlTypes DEF Plain
  <1>4. TypeOK
    <2>1. NullCell \in Cell
      BY DEF Cell, FinalCell
    <2>2. scan \in [doc : Doc \cup {NoDoc}, todo : Seq(Int \X Int)]
      BY <1>1, EmptySeq DEF Idle
    <2> QED BY <1>1, <1>2, <1>3, <2>1, <2>2, ContentsAssumption, ArgListsAssumption DEF TypeOK
  <1>5. CallsInv
    BY <1>1, <1>2 DEF CallsInv
  <1>6. OnlyLoaded
    BY <1>1, <1>2, <1>3 DEF OnlyLoaded, In
  <1>7. ReadsFinal
    BY <1>2, <1>3 DEF ReadsFinal, In
  <1>8. ControlInv
    BY <1>1, <1>3 DEF ControlInv
  <1> QED BY <1>4, <1>5, <1>6, <1>7, <1>8 DEF IInv

(* Every step keeps the invariant. *)
LEMMA StepKeeps == IInv /\ [Next]_vars => IInv'
  <1> SUFFICES ASSUME IInv, [Next]_vars PROVE IInv'
    OBVIOUS
  <1>1. CASE UNCHANGED vars
    <2>1. UNCHANGED <<files, cell, state, loaded, args, scan, calls, ctl>>
      BY <1>1 DEF vars
    <2>2. TypeOK' /\ CallsInv' /\ OnlyLoaded' /\ ReadsFinal' /\ ControlInv'
      BY <2>1, Facts DEF TypeOK, CallsInv, OnlyLoaded, ReadsFinal, ControlInv, In, Top
    <2> QED BY <2>2 DEF IInv
  <1>2. CASE MainStep
    BY <1>2, MainSkipsKeeps, MainKeeps DEF MainStep
  <1>3. CASE CellStep
    <2>1. CASE EvaluateMissing
      BY <2>1, Stops DEF EvaluateMissing, In
    <2> QED BY <1>3, <2>1, EvaluateAnswers, EnterKeeps, StoreKeeps, ResumesKeeps DEF CellStep
  <1>4. CASE ReduceStep
    <2>1. CASE ReduceBadRange \/ ReduceBadCell
      BY <2>1, Stops DEF ReduceBadRange, ReduceBadCell, Reducing, In
    <2> QED BY <1>4, <2>1, ReduceAtOnce, ReduceReads, ReduceReturns, ReduceOperands,
               MathGoesOn DEF ReduceStep
  <1>5. CASE FuncStep
    <2>1. CASE ApplyCol
      BY <2>1, Stops DEF ApplyCol, Applying, In
    <2> QED BY <1>5, <2>1, FuncStarts, ArgsGoOn, AppliesAtOnce, AppliesLoop DEF FuncStep
  <1>6. CASE LoopStep
    BY <1>6, LoopAsks, LoopEnds, FoldGoesOn, MaskGoesOn DEF LoopStep
  <1> QED BY <1>1, <1>2, <1>3, <1>4, <1>5, <1>6 DEF Next, Step, Rest

(* Spec satisfies the inductive invariant the theorems below draw on. *)
LEMMA Invariance == Spec => []IInv
  BY InitKeeps, StepKeeps, PTL DEF Spec

(* Whatever the sheets hold, ReduceNode returns only values its caller has *)
(* a case for, EvaluateCell stores only numbers, strings and errors, and   *)
(* no step dereferences anything but a node.                               *)
THEOREM TypeCorrect == Spec => []TypeOK
  BY Invariance, PTL DEF IInv

(* EvaluateCell marks a cell EVALUATING exactly while one call has it open *)
(* and clears the mark on every way out: it never enters a cell twice, so  *)
(* circular references cannot make it recurse for ever.                    *)
THEOREM CallsDiscipline == Spec => []CallsInv
  BY Invariance, PTL DEF IInv

(* EvaluateIntoNode and the loops over ranges never read a cell that is    *)
(* still an expression, unless EvaluateCell reported a cycle, and then the *)
(* cell is one that an outer call has open.                                *)
THEOREM ReadsAreFinal == Spec => []ReadsFinal
  BY Invariance, PTL DEF IInv

(* Cells exist only in documents that MakeDocument has loaded, and an      *)
(* expression found in one is the one its file has.                        *)
THEOREM DocumentsOnDemand == Spec => []OnlyLoaded
  BY Invariance, PTL DEF IInv

-----------------------------------------------------------------------------
(* Cells that are final stay as they are.                                  *)

(* The only steps that write cells: a document is loaded, and EvaluateCell *)
(* stores what it has made of an expression.                               *)
LEMMA Writers ==
    ASSUME Next
    PROVE  \/ UNCHANGED <<cell, loaded>>
           \/ \E d : MakeDocument(d)
           \/ EvaluateUnparsable
           \/ EvaluateStore
  <1>1. CASE MainStep
    BY <1>1 DEF MainStep, MainSkips, MainOpens, ScanCell, MainPrints, Exit, Pure
  <1>2. CASE CellStep
    BY <1>2 DEF CellStep, EvaluateMissing, EvaluateFinal, EvaluateCycle, EvaluateEnter,
                ScanResumes, Pure, Stop
  <1>3. CASE ReduceStep
    BY <1>3 DEF ReduceStep, IntoReturns, ReduceFinal, ReduceRange, ReduceBadRange,
                ReduceMacro, ReduceNoMacro, ReduceCell, ReduceBadCell, ReduceNoFile,
                ReduceXeno, ReduceBadXeno, ReduceTerm, NegateReturns, ReduceSum,
                MathFails, MathReturns, Pure, Stop
  <1>4. CASE FuncStep
    BY <1>4 DEF FuncStep, ReduceFunc, ArgsReturn, ApplyMismatch, ApplyPure, ApplyRow,
                ApplyCol, ApplyBodyCol, ApplyCell, ApplyAggregate, ApplyMaskSum, Pure, Stop
  <1>5. CASE LoopStep
    BY <1>5 DEF LoopStep, FoldNumber, FoldRange, FoldCell, FoldReturns, FoldEnds, MaskCell,
                MaskTested, MaskReturns, MaskEnds, Pure
  <1>6. CASE Rest
    BY <1>6 DEF Rest, vars
  <1> QED BY <1>1, <1>2, <1>3, <1>4, <1>5, <1>6 DEF Next, Step

(* No step changes a final cell of a loaded document. *)
LEMMA FinalStays ==
    ASSUME IInv, [Next]_vars, NEW a \in Addr, a[1] \in loaded, cell[a].type # "EXPR"
    PROVE  cell'[a] = cell[a]
  <1>1. cell \in [Addr -> Cell]
    BY Facts
  <1>2. CASE UNCHANGED cell
    BY <1>2
  <1>3. CASE \E d : MakeDocument(d)
    BY <1>3 DEF MakeDocument
  <1>4. CASE EvaluateUnparsable
    <2>1. cell[ctl.at].type = "EXPR" /\ cell' = [cell EXCEPT ![ctl.at] = ErrorNode("PARSE")]
      BY <1>4 DEF EvaluateUnparsable, EvaluatePending
    <2> QED BY <1>1, <2>1
  <1>5. CASE EvaluateStore
    <2>1. calls # << >>
      BY <1>5, Facts DEF EvaluateStore, ControlInv, In
    <2>2. Len(calls) \in 1..Len(calls)
      BY <2>1, Facts, TopType
    <2>3. cell[Here].type = "EXPR"
      BY <2>2, Facts DEF CallsInv, Here, Top
    <2>4. cell' = [cell EXCEPT ![Here] = SetCellFromNode(ctl.value)]
      BY <1>5 DEF EvaluateStore
    <2> QED BY <1>1, <2>3, <2>4
  <1>6. Next \/ UNCHANGED cell
    BY DEF vars
  <1> QED BY <1>2, <1>3, <1>4, <1>5, <1>6, Writers

(* A cell of a loaded document that holds a value keeps it: no later       *)
(* reference parses its file again, and EvaluateCell stores in it once.    *)
THEOREM FinalCellsStable == Spec => FinalStable
  <1>1. IInv /\ [Next]_vars =>
          [\A a \in Addr : a[1] \in loaded /\ cell[a].type # "EXPR" => cell'[a] = cell[a]]_vars
    BY FinalStays
  <1> QED BY <1>1, Invariance, PTL DEF Spec, FinalStable

-----------------------------------------------------------------------------
(* Every cell of a printed document is final, and what was printed of it   *)
(* stays true.                                                             *)

(* The cells EvaluateDocument walks over and PrintDocument reads. *)
Used(d) == {a \in Addr : a[1] = d /\ a[2] < Shape[d].cols /\ a[3] < Shape[d].rows}

(* The cell EvaluateDocument has asked for and not got back yet: the       *)
(* outermost open call, or the call about to be made.                      *)
Asked(a) == IF calls # << >> THEN a = calls[1].at ELSE In("EVALUATE") /\ a = ctl.at

Listed(a) == \E i \in 1..Len(scan.todo) : scan.todo[i] = <<a[2], a[3]>>

(* Of the document that is scanned, a cell is final, or listed, or asked. *)
ScanInv ==
    ctl.mode \notin {"MAIN", "EXIT", "ABORT"} =>
        \A a \in Used(scan.doc) : cell[a].type # "EXPR" \/ Listed(a) \/ Asked(a)

Snapshots == UNION {[S -> Cell] : S \in SUBSET Addr}
OutputInv ==
    /\ output \in Seq([doc : Doc, cells : Snapshots])
    /\ \A i \in 1..Len(output) : \A a \in DOMAIN output[i].cells :
          a \in Addr /\ a[1] \in loaded

OInv == ScanInv /\ OutputInv /\ OutputFinal

-----------------------------------------------------------------------------
(* The double loop of EvaluateDocument visits every used cell.             *)

Visits(cols, rows, c, r) ==
    \E i \in 1..Len(Block(0, 0, cols, rows)) : Block(0, 0, cols, rows)[i] = <<c, r>>

(* Every cell of the used area is in the list of the cells to visit. *)
LEMMA BlockVisits ==
    ASSUME NEW cols \in Nat, NEW rows \in Nat, NEW c \in Nat, NEW r \in Nat,
           c < cols, r < rows
    PROVE  Visits(cols, rows, c, r)
  <1> DEFINE i == c * rows + r + 1
             b == Block(0, 0, cols, rows)
  <1>1. cols * rows \in Nat /\ c * rows \in Nat
    OBVIOUS
  <1>2. (c + 1) * rows <= cols * rows
    <2>1. c + 1 <= cols
      OBVIOUS
    <2> QED BY <2>1
  <1>3. (c + 1) * rows = c * rows + rows
    OBVIOUS
  <1>4. i \in 1..(cols * rows)
    BY <1>1, <1>2, <1>3
  <1>5. b = [j \in 1..(cols * rows) |-> <<0 + (j - 1) \div rows, 0 + ((j - 1) % rows)>>]
    <2>1. ~(cols <= 0 \/ rows <= 0)
      OBVIOUS
    <2> QED BY <2>1, Zenon DEF Block
  <1>6. Len(b) = cols * rows
    <2> HIDE DEF b
    <2> QED BY <1>1, <1>5
  <1>7. i - 1 = c * rows + r
    BY <1>1
  <1>8. (i - 1) \div rows = c /\ (i - 1) % rows = r
    BY <1>7, QuotientOfIndex
  <1>9. b[i] = <<0 + (i - 1) \div rows, 0 + ((i - 1) % rows)>>
    <2> HIDE DEF b, i
    <2> QED BY <1>4, <1>5
  <1>10. b[i] = <<c, r>>
    <2> HIDE DEF b, i
    <2> QED BY <1>8, <1>9
  <1> QED BY <1>4, <1>6, <1>10 DEF Visits

-----------------------------------------------------------------------------
(* How a step changes the stack of calls.                                  *)

(* Inside of an expression the outermost call stays open for its cell.     *)
LEMMA InnerStep ==
    ASSUME IInv, ReduceStep \/ FuncStep \/ LoopStep
    PROVE  /\ calls # << >>
           /\ UNCHANGED calls \/ \E w : SetWork(w)
           /\ UNCHANGED callVars
  <1> USE DEF Push, Pop, Replace, Go, Stop, Into
  <1>1. CASE ReduceStep
    <2>1. calls # << >>
      BY <1>1, Facts DEF ControlInv, ReduceStep, IntoReturns, ReduceFinal, ReduceRange,
         ReduceBadRange, ReduceMacro, ReduceNoMacro, ReduceCell, ReduceBadCell, ReduceNoFile,
         ReduceXeno, ReduceBadXeno, ReduceTerm, NegateReturns, ReduceSum, MathFails,
         MathReturns, Reducing, In, OnTop
    <2>2. (UNCHANGED calls \/ \E w : SetWork(w)) /\ UNCHANGED callVars
      BY <1>1 DEF ReduceStep, IntoReturns, ReduceFinal, ReduceRange,
         ReduceBadRange, ReduceMacro, ReduceNoMacro, ReduceCell, ReduceBadCell, ReduceNoFile,
         ReduceXeno, ReduceBadXeno, ReduceTerm, NegateReturns, ReduceSum, MathFails,
         MathReturns
    <2> QED BY <2>1, <2>2
  <1>2. CASE FuncStep
    <2>1. calls # << >>
      BY <1>2, Facts DEF ControlInv, FuncStep, ReduceFunc, ArgsReturn, ApplyMismatch,
         ApplyPure, ApplyRow, ApplyCol, ApplyBodyCol, ApplyCell, ApplyAggregate,
         ApplyMaskSum, Applying, Reducing, In, OnTop
    <2>2. (UNCHANGED calls \/ \E w : SetWork(w)) /\ UNCHANGED callVars
      BY <1>2 DEF FuncStep, ReduceFunc, ArgsReturn, ApplyMismatch,
         ApplyPure, ApplyRow, ApplyCol, ApplyBodyCol, ApplyCell, ApplyAggregate,
         ApplyMaskSum
    <2> QED BY <2>1, <2>2
  <1>3. CASE LoopStep
    <2>1. calls # << >>
      BY <1>3 DEF LoopStep, FoldNumber, FoldRange, FoldCell, FoldReturns, FoldEnds, MaskCell,
         MaskTested, MaskReturns, MaskEnds, Turn, OnTop
    <2>2. (UNCHANGED calls \/ \E w : SetWork(w)) /\ UNCHANGED callVars
      BY <1>3 DEF LoopStep, FoldNumber, FoldRange, FoldCell, FoldReturns, FoldEnds, MaskCell,
         MaskTested, MaskReturns, MaskEnds
    <2> QED BY <2>1, <2>2
  <1> QED BY <1>1, <1>2, <1>3

(* A change of the work in hand leaves the cell of the outermost call.     *)
LEMMA OutermostStays ==
    ASSUME calls \in Seq(Call), calls # << >>, UNCHANGED calls \/ \E w : SetWork(w)
    PROVE  calls' # << >> /\ calls'[1].at = calls[1].at
  <1>1. Len(calls) \in Nat /\ 1 \in 1..Len(calls) /\ calls \in [1..Len(calls) -> Call]
    BY TopType, LenProperties
  <1>2. CASE UNCHANGED calls
    BY <1>2
  <1>3. CASE \E w : SetWork(w)
    <2>1. PICK w : calls' = [calls EXCEPT ![Len(calls)] = [calls[Len(calls)] EXCEPT !.work = w]]
      BY <1>3 DEF SetWork
    <2>2. DOMAIN calls' = 1..Len(calls)
      BY <1>1, <2>1
    <2>3. calls'[1] = IF Len(calls) = 1 THEN [calls[1] EXCEPT !.work = w] ELSE calls[1]
      BY <1>1, <2>1
    <2>4. calls[1] \in Call
      BY <1>1
    <2>5. [calls[1] EXCEPT !.work = w].at = calls[1].at
      BY <2>4 DEF Call
    <2>6. calls' # << >>
      BY <1>1, <2>2
    <2> QED BY <2>3, <2>5, <2>6
  <1> QED BY <1>2, <1>3

-----------------------------------------------------------------------------
(* A step that goes on with the scan: what was final stays final, and what *)
(* was asked for is still asked for or final.                              *)
LEMMA ScanKeeps ==
    ASSUME IInv, ScanInv, Next, UNCHANGED scan,
           ctl.mode \notin {"MAIN", "EXIT", "ABORT"},
           \A a \in Used(scan.doc) : Asked(a) => cell'[a].type # "EXPR" \/ Asked(a)'
    PROVE  ScanInv'
  <1>1. scan.doc \in loaded
    BY Facts DEF OnlyLoaded, In
  <1>2. \A a \in Used(scan.doc) : cell[a].type # "EXPR" => cell'[a].type # "EXPR"
    BY <1>1, FinalStays DEF Used
  <1>3. \A a : Listed(a) => Listed(a)'
    BY DEF Listed
  <1>4. \A a \in Used(scan.doc) : cell[a].type # "EXPR" \/ Listed(a) \/ Asked(a)
    BY DEF ScanInv
  <1>5. \A a \in Used(scan.doc) : cell'[a].type # "EXPR" \/ Listed(a)' \/ Asked(a)'
    BY <1>2, <1>3, <1>4
  <1> QED BY <1>5 DEF ScanInv

(* EvaluateCell gives what was asked for, or keeps it asked for.           *)
LEMMA CellScans ==
    ASSUME IInv, ScanInv, CellStep
    PROVE  ScanInv'
  <1>1. UNCHANGED scan /\ ctl.mode \in {"EVALUATE", "VALUE", "RETURNED"}
    BY DEF CellStep, EvaluateMissing, EvaluateFinal, EvaluateCycle, EvaluateUnparsable,
       EvaluateEnter, EvaluateStore, ScanResumes, EvaluatePending, In, Go, Stop, callVars
  <1>2. /\ calls \in Seq(Call) /\ Len(calls) \in Nat /\ cell \in [Addr -> Cell]
        /\ calls # << >> => 1 \in 1..Len(calls)
        /\ calls = << >> => Len(calls) = 0
    BY Facts, EmptySeq
  <1>3. Next
    BY DEF Next, Step
  <1> DEFINE Kept == \A a \in Used(scan.doc) : Asked(a) => cell'[a].type # "EXPR" \/ Asked(a)'
  <1>4. Kept => ScanInv'
    BY <1>1, <1>3, ScanKeeps
  <1>5. CASE EvaluateMissing
    BY <1>5 DEF EvaluateMissing, Stop, Go, Plain, ScanInv
  <1>6. CASE EvaluateFinal
    <2>1. UNCHANGED <<cell, calls>> /\ cell[ctl.at].type # "EXPR"
      BY <1>6 DEF EvaluateFinal, Pure
    <2> QED BY <2>1, <1>4 DEF Asked
  <1>7. CASE EvaluateCycle
    <2>1. UNCHANGED calls /\ ctl.at \in Addr /\ state[ctl.at] = "EVALUATING"
      BY <1>7 DEF EvaluateCycle, EvaluatePending, CellExists
    <2>2. calls # << >>
      BY <1>2, <2>1, Facts DEF CallsInv
    <2> QED BY <2>1, <2>2, <1>4 DEF Asked
  <1>8. CASE EvaluateUnparsable
    <2>1. UNCHANGED calls /\ cell' = [cell EXCEPT ![ctl.at] = ErrorNode("PARSE")]
      BY <1>8 DEF EvaluateUnparsable
    <2>2. \A a \in Addr : a = ctl.at => cell'[a].type # "EXPR"
      BY <1>2, <2>1 DEF ErrorNode
    <2> QED BY <2>1, <2>2, <1>4 DEF Asked, Used
  <1>9. CASE EvaluateEnter
    <2>1. In("EVALUATE") /\ ctl.at \in Addr /\ calls' = Append(calls, [at |-> ctl.at, work |-> << >>])
      BY <1>9 DEF EvaluateEnter, EvaluatePending, CellExists
    <2>2. [at |-> ctl.at, work |-> << >>] \in Call
      BY <2>1, EmptySeq DEF Call
    <2>3. /\ calls' # << >>
          /\ calls # << >> => calls'[1] = calls[1]
          /\ calls = << >> => calls'[1] = [at |-> ctl.at, work |-> << >>]
      BY <1>2, <2>1, <2>2, AppendProperties
    <2> QED BY <2>3, <1>4 DEF Asked
  <1>10. CASE EvaluateStore
    <2>1. /\ calls # << >> /\ calls' = SubSeq(calls, 1, Len(calls) - 1)
          /\ cell' = [cell EXCEPT ![Here] = SetCellFromNode(ctl.value)]
      BY <1>10, Facts DEF EvaluateStore, ControlInv, In
    <2>2. CASE Len(calls) = 1
      <3>1. Here = calls[1].at
        BY <2>2 DEF Here, Top
      <3>2. \A a \in Addr : a = Here => cell'[a].type # "EXPR"
        BY <1>2, <2>1, StoredIsFinal
      <3> QED BY <2>1, <3>1, <3>2, <1>4 DEF Asked, Used
    <2>3. CASE Len(calls) > 1
      <3>1. 1 \in 1..(Len(calls) - 1) /\ Len(calls) - 1 \in 0..Len(calls)
        BY <1>2, <2>3
      <3>2. Len(calls') = Len(calls) - 1 /\ calls'[1] = calls[1]
        BY <1>2, <2>1, <3>1, SubSeqProperties
      <3>3. calls' # << >>
        BY <1>2, <2>3, <3>2, EmptySeq
      <3> QED BY <2>1, <3>2, <3>3, <1>4 DEF Asked
    <2>4. Len(calls) \in Nat \ {0}
      BY <2>1, <1>2, EmptySeq
    <2>5. Len(calls) = 1 \/ Len(calls) > 1
      BY <2>4
    <2> QED BY <2>2, <2>3, <2>5
  <1>11. CASE ScanResumes
    BY <1>4, <1>11 DEF ScanResumes, Asked, In
  <1> QED BY <1>5, <1>6, <1>7, <1>8, <1>9, <1>10, <1>11 DEF CellStep

(* A step inside of an expression keeps what is asked for asked for.       *)
LEMMA InnerScans ==
    ASSUME IInv, ScanInv, ReduceStep \/ FuncStep \/ LoopStep
    PROVE  ScanInv'
  <1>1. calls' # << >> /\ calls'[1].at = calls[1].at /\ calls # << >>
    BY InnerStep, OutermostStays, Facts
  <1>2. ctl.mode \notin {"MAIN", "EXIT", "ABORT"}
    BY DEF ReduceStep, IntoReturns, ReduceFinal, ReduceRange, ReduceBadRange, ReduceMacro,
       ReduceNoMacro, ReduceCell, ReduceBadCell, ReduceNoFile, ReduceXeno, ReduceBadXeno,
       ReduceTerm, NegateReturns, ReduceSum, MathFails, MathReturns, Reducing,
       FuncStep, ReduceFunc, ArgsReturn, ApplyMismatch, ApplyPure, ApplyRow, ApplyCol,
       ApplyBodyCol, ApplyCell, ApplyAggregate, ApplyMaskSum, Applying,
       LoopStep, FoldNumber, FoldRange, FoldCell, FoldReturns, FoldEnds, MaskCell,
       MaskTested, MaskReturns, MaskEnds, Turn, In
  <1>3. UNCHANGED scan
    BY InnerStep DEF callVars
  <1>4. \A a : Asked(a) => Asked(a)'
    BY <1>1 DEF Asked
  <1>5. Next
    BY DEF Next, Step
  <1> QED BY <1>2, <1>3, <1>4, <1>5, ScanKeeps

(* MainOpens lists every cell of the document; ScanCell asks for the cell  *)
(* it takes off the list; main has no scan under way otherwise.            *)
LEMMA MainScans ==
    ASSUME IInv, ScanInv, MainStep
    PROVE  ScanInv'
  <1>1. CASE MainSkips \/ MainPrints \/ Exit
    BY <1>1 DEF MainSkips, MainPrints, Exit, Go, Plain, In, ScanInv
  <1>2. CASE MainOpens
    <2> DEFINE d == Head(args)
    <2>1. d \in Doc
      BY <1>2, Facts, HeadTail DEF MainOpens, TypeOK
    <2>2. scan' = [doc |-> d, todo |-> DocCells(d)]
      BY <1>2 DEF MainOpens
    <2>3. \A a \in Used(d) : \E i \in 1..Len(DocCells(d)) : DocCells(d)[i] = <<a[2], a[3]>>
      <3> HIDE DEF d
      <3>1. SUFFICES ASSUME NEW a \in Used(d)
                     PROVE  \E i \in 1..Len(DocCells(d)) : DocCells(d)[i] = <<a[2], a[3]>>
        OBVIOUS
      <3>2. /\ a[2] \in Nat /\ a[3] \in Nat /\ a[2] < Shape[d].cols /\ a[3] < Shape[d].rows
            /\ Shape[d].cols \in Nat /\ Shape[d].rows \in Nat
        BY <2>1, AddrType, ShapeAssumption DEF Used
      <3>3. Visits(Shape[d].cols, Shape[d].rows, a[2], a[3])
        BY ONLY <3>2, BlockVisits
      <3>4. DocCells(d) = Block(0, 0, Shape[d].cols, Shape[d].rows)
        BY Zenon DEF DocCells
      <3> QED BY <3>3, <3>4, Zenon DEF Visits
    <2>4. \A a \in Used(scan'.doc) : Listed(a)'
      <3> HIDE DEF d
      <3> QED BY <2>2, <2>3 DEF Listed
    <2> QED BY <2>4 DEF ScanInv
  <1>3. CASE ScanCell
    <2>1. /\ scan.todo # << >> /\ UNCHANGED <<cell, calls>> /\ In("SCAN") /\ calls = << >>
          /\ scan' = [scan EXCEPT !.todo = Tail(@)]
          /\ ctl' = Evaluate(Located(scan.doc, Head(scan.todo)))
      BY <1>3, Facts DEF ScanCell, ControlInv, In
    <2>2. scan.todo \in Seq(Int \X Int) /\ scan'.doc = scan.doc /\ scan'.todo = Tail(scan.todo)
      BY <2>1, Facts DEF TypeOK
    <2>3. \A a \in Used(scan.doc) : cell[a].type # "EXPR" \/ Listed(a)
      BY <2>1 DEF ScanInv, Asked, In
    <2>4. \A a \in Used(scan.doc) : Listed(a) => Listed(a)' \/ Head(scan.todo) = <<a[2], a[3]>>
      <3> SUFFICES ASSUME NEW a \in Used(scan.doc), NEW i \in 1..Len(scan.todo),
                          scan.todo[i] = <<a[2], a[3]>>
                   PROVE  Listed(a)' \/ Head(scan.todo) = <<a[2], a[3]>>
        BY DEF Listed
      <3>1. CASE i = 1
        BY <3>1, <2>1, <2>2, HeadTailProperties
      <3>2. CASE i > 1
        <4> DEFINE s == scan.todo
                   t == Tail(scan.todo)
        <4>1. s \in Seq(Int \X Int) /\ s # << >> /\ scan'.todo = t /\ i \in 1..Len(s) /\ s[i] = <<a[2], a[3]>>
          BY <2>1, <2>2
        <4>2. Len(s) \in Nat /\ Len(t) = Len(s) - 1 /\ \A j \in 1..Len(t) : t[j] = s[j + 1]
          BY <4>1, HeadTailProperties, LenProperties
        <4>3. i - 1 \in 1..Len(t) /\ (i - 1) + 1 = i
          <5> DEFINE n == Len(s)
                     m == Len(t)
          <5>1. n \in Nat /\ m = n - 1 /\ i \in 1..n
            BY <4>1, <4>2
          <5> HIDE DEF n, m
          <5>2. i - 1 \in 1..m /\ (i - 1) + 1 = i
            BY <3>2, <5>1
          <5> QED BY <5>2 DEF m
        <4>4. t[i - 1] = s[i]
          <5> HIDE DEF s, t
          <5> QED BY <4>2, <4>3
        <4>5. scan'.todo[i - 1] = <<a[2], a[3]>> /\ i - 1 \in 1..Len(scan'.todo)
          BY <4>1, <4>3, <4>4
        <4> QED BY <4>5 DEF Listed
      <3> QED BY <3>1, <3>2
    <2>5. \A a \in Used(scan.doc) : Head(scan.todo) = <<a[2], a[3]>> => Asked(a)'
      <3> SUFFICES ASSUME NEW a \in Used(scan.doc), Head(scan.todo) = <<a[2], a[3]>>
                   PROVE  Asked(a)'
        OBVIOUS
      <3>1. a = <<scan.doc, a[2], a[3]>>
        BY AddrType DEF Used, Place
      <3>2. ctl'.mode = "EVALUATE" /\ ctl'.at = a
        BY <2>1, <3>1 DEF Evaluate, Located
      <3> QED BY <2>1, <3>2 DEF Asked, In
    <2> QED BY <2>1, <2>2, <2>3, <2>4, <2>5 DEF ScanInv
  <1> QED BY <1>1, <1>2, <1>3 DEF MainStep

-----------------------------------------------------------------------------
(* What is printed.                                                        *)

(* Of the steps only PrintDocument's writes the output, and MakeDocument   *)
(* is the only one that changes which documents there are: it adds one.    *)
LEMMA OutputWriters ==
    ASSUME [Next]_vars
    PROVE  /\ MainPrints \/ UNCHANGED output
           /\ UNCHANGED loaded \/ \E d : loaded' = loaded \cup {d}
  <1> USE DEF Pure, Go, Stop, callVars, MakeDocument
  <1>1. CASE UNCHANGED vars
    BY <1>1 DEF vars
  <1>2. CASE MainStep
    BY <1>2 DEF MainStep, MainSkips, MainOpens, ScanCell, MainPrints, Exit
  <1>3. CASE CellStep
    BY <1>3 DEF CellStep, EvaluateMissing, EvaluateFinal, EvaluateCycle, EvaluateUnparsable,
       EvaluateEnter, EvaluateStore, ScanResumes
  <1>4. CASE ReduceStep
    BY <1>4 DEF ReduceStep, IntoReturns, ReduceFinal, ReduceRange, ReduceBadRange, ReduceMacro,
       ReduceNoMacro, ReduceCell, ReduceBadCell, ReduceNoFile, ReduceXeno, ReduceBadXeno,
       ReduceTerm, NegateReturns, ReduceSum, MathFails, MathReturns, Into
  <1>5. CASE FuncStep
    BY <1>5 DEF FuncStep, ReduceFunc, ArgsReturn, ApplyMismatch, ApplyPure, ApplyRow, ApplyCol,
       ApplyBodyCol, ApplyCell, ApplyAggregate, ApplyMaskSum
  <1>6. CASE LoopStep
    BY <1>6 DEF LoopStep, FoldNumber, FoldRange, FoldCell, FoldReturns, FoldEnds, MaskCell,
       MaskTested, MaskReturns, MaskEnds
  <1>7. CASE Rest
    BY <1>7 DEF Rest, vars
  <1> QED BY <1>1, <1>2, <1>3, <1>4, <1>5, <1>6, <1>7 DEF Next, Step

(* What was printed stays true of the cells.                               *)
LEMMA PrintedStays ==
    ASSUME IInv, OutputInv, OutputFinal, [Next]_vars, UNCHANGED output
    PROVE  OutputInv' /\ OutputFinal'
  <1>1. \A d \in loaded : d \in loaded'
    BY OutputWriters
  <1>2. OutputInv'
    BY <1>1 DEF OutputInv
  <1>3. ASSUME NEW i \in 1..Len(output), NEW a \in DOMAIN output[i].cells
        PROVE  output[i].cells[a].type # "EXPR" /\ output[i].cells[a] = cell'[a]
    <2>1. a \in Addr /\ a[1] \in loaded
      BY DEF OutputInv
    <2>2. output[i].cells[a].type # "EXPR" /\ output[i].cells[a] = cell[a]
      BY DEF OutputFinal
    <2>3. cell'[a] = cell[a]
      BY <2>1, <2>2, FinalStays
    <2> QED BY <2>2, <2>3
  <1>4. OutputFinal'
    BY <1>3 DEF OutputFinal
  <1> QED BY <1>2, <1>4

(* When the scan is over nothing is listed or asked for: every cell that   *)
(* PrintDocument reads is final.                                           *)
LEMMA PrintsFinal ==
    ASSUME IInv, OInv, MainPrints
    PROVE  OutputInv' /\ OutputFinal'
  <1> DEFINE d == scan.doc
             p == [doc |-> d, cells |-> Snapshot(d)]
             P == [doc : Doc, cells : Snapshots]
  <1>1. /\ In("SCAN") /\ scan.todo = << >> /\ calls = << >>
        /\ output' = Append(output, p) /\ UNCHANGED <<cell, loaded>>
        /\ d \in loaded /\ d \in Doc /\ cell \in [Addr -> Cell]
    BY Facts DEF MainPrints, ControlInv, In, OnlyLoaded
  <1>2. \A a : ~Asked(a)
    BY <1>1 DEF Asked, In
  <1>3. \A a : ~Listed(a)
    BY <1>1 DEF Listed
  <1>4. \A a \in Used(d) : cell[a].type # "EXPR"
    BY <1>1, <1>2, <1>3 DEF OInv, ScanInv, In
  <1>5. Snapshot(d) = [a \in Used(d) |-> cell[a]]
    BY DEF Snapshot, Used
  <1>6. Snapshot(d) \in [Used(d) -> Cell] /\ Used(d) \in SUBSET Addr
    BY <1>1, <1>5 DEF Used
  <1>7. p \in P
    BY <1>1, <1>6 DEF Snapshots
  <1>8. /\ output \in Seq(P) /\ output' \in Seq(P) /\ Len(output) \in Nat
        /\ Len(output') = Len(output) + 1
        /\ \A i \in 1..Len(output) : output'[i] = output[i]
        /\ output'[Len(output) + 1] = p
    <2>1. output \in Seq(P)
      BY DEF OInv, OutputInv
    <2> HIDE DEF p, P
    <2> QED BY <1>1, <1>7, <2>1, AppendProperties, LenProperties
  <1>9. ASSUME NEW i \in 1..Len(output')
        PROVE  \A a \in DOMAIN output'[i].cells :
                 /\ a \in Addr /\ a[1] \in loaded
                 /\ output'[i].cells[a].type # "EXPR" /\ output'[i].cells[a] = cell[a]
    <2>1. CASE i \in 1..Len(output)
      BY <1>8, <2>1 DEF OInv, OutputInv, OutputFinal
    <2>2. CASE i = Len(output) + 1
      <3>1. output'[i].cells = [a \in Used(d) |-> cell[a]]
        BY <1>5, <1>8, <2>2
      <3> QED BY <3>1, <1>1, <1>4 DEF Used
    <2>3. i \in 1..Len(output) \/ i = Len(output) + 1
      BY <1>8
    <2> QED BY <2>1, <2>2, <2>3
  <1>10. OutputInv'
    BY <1>1, <1>8, <1>9 DEF OutputInv
  <1>11. OutputFinal'
    BY <1>1, <1>9 DEF OutputFinal
  <1> QED BY <1>10, <1>11

(* OInv is inductive, relative to the invariant of the evaluator.          *)
LEMMA OutputKeeps == IInv /\ OInv /\ [Next]_vars => OInv'
  <1> SUFFICES ASSUME IInv, OInv, [Next]_vars PROVE OInv'
    OBVIOUS
  <1>1. ScanInv'
    <2>1. CASE UNCHANGED vars
      BY <2>1 DEF vars, OInv, ScanInv, Used, Listed, Asked, In
    <2>2. CASE Step
      BY <2>2, MainScans, CellScans, InnerScans DEF Step, OInv
    <2>3. CASE Rest
      BY <2>1, <2>3 DEF Rest
    <2> QED BY <2>1, <2>2, <2>3 DEF Next
  <1>2. OutputInv' /\ OutputFinal'
    BY OutputWriters, PrintedStays, PrintsFinal DEF OInv
  <1> QED BY <1>1, <1>2 DEF OInv

(* The program starts with nothing printed and nothing scanned.            *)
LEMMA OutputStarts == Init => OInv
  <1> SUFFICES ASSUME Init PROVE OInv
    OBVIOUS
  <1>1. output = << >> /\ ctl.mode = "MAIN"
    BY DEF Init, Plain
  <1>2. output \in Seq([doc : Doc, cells : Snapshots]) /\ Len(output) = 0
    BY <1>1, EmptySeq
  <1>3. 1..Len(output) = {}
    BY <1>2
  <1> QED BY <1>1, <1>2, <1>3 DEF OInv, ScanInv, OutputInv, OutputFinal

(* EvaluateDocument leaves PrintDocument no expression to print, and what  *)
(* was printed of a cell stays true of it, however many documents main     *)
(* goes on to load and evaluate.                                           *)
THEOREM OutputIsFinal == Spec => []OutputFinal
  <1>1. IInv /\ OInv /\ [Next]_vars => (IInv /\ OInv)'
    BY StepKeeps, OutputKeeps
  <1>2. Init => IInv /\ OInv
    BY InitKeeps, OutputStarts
  <1>3. OInv => OutputFinal
    BY DEF OInv
  <1> QED BY <1>1, <1>2, <1>3, PTL DEF Spec

-----------------------------------------------------------------------------
(* How deep EvaluateCell recurses.                                         *)

(* The open calls are of different cells: there are at most as many calls  *)
(* as cells.                                                               *)
LEMMA CallsInject ==
    ASSUME IsFiniteSet(Addr), calls \in Seq(Call),
           \A i, j \in 1..Len(calls) : calls[i].at = calls[j].at => i = j
    PROVE  Len(calls) <= Cardinality(Addr)
  <1> DEFINE n == Len(calls)
             f == [i \in 1..n |-> calls[i].at]
  <1>1. n \in Nat
    BY LenProperties
  <1>2. f \in [1..n -> Addr]
    BY CallAts
  <1>3. f \in Injection(1..n, Addr)
    <2>1. \A i, j \in 1..n : f[i] = f[j] => i = j
      OBVIOUS
    <2> HIDE DEF f, n
    <2> QED BY <1>2, <2>1, SMT DEF Injection, IsInjective
  <1>4. Cardinality(1..n) <= Cardinality(Addr)
    BY <1>3, FS_Injection
  <1>5. Cardinality(1..n) = IF 1 > n THEN 0 ELSE n - 1 + 1
    BY <1>1, FS_Interval
  <1>6. Cardinality(1..n) = n
    <2> HIDE DEF n
    <2> QED BY <1>1, <1>5
  <1> QED BY <1>4, <1>6

(* With finitely many cells EvaluateCell never has more calls open than    *)
(* there are cells, whatever refers to whatever: the flag EVALUATING       *)
(* bounds the recursion through references (a macro that names itself      *)
(* recurses in ReduceNode without one, and is not bounded by it).          *)
THEOREM BoundedRecursion ==
    ASSUME IsFiniteSet(Addr)
    PROVE  Spec => [](Len(calls) <= Cardinality(Addr))
  <1>1. IInv => Len(calls) <= Cardinality(Addr)
    BY Facts, CallsInject DEF CallsInv
  <1> QED BY <1>1, Invariance, PTL

-----------------------------------------------------------------------------
(* What an expression reads by plain references.                           *)

(* The nodes reduced for a node are nodes. *)
LEMMA SubNodesType ==
    ASSUME NEW a \in Addr, NEW n \in Node
    PROVE  SubNodes(a, n) \subseteq Node
  <1>1. /\ n.type = "MACRO" => n.name \in Str
        /\ n.type = "TERM" => n.child \in Node
        /\ n.type = "SUM" => n.first \in Node /\ n.rest \in Operands
        /\ n.type = "FUNC" => n.args \in Seq(Node)
    BY NodeParts
  <1>2. n.type = "MACRO" => MacroBodies(a[1], n.name) \subseteq Node
    BY <1>1, AddrType, MacroBodyType
  <1>3. n.type = "SUM" => {n.rest[i].node : i \in 1..Len(n.rest)} \subseteq Node
    <2> SUFFICES ASSUME n.type = "SUM", NEW i \in 1..Len(n.rest) PROVE n.rest[i].node \in Node
      OBVIOUS
    <2>1. n.rest[i] \in [op : MathOp \ {"SET"}, node : Node]
      BY <1>1, ElementOfSeq DEF Operands
    <2> QED BY <2>1
  <1>4. n.type = "FUNC" => {n.args[i] : i \in 1..Len(n.args)} \subseteq Node
    <2> SUFFICES ASSUME n.type = "FUNC", NEW i \in 1..Len(n.args) PROVE n.args[i] \in Node
      OBVIOUS
    <2> QED BY <1>1, ElementOfSeq
  <1> QED BY <1>1, <1>2, <1>3, <1>4 DEF SubNodes

(* PlainRefs satisfies its equation, though a macro may name itself: the   *)
(* least family of sets that is closed under it is a solution.             *)
LEMMA PlainRefsIs ==
    ASSUME NEW a \in Addr, NEW n \in Node
    PROVE  PlainRefs[<<a, n>>] =
              DirectRefs(a, n) \cup UNION {PlainRefs[<<a, m>>] : m \in SubNodes(a, n)}
  <1> DEFINE S == Addr \X Node
             Via(R, p) == DirectRefs(p[1], p[2])
                             \cup UNION {R[<<p[1], m>>] : m \in SubNodes(p[1], p[2])}
             U == UNION {DirectRefs(p[1], p[2]) : p \in S}
             Closed(R) == \A p \in S : Via(R, p) \subseteq R[p]
             L == [p \in S |-> {b \in U : \A R \in [S -> SUBSET U] : Closed(R) => b \in R[p]}]
             K == [p \in S |-> Via(L, p)]
  <1>1. \A p \in S : \A m \in SubNodes(p[1], p[2]) : <<p[1], m>> \in S
    BY SubNodesType
  <1>2. \A p \in S : DirectRefs(p[1], p[2]) \subseteq U
    OBVIOUS
  <1>3. \A p \in S : L[p] \subseteq U
    BY Zenon
  <1>4. \A R \in [S -> SUBSET U], p \in S : Closed(R) => L[p] \subseteq R[p]
    BY Zenon
  <1>5. \A p \in S, b \in U :
          (\A R \in [S -> SUBSET U] : Closed(R) => b \in R[p]) => b \in L[p]
    BY Zenon
  <1> HIDE DEF S, U, L
  <1>6. ASSUME NEW p \in S
        PROVE  Via(L, p) \subseteq L[p]
    <2> SUFFICES ASSUME NEW b \in Via(L, p) PROVE b \in L[p]
      OBVIOUS
    <2>1. b \in U
      BY <1>1, <1>2, <1>3
    <2>2. ASSUME NEW R \in [S -> SUBSET U], Closed(R)
          PROVE  b \in R[p]
      <3>1. Via(R, p) \subseteq R[p]
        BY <2>2
      <3>2. \A m \in SubNodes(p[1], p[2]) : L[<<p[1], m>>] \subseteq R[<<p[1], m>>]
        BY <1>1, <1>4, <2>2
      <3>3. b \in Via(R, p)
        BY <3>2
      <3> QED BY <3>1, <3>3
    <2> QED BY <1>5, <2>1, <2>2
  <1>7. K \in [S -> SUBSET U]
    <2>1. \A p \in S : Via(L, p) \subseteq U
      BY <1>3, <1>6
    <2> HIDE DEF Via
    <2> QED BY <2>1
  <1>8. Closed(K)
    <2> SUFFICES ASSUME NEW p \in S PROVE Via(K, p) \subseteq K[p]
      OBVIOUS
    <2>1. \A m \in SubNodes(p[1], p[2]) : K[<<p[1], m>>] \subseteq L[<<p[1], m>>]
      <3> HIDE DEF Via
      <3>1. \A q \in S : K[q] = Via(L, q)
        OBVIOUS
      <3> HIDE DEF K
      <3> QED BY <1>1, <1>6, <3>1
    <2>2. K[p] = Via(L, p)
      <3> HIDE DEF Via
      <3> QED OBVIOUS
    <2> HIDE DEF K
    <2>3. Via(K, p) \subseteq Via(L, p)
      BY <2>1
    <2> HIDE DEF Via
    <2> QED BY <2>2, <2>3
  <1>9. L = [p \in S |-> Via(L, p)]
    <2>1. \A p \in S : L[p] = Via(L, p)
      <3> HIDE DEF Via
      <3>1. \A p \in S : K[p] = Via(L, p)
        OBVIOUS
      <3> HIDE DEF K, Closed
      <3> QED BY <1>4, <1>6, <1>7, <1>8, <3>1
    <2>2. DOMAIN L = S /\ L = [p \in DOMAIN L |-> L[p]]
      BY Zenon DEF L
    <2> HIDE DEF Via
    <2> QED BY <2>1, <2>2
  <1> DEFINE Solves(f) == f = [p \in S |-> Via(f, p)]
  <1>10. PlainRefs = CHOOSE f : Solves(f)
    BY Zenon DEF PlainRefs, S
  <1>11. Solves(PlainRefs)
    <2>1. \E f : Solves(f)
      BY <1>9
    <2> HIDE DEF Solves
    <2> QED BY <1>10, <2>1
  <1>12. <<a, n>> \in S
    BY DEF S
  <1>13. PlainRefs[<<a, n>>] = Via(PlainRefs, <<a, n>>)
    <2> HIDE DEF Via
    <2> QED BY <1>11, <1>12
  <1> QED BY <1>13

(* The node n of an expression in the cell at a reads the cell b. *)
ReadsBy(a, n, b) == b \in PlainRefs[<<a, n>>]

(* What a node reads, by its type. *)
LEMMA ReadsByType ==
    ASSUME NEW a \in Addr, NEW n \in Node, NEW b, ReadsBy(a, n, b)
    PROVE  \/ n.type = "CELL" /\ b = Target(a[1], n, a)
           \/ /\ n.type = "XENO" /\ Resolve(a[1], n.file) # NoDoc
              /\ b = Target(Resolve(a[1], n.file), n, a)
           \/ n.type = "MACRO" /\ \E m \in MacroBodies(a[1], n.name) : ReadsBy(a, m, b)
           \/ n.type = "TERM" /\ ReadsBy(a, n.child, b)
           \/ /\ n.type = "SUM"
              /\ \/ ReadsBy(a, n.first, b)
                 \/ \E i \in 1..Len(n.rest) : ReadsBy(a, n.rest[i].node, b)
           \/ n.type = "FUNC" /\ \E i \in 1..Len(n.args) : ReadsBy(a, n.args[i], b)
  <1>1. \/ b \in DirectRefs(a, n)
        \/ \E m \in SubNodes(a, n) : ReadsBy(a, m, b)
    BY PlainRefsIs DEF ReadsBy
  <1>2. CASE b \in DirectRefs(a, n)
    BY <1>2 DEF DirectRefs
  <1>3. CASE \E m \in SubNodes(a, n) : ReadsBy(a, m, b)
    BY <1>3 DEF SubNodes
  <1> QED BY <1>1, <1>2, <1>3

(* A name has one body at most. *)
LEMMA OneBody ==
    ASSUME NEW d \in Doc, NEW name, NEW m \in MacroBodies(d, name),
           NEW k \in MacroBodies(d, name)
    PROVE  m = k
  <1> DEFINE ms == Shape[d].macros
             hits == {i \in 1..Len(ms) : ms[i].name = name /\ ms[i].body # Unparsable}
  <1>1. hits \subseteq Nat
    BY ShapeAssumption, LenProperties
  <1>2. MacroBodies(d, name) = {ms[i].body : i \in {h \in hits : \A j \in hits : h <= j}}
    BY Zenon DEF MacroBodies
  <1> HIDE DEF hits, ms
  <1>3. PICK i \in hits : m = ms[i].body /\ \A j \in hits : i <= j
    BY <1>2
  <1>4. PICK j \in hits : k = ms[j].body /\ \A h \in hits : j <= h
    BY <1>2
  <1>5. i = j
    BY <1>1, <1>3, <1>4
  <1> QED BY <1>3, <1>4, <1>5

-----------------------------------------------------------------------------
(* What becomes of the cells that an open call reads: each of them has     *)
(* been read and has a value, or is still to be read, or is made up for by *)
(* an error that the call is about to return.                              *)

Good(b) == b \in Addr /\ cell[b].type \in {"NUMBER", "STRING"}

(* The frame f of a call for the cell at a answers for b: it is going to   *)
(* read b, or it has an argument that is an error.                         *)
FrameOwes(a, f, b) ==
    \/ f.k = "INTO" /\ b = f.at
    \/ f.k = "MATH" /\ \E i \in 1..Len(f.rest) : ReadsBy(a, f.rest[i].node, b)
    \/ f.k = "ARGS" /\ \/ \E i \in 1..Len(f.rest) : ReadsBy(a, f.rest[i], b)
                       \/ \E i \in 1..Len(f.done) : f.done[i].type = "ERROR"
WorkOwes(a, w, b) == \E j \in 1..Len(w) : FrameOwes(a, w[j], b)

(* So does what the program does next, c, in the innermost call. *)
NextOwes(a, c, b) ==
    \/ c.mode = "REDUCE" /\ c.node \in Node /\ ReadsBy(a, c.node, b)
    \/ c.mode = "VALUE" /\ c.value.type = "ERROR"
    \/ c.mode = "APPLY" /\ \E i \in 1..Len(c.args) : c.args[i].type = "ERROR"

OwedInv ==
    ctl.mode # "ABORT" =>
        \A i \in 1..Len(calls) : \A b \in Reads(calls[i].at) :
            \/ Good(b)
            \/ WorkOwes(calls[i].at, calls[i].work, b)
            \/ i = Len(calls) /\ NextOwes(calls[i].at, ctl, b)

(* A cell of a loaded document that reads others is pending, an error, or  *)
(* all that it reads has a value.                                          *)
SettledInv ==
    \A a \in Addr :
        a[1] \in loaded /\ Reads(a) # {} =>
            \/ cell[a].type \in {"EXPR", "ERROR"}
            \/ \A b \in Reads(a) : Good(b)

(* Where each of some cells reads another of them, none has a value. *)
CirclesInv ==
    \A C \in SUBSET Addr :
        (\A a \in C : Reads(a) \cap C # {}) => \A a \in C : ~Good(a)

RInv == OwedInv /\ SettledInv /\ CirclesInv

-----------------------------------------------------------------------------
(* How a step changes what is owed.                                        *)

(* The files never change, and a value that was read stays a value. *)
LEMMA GoodStays ==
    ASSUME IInv, [Next]_vars
    PROVE  \A b : Good(b) => Good(b)'
  <1> SUFFICES ASSUME NEW b, Good(b) PROVE Good(b)'
    OBVIOUS
  <1>1. b \in Addr /\ cell[b].type \in {"NUMBER", "STRING"}
    BY DEF Good
  <1>2. b[1] \in loaded
    BY <1>1, Facts DEF OnlyLoaded, NullCell
  <1>3. cell'[b] = cell[b]
    BY <1>1, <1>2, FinalStays
  <1> QED BY <1>1, <1>3 DEF Good

(* No step writes a file: what the cells of the files read stays the same. *)
LEMMA FilesStay ==
    ASSUME [Next]_vars
    PROVE  UNCHANGED files /\ \A a : Reads(a)' = Reads(a)
  <1> USE DEF Go, Stop, callVars
  <1>1. UNCHANGED files
    <2>1. CASE UNCHANGED vars
      BY <2>1 DEF vars
    <2>2. CASE MainStep
      BY <2>2 DEF MainStep, MainSkips, MainOpens, ScanCell, MainPrints, Exit
    <2>3. CASE CellStep
      BY <2>3 DEF CellStep, EvaluateMissing, EvaluateFinal, EvaluateCycle, EvaluateUnparsable,
         EvaluateEnter, EvaluateStore, ScanResumes
    <2>4. CASE ReduceStep
      BY <2>4 DEF ReduceStep, IntoReturns, ReduceFinal, ReduceRange, ReduceBadRange,
         ReduceMacro, ReduceNoMacro, ReduceCell, ReduceBadCell, ReduceNoFile, ReduceXeno,
         ReduceBadXeno, ReduceTerm, NegateReturns, ReduceSum, MathFails, MathReturns, Into
    <2>5. CASE FuncStep
      BY <2>5 DEF FuncStep, ReduceFunc, ArgsReturn, ApplyMismatch, ApplyPure, ApplyRow,
         ApplyCol, ApplyBodyCol, ApplyCell, ApplyAggregate, ApplyMaskSum
    <2>6. CASE LoopStep
      BY <2>6 DEF LoopStep, FoldNumber, FoldRange, FoldCell, FoldReturns, FoldEnds, MaskCell,
         MaskTested, MaskReturns, MaskEnds
    <2>7. CASE Rest
      BY <2>7 DEF Rest, vars
    <2> QED BY <2>1, <2>2, <2>3, <2>4, <2>5, <2>6, <2>7 DEF Next, Step
  <1> QED BY <1>1 DEF Reads

(* A stack of frames owes what its first frame or the others owe. *)
LEMMA Unstacks ==
    ASSUME NEW a, NEW b, NEW w \in Seq(Frame), w # << >>, WorkOwes(a, w, b)
    PROVE  FrameOwes(a, Head(w), b) \/ WorkOwes(a, Tail(w), b)
  <1>1. PICK j \in 1..Len(w) : FrameOwes(a, w[j], b)
    BY DEF WorkOwes
  <1>2. /\ Len(w) \in Nat /\ Head(w) = w[1] /\ Len(Tail(w)) = Len(w) - 1
        /\ \A i \in 1..Len(Tail(w)) : Tail(w)[i] = w[i + 1]
    BY HeadTailProperties, LenProperties
  <1>3. CASE j = 1
    BY <1>1, <1>2, <1>3
  <1>4. CASE j # 1
    <2> DEFINE t == Tail(w)
    <2>1. j - 1 \in 1..Len(t) /\ t[j - 1] = w[(j - 1) + 1] /\ (j - 1) + 1 = j
      BY <1>2, <1>4
    <2> HIDE DEF t
    <2>2. FrameOwes(a, t[j - 1], b)
      BY <1>1, <2>1
    <2>3. WorkOwes(a, t, b)
      BY <2>1, <2>2 DEF WorkOwes
    <2> QED BY <2>3 DEF t
  <1> QED BY <1>3, <1>4

(* And the other way round. *)
LEMMA Stacks ==
    ASSUME NEW a, NEW b, NEW f \in Frame, NEW w \in Seq(Frame)
    PROVE  /\ FrameOwes(a, f, b) => WorkOwes(a, <<f>> \o w, b)
           /\ WorkOwes(a, w, b) => WorkOwes(a, <<f>> \o w, b)
  <1> DEFINE s == <<f>> \o w
  <1>1. /\ <<f>> \in Seq(Frame) /\ Len(<<f>>) = 1 /\ Len(w) \in Nat
    BY LenProperties
  <1>2. /\ Len(s) = Len(w) + 1 /\ s[1] = f
        /\ \A j \in 1..Len(w) : s[j + 1] = w[j]
    BY <1>1, ConcatProperties
  <1> HIDE DEF s
  <1>3. ASSUME FrameOwes(a, f, b)
        PROVE  WorkOwes(a, s, b)
    <2>1. 1 \in 1..Len(s)
      BY <1>1, <1>2
    <2> QED BY <1>2, <1>3, <2>1 DEF WorkOwes
  <1>4. ASSUME WorkOwes(a, w, b)
        PROVE  WorkOwes(a, s, b)
    <2>1. PICK j \in 1..Len(w) : FrameOwes(a, w[j], b)
      BY <1>4 DEF WorkOwes
    <2>2. j + 1 \in 1..Len(s) /\ s[j + 1] = w[j]
      BY <1>1, <1>2
    <2> QED BY <2>1, <2>2 DEF WorkOwes
  <1> QED BY <1>3, <1>4 DEF s

(* A step inside of an expression keeps what is owed, if what was owed by  *)
(* the innermost call and by what it was about to do is still owed.        *)
LEMMA InnermostOwes ==
    ASSUME IInv, OwedInv, [Next]_vars, ctl.mode # "ABORT", calls # << >>, Chain,
           \A b : WorkOwes(Here, Work, b) \/ NextOwes(Here, ctl, b) =>
                    Good(b)' \/ WorkOwes(Here, Work', b) \/ NextOwes(Here, ctl', b)
    PROVE  OwedInv'
  <1>1. /\ calls \in Seq(Call) /\ Len(calls) \in Nat /\ Len(calls) >= 1
        /\ Here = calls[Len(calls)].at /\ Work = calls[Len(calls)].work
    BY Facts, TopType DEF Here, Work, Top
  <1>2. /\ Len(calls') = Len(calls)
        /\ \A i \in 1..Len(calls) : calls'[i].at = calls[i].at
        /\ \A i \in 1..(Len(calls) - 1) : calls'[i] = calls[i]
    BY Facts, ChainKeeps
  <1>3. Work' = calls'[Len(calls)].work
    BY <1>2 DEF Work, Top
  <1> SUFFICES ASSUME NEW i \in 1..Len(calls), NEW b \in Reads(calls[i].at)
               PROVE  \/ Good(b)' \/ WorkOwes(calls[i].at, calls'[i].work, b)
                      \/ i = Len(calls) /\ NextOwes(calls[i].at, ctl', b)
    BY <1>2, FilesStay DEF OwedInv
  <1>4. \/ Good(b) \/ WorkOwes(calls[i].at, calls[i].work, b)
        \/ i = Len(calls) /\ NextOwes(calls[i].at, ctl, b)
    BY DEF OwedInv
  <1>5. Good(b) => Good(b)'
    BY GoodStays
  <1>6. CASE i = Len(calls)
    BY <1>1, <1>3, <1>4, <1>5, <1>6
  <1>7. CASE i # Len(calls)
    <2>1. calls'[i] = calls[i]
      BY <1>1, <1>2, <1>7
    <2> QED BY <1>4, <1>5, <1>7, <2>1
  <1> QED BY <1>6, <1>7

(* The work of the innermost call after each of the ways to change it. *)
LEMMA WorkAfter ==
    ASSUME calls \in Seq(Call), calls # << >>
    PROVE  /\ UNCHANGED calls => Work' = Work
           /\ \A f \in Frame : Push(f) => Work' = <<f>> \o Work
           /\ Work # << >> =>
                  /\ Pop => Work' = Tail(Work)
                  /\ \A f \in Frame : Replace(f) => Work' = <<f>> \o Tail(Work)
  <1>1. Work \in Seq(Frame)
    BY TopType
  <1>2. \A w \in Seq(Frame) : SetWork(w) => Work' = w
    <2> SUFFICES ASSUME NEW w \in Seq(Frame), SetWork(w) PROVE Work' = w
      OBVIOUS
    <2>1. Top' = [at |-> Here, work |-> w]
      BY SetWorkKeeps
    <2> QED BY <2>1 DEF Work
  <1>3. UNCHANGED calls => Work' = Work
    BY DEF Work, Top
  <1>4. \A f \in Frame : <<f>> \o Work \in Seq(Frame)
    BY <1>1, Cons
  <1>5. Work # << >> => Tail(Work) \in Seq(Frame)
    BY <1>1, HeadTail
  <1>6. Work # << >> => \A f \in Frame : <<f>> \o Tail(Work) \in Seq(Frame)
    BY <1>5, Cons
  <1> QED BY <1>2, <1>3, <1>4, <1>5, <1>6 DEF Push, Pop, Replace

(* The call goes on with the same work. *)
LEMMA OwedOnward ==
    ASSUME IInv, OwedInv, [Next]_vars, ctl.mode # "ABORT", calls # << >>, UNCHANGED calls,
           \A b : NextOwes(Here, ctl, b) => Good(b)' \/ NextOwes(Here, ctl', b)
    PROVE  OwedInv'
  <1>1. Work' = Work /\ Chain
    BY Facts, WorkAfter, WorkChain
  <1> QED BY <1>1, InnermostOwes

(* The call opens a frame. *)
LEMMA OwedPush ==
    ASSUME IInv, OwedInv, [Next]_vars, ctl.mode # "ABORT", calls # << >>,
           NEW f \in Frame, Push(f),
           \A b : NextOwes(Here, ctl, b) =>
                    Good(b)' \/ FrameOwes(Here, f, b) \/ NextOwes(Here, ctl', b)
    PROVE  OwedInv'
  <1>1. Work' = <<f>> \o Work /\ Chain /\ Work \in Seq(Frame)
    BY Facts, WorkAfter, WorkChain, TopType
  <1>2. \A b : FrameOwes(Here, f, b) \/ WorkOwes(Here, Work, b) => WorkOwes(Here, Work', b)
    BY <1>1, Stacks
  <1> QED BY <1>1, <1>2, InnermostOwes

(* The call closes its frame. *)
LEMMA OwedPop ==
    ASSUME IInv, OwedInv, [Next]_vars, ctl.mode # "ABORT", calls # << >>,
           Work # << >>, Pop,
           \A b : FrameOwes(Here, F, b) \/ NextOwes(Here, ctl, b) =>
                    Good(b)' \/ NextOwes(Here, ctl', b)
    PROVE  OwedInv'
  <1>1. Work' = Tail(Work) /\ Chain /\ Work \in Seq(Frame)
    BY Facts, WorkAfter, WorkChain, TopType
  <1>2. \A b : WorkOwes(Here, Work, b) => FrameOwes(Here, F, b) \/ WorkOwes(Here, Work', b)
    BY <1>1, Unstacks DEF F
  <1> QED BY <1>1, <1>2, InnermostOwes

(* The call changes its frame. *)
LEMMA OwedReplace ==
    ASSUME IInv, OwedInv, [Next]_vars, ctl.mode # "ABORT", calls # << >>,
           Work # << >>, NEW f \in Frame, Replace(f),
           \A b : FrameOwes(Here, F, b) \/ NextOwes(Here, ctl, b) =>
                    Good(b)' \/ FrameOwes(Here, f, b) \/ NextOwes(Here, ctl', b)
    PROVE  OwedInv'
  <1>1. Work' = <<f>> \o Tail(Work) /\ Chain /\ Work \in Seq(Frame) /\ Tail(Work) \in Seq(Frame)
    BY Facts, WorkAfter, WorkChain, TopType, HeadTail
  <1>2. \A b : WorkOwes(Here, Work, b) => FrameOwes(Here, F, b) \/ WorkOwes(Here, Tail(Work), b)
    BY <1>1, Unstacks DEF F
  <1>3. \A b : FrameOwes(Here, f, b) \/ WorkOwes(Here, Tail(Work), b) => WorkOwes(Here, Work', b)
    BY <1>1, Stacks
  <1> QED BY <1>1, <1>2, <1>3, InnermostOwes

(* Nothing is owed by a step that begins with a call of EvaluateCell, its  *)
(* return or a turn of a loop; an error answers for everything.            *)
LEMMA NextOwesNothing ==
    ASSUME NEW a, NEW b, NEW c
    PROVE  /\ c.mode \in {"EVALUATE", "RETURNED", "LOOP"} => ~NextOwes(a, c, b)
           /\ \A e : c = Fail(e) => NextOwes(a, c, b)
  BY DEF NextOwes, Fail, Give, ErrorNode

(* The loops over cells owe nothing. *)
LEMMA LoopsOweNothing ==
    ASSUME NEW a, NEW b, NEW f, f.k \in {"NEGATE", "FOLD", "MASK"}
    PROVE  ~FrameOwes(a, f, b)
  BY DEF FrameOwes

-----------------------------------------------------------------------------
(* ReduceNode keeps what is owed.                                          *)

(* An item of a sequence that is not the first is one of its tail. *)
LEMMA LaterItem ==
    ASSUME NEW S, NEW s \in Seq(S), s # << >>, NEW i \in 1..Len(s), i # 1
    PROVE  i - 1 \in 1..Len(Tail(s)) /\ Tail(s)[i - 1] = s[i]
  <1>1. /\ Len(s) \in Nat /\ Len(Tail(s)) = Len(s) - 1
        /\ \A j \in 1..Len(Tail(s)) : Tail(s)[j] = s[j + 1]
    BY HeadTailProperties, LenProperties
  <1>2. i - 1 \in 1..Len(Tail(s)) /\ (i - 1) + 1 = i
    BY <1>1
  <1> QED BY <1>1, <1>2

(* What the invariant gives in the middle of an expression. *)
LEMMA InExpression ==
    ASSUME IInv, ctl.mode \in {"REDUCE", "VALUE", "APPLY", "LOOP"}
    PROVE  /\ calls # << >> /\ Here \in Addr /\ D \in Doc /\ D = Here[1]
           /\ Work \in Seq(Frame)
           /\ ctl.mode = "REDUCE" => N \in Node \cup XenoNodes
           /\ ctl.mode = "VALUE" => ctl.value \in Value
           /\ ctl.mode = "APPLY" => ctl.func \in Func /\ ctl.args \in Seq(Value)
  <1>1. calls # << >>
    BY Facts DEF ControlInv
  <1> QED BY <1>1, Facts, TopType, ControlFields DEF D, N

(* The steps that give a value, an error or the body of a macro at once. *)
LEMMA OwedAtOnce ==
    ASSUME IInv, OwedInv, [Next]_vars,
           ReduceFinal \/ ReduceRange \/ ReduceMacro \/ ReduceNoMacro \/ ReduceNoFile
    PROVE  OwedInv'
  <1>1. ctl.mode = "REDUCE" /\ UNCHANGED calls
    BY DEF ReduceFinal, ReduceRange, ReduceMacro, ReduceNoMacro, ReduceNoFile, Reducing, In
  <1>2. calls # << >> /\ Here \in Addr /\ D \in Doc /\ D = Here[1] /\ N \in Node \cup XenoNodes
    BY <1>1, InExpression
  <1> SUFFICES ASSUME NEW b, NextOwes(Here, ctl, b)
               PROVE  NextOwes(Here, ctl', b)
    BY <1>1, <1>2, OwedOnward
  <1>3. N \in Node /\ ReadsBy(Here, N, b)
    BY <1>1 DEF NextOwes, N
  <1>4. CASE ReduceFinal \/ ReduceRange
    <2>1. N.type \in {"NUMBER", "STRING", "RANGE"}
      BY <1>4 DEF ReduceFinal, ReduceRange, Reducing, N
    <2> QED BY <1>2, <1>3, <2>1, ReadsByType
  <1>5. CASE ReduceMacro
    <2>1. N.type = "MACRO"
      BY <1>5 DEF ReduceMacro, Reducing, N
    <2>2. PICK m \in MacroBodies(D, N.name) : ctl' = Reduce(m)
      BY <1>5 DEF ReduceMacro, Go
    <2>3. \E k \in MacroBodies(D, N.name) : ReadsBy(Here, k, b)
      BY <1>2, <1>3, <2>1, ReadsByType
    <2>4. ReadsBy(Here, m, b)
      BY <1>2, <2>2, <2>3, OneBody
    <2>5. m \in Node
      BY <1>2, <2>1, <2>2, NodeParts, MacroBodyType
    <2> QED BY <2>2, <2>4, <2>5 DEF NextOwes, Reduce
  <1>6. CASE ReduceNoMacro \/ ReduceNoFile
    BY <1>6, NextOwesNothing DEF ReduceNoMacro, ReduceNoFile, Go
  <1> QED BY <1>4, <1>5, <1>6

(* EvaluateIntoNode waits for the cell, or gives an error. *)
LEMMA OwedInto ==
    ASSUME IInv, OwedInv, [Next]_vars, ctl.mode = "REDUCE", NEW p, Into(p),
           \A b : NextOwes(Here, ctl, b) => b = p
    PROVE  OwedInv'
  <1>1. calls # << >>
    BY InExpression
  <1>2. CASE CellExists(p)
    <2> DEFINE f == [k |-> "INTO", at |-> p]
    <2>1. Push(f) /\ f \in Frame /\ f.k = "INTO" /\ f.at = p
      BY <1>2 DEF Into, CellExists, Frame, IntoFrame
    <2> HIDE DEF f
    <2>2. \A b : NextOwes(Here, ctl, b) => FrameOwes(Here, f, b)
      BY <2>1 DEF FrameOwes
    <2> QED BY <1>1, <2>1, <2>2, OwedPush
  <1>3. CASE ~CellExists(p)
    <2>1. ctl' = Fail("RELATIVE") \/ ctl' = Fail("DNE")
      BY <1>3 DEF Into, Go
    <2>2. UNCHANGED calls
      BY <1>3 DEF Into
    <2>3. \A b : NextOwes(Here, ctl', b)
      BY <2>1, NextOwesNothing
    <2> QED BY <1>1, <2>2, <2>3, OwedOnward
  <1> QED BY <1>2, <1>3

(* A plain reference and a foreign one. *)
LEMMA OwedReads ==
    ASSUME IInv, OwedInv, [Next]_vars, ReduceCell \/ ReduceXeno
    PROVE  OwedInv'
  <1>1. ctl.mode = "REDUCE"
    BY DEF ReduceCell, ReduceXeno, Reducing, In
  <1>2. Here \in Addr /\ D = Here[1]
    BY <1>1, InExpression
  <1>3. \A b : NextOwes(Here, ctl, b) => N \in Node /\ ReadsBy(Here, N, b)
    BY <1>1 DEF NextOwes, N
  <1>4. CASE ReduceCell
    <2>1. N.type = "CELL" /\ Into(Target(D, N, Here))
      BY <1>4 DEF ReduceCell, Reducing, N
    <2>2. \A b : NextOwes(Here, ctl, b) => b = Target(D, N, Here)
      BY <1>2, <1>3, <2>1, ReadsByType
    <2> QED BY <1>1, <2>1, <2>2, OwedInto
  <1>5. CASE ReduceXeno
    <2>1. N.type = "XENO" /\ Into(Target(Resolve(D, N.file), N, Here))
      BY <1>5 DEF ReduceXeno, Reducing, N
    <2>2. \A b : NextOwes(Here, ctl, b) => b = Target(Resolve(D, N.file), N, Here)
      BY <1>2, <1>3, <2>1, ReadsByType
    <2> QED BY <1>1, <2>1, <2>2, OwedInto
  <1> QED BY <1>4, <1>5

(* EvaluateIntoNode hands on the value it read, or the error. *)
LEMMA OwedRead ==
    ASSUME IInv, OwedInv, [Next]_vars, IntoReturns
    PROVE  OwedInv'
  <1> DEFINE p == Awaited(Top)
  <1>1. /\ ctl.mode = "RETURNED" /\ calls # << >> /\ Work # << >> /\ F.k = "INTO"
        /\ Pop /\ UNCHANGED cell
        /\ ctl' = IF ctl.ok THEN Give(SetAsNodeFrom(cell[p])) ELSE Fail("SUB")
    BY DEF IntoReturns, In, OnTop, F, Go, Pure
  <1>2. p \in Addr /\ p = F.at /\ (ctl.ok => cell[p] \in FinalCell)
    BY <1>1, ReturnedCell DEF In, Awaited, F, Work
  <1> HIDE DEF p
  <1> SUFFICES ASSUME NEW b, FrameOwes(Here, F, b) \/ NextOwes(Here, ctl, b)
               PROVE  Good(b)' \/ NextOwes(Here, ctl', b)
    BY <1>1, OwedPop
  <1>3. b = p
    BY <1>1, <1>2, NextOwesNothing DEF FrameOwes
  <1>4. CASE ~ctl.ok
    BY <1>1, <1>4, NextOwesNothing
  <1>5. CASE ctl.ok
    <2>1. ctl' = Give(SetAsNodeFrom(cell[p])) /\ cell[p] \in FinalCell
      BY <1>1, <1>2, <1>5
    <2>2. CASE cell[p].type \in {"NUMBER", "STRING"}
      BY <1>1, <1>2, <1>3, <2>2 DEF Good
    <2>3. CASE cell[p] = NullCell
      BY <2>1, <2>3 DEF NextOwes, Give, SetAsNodeFrom, ErrorNode
    <2>4. CASE cell[p].type = "ERROR"
      BY <2>1, <2>4 DEF NextOwes, Give, SetAsNodeFrom, NullCell
    <2> QED BY <2>1, <2>2, <2>3, <2>4 DEF FinalCell, NumberNodes, StringNodes, ErrorNodes
  <1> QED BY <1>4, <1>5

(* A negation. *)
LEMMA OwedTerm ==
    ASSUME IInv, OwedInv, [Next]_vars, ReduceTerm \/ NegateReturns
    PROVE  OwedInv'
  <1>1. CASE ReduceTerm
    <2> DEFINE f == [k |-> "NEGATE"]
    <2>1. ctl.mode = "REDUCE" /\ N.type = "TERM" /\ Push(f) /\ ctl' = Reduce(N.child)
      BY <1>1 DEF ReduceTerm, Reducing, In, N, Go
    <2>2. f \in Frame
      BY DEF Frame, NegateFrame
    <2> HIDE DEF f
    <2>3. calls # << >> /\ Here \in Addr
      BY <2>1, InExpression
    <2>4. ASSUME NEW b, NextOwes(Here, ctl, b)
          PROVE  NextOwes(Here, ctl', b)
      <3>1. N \in Node /\ ReadsBy(Here, N, b)
        BY <2>1, <2>4 DEF NextOwes, N
      <3>2. ReadsBy(Here, N.child, b) /\ N.child \in Node
        BY <2>1, <2>3, <3>1, ReadsByType, NodeParts
      <3> QED BY <2>1, <3>2 DEF NextOwes, Reduce
    <2> QED BY <2>1, <2>2, <2>3, <2>4, OwedPush
  <1>2. CASE NegateReturns
    <2>1. /\ ctl.mode = "VALUE" /\ calls # << >> /\ Work # << >> /\ F.k = "NEGATE" /\ Pop
          /\ ctl.value.type # "NUMBER" => ctl' = Fail("TYPE")
      BY <1>2 DEF NegateReturns, In, OnTop, F, Go
    <2>2. ASSUME NEW b, FrameOwes(Here, F, b) \/ NextOwes(Here, ctl, b)
          PROVE  NextOwes(Here, ctl', b)
      <3>1. NextOwes(Here, ctl, b)
        BY <2>1, <2>2, LoopsOweNothing
      <3>2. ctl.value.type = "ERROR"
        BY <2>1, <3>1 DEF NextOwes
      <3> QED BY <2>1, <3>2, NextOwesNothing
    <2> QED BY <2>1, <2>2, OwedPop
  <1> QED BY <1>1, <1>2

(* An error among the operands is the error of the sum. *)
LEMMA ErrorCounts == \A v : v.type = "ERROR" => MathError(v) = v.err
  BY DEF MathError, StringNode

(* A sum. *)
LEMMA OwedSum ==
    ASSUME IInv, OwedInv, [Next]_vars, ReduceSum \/ MathFails \/ MathReturns
    PROVE  OwedInv'
  <1>1. CASE ReduceSum
    <2> DEFINE f == [k |-> "MATH", acc |-> 0, op |-> "SET", rest |-> N.rest]
    <2>1. ctl.mode = "REDUCE" /\ N.type = "SUM" /\ Push(f) /\ ctl' = Reduce(N.first)
      BY <1>1 DEF ReduceSum, Reducing, In, N, Go
    <2>2. calls # << >> /\ Here \in Addr /\ N \in Node \cup XenoNodes
      BY <2>1, InExpression
    <2>3. N.first \in Node /\ N.rest \in Operands
      BY <2>1, <2>2, NodeParts
    <2>4. f \in Frame /\ f.k = "MATH" /\ f.rest = N.rest
      BY <2>3 DEF Frame, MathFrame, Num, MathOp
    <2> HIDE DEF f
    <2>5. ASSUME NEW b, NextOwes(Here, ctl, b)
          PROVE  FrameOwes(Here, f, b) \/ NextOwes(Here, ctl', b)
      <3>1. N \in Node /\ ReadsBy(Here, N, b)
        BY <2>1, <2>5 DEF NextOwes, N
      <3>2. \/ ReadsBy(Here, N.first, b)
            \/ \E i \in 1..Len(N.rest) : ReadsBy(Here, N.rest[i].node, b)
        BY <2>1, <2>2, <3>1, ReadsByType
      <3> QED BY <2>1, <2>3, <2>4, <3>2 DEF NextOwes, FrameOwes, Reduce
    <2> QED BY <2>1, <2>2, <2>4, <2>5, OwedPush
  <1>2. CASE MathFails
    <2>1. calls # << >> /\ Work # << >> /\ Pop /\ ctl.mode = "VALUE"
          /\ \E e : ctl' = Fail(e)
      BY <1>2 DEF MathFails, OnTop, In, Go
    <2>2. \A b : NextOwes(Here, ctl', b)
      BY <2>1, NextOwesNothing
    <2> QED BY <2>1, <2>2, OwedPop
  <1>3. CASE MathReturns
    <2> DEFINE acc == MathValue(F.acc, F.op, ctl.value)
               f == [k |-> "MATH", acc |-> acc, op |-> Head(F.rest).op, rest |-> Tail(F.rest)]
    <2>1. /\ ctl.mode = "VALUE" /\ calls # << >> /\ Work # << >> /\ F.k = "MATH"
          /\ MathError(ctl.value) = "NONE"
      BY <1>3 DEF MathReturns, In, OnTop, F
    <2>2. ctl.value \in Value /\ Here \in Addr /\ F \in Frame
      BY <2>1, InExpression, Facts, WorkChain
    <2>3. F.acc \in Num /\ F.rest \in Operands
      BY <2>1, <2>2, FrameOf DEF MathFrame
    <2>4. acc \in Num
      BY <2>2, <2>3, MathType
    <2>5. \A b : ~NextOwes(Here, ctl, b)
      <3>1. ctl.value.type # "ERROR"
        BY <2>1, <2>2, ErrorCounts, ValueFields DEF ExprError
      <3> QED BY <2>1, <3>1 DEF NextOwes
    <2>6. CASE F.rest = << >>
      <3>1. Pop
        BY <1>3, <2>6 DEF MathReturns
      <3>2. \A b : ~FrameOwes(Here, F, b)
        <4>1. Len(F.rest) = 0
          BY <2>6
        <4> QED BY <2>1, <4>1 DEF FrameOwes
      <3> QED BY <2>1, <2>5, <3>1, <3>2, OwedPop
    <2>7. CASE F.rest # << >>
      <3>1. Replace(f) /\ ctl' = Reduce(Head(F.rest).node)
        BY <1>3, <2>7 DEF MathReturns, Go
      <3>2. /\ Head(F.rest) \in [op : MathOp \ {"SET"}, node : Node]
            /\ Tail(F.rest) \in Operands
        BY <2>3, <2>7, HeadTail DEF Operands
      <3>3. f \in Frame /\ f.k = "MATH" /\ f.rest = Tail(F.rest)
        <4> HIDE DEF acc
        <4> QED BY <2>4, <3>2 DEF Frame, MathFrame
      <3> HIDE DEF f
      <3>4. ASSUME NEW b, FrameOwes(Here, F, b)
            PROVE  FrameOwes(Here, f, b) \/ NextOwes(Here, ctl', b)
        <4>1. PICK i \in 1..Len(F.rest) : ReadsBy(Here, F.rest[i].node, b)
          BY <2>1, <3>4 DEF FrameOwes
        <4>2. CASE i = 1
          <5>1. Head(F.rest) = F.rest[1]
            BY <2>7
          <5> QED BY <3>1, <3>2, <4>1, <4>2, <5>1 DEF NextOwes, Reduce
        <4>3. CASE i # 1
          <5>1. i - 1 \in 1..Len(Tail(F.rest)) /\ Tail(F.rest)[i - 1] = F.rest[i]
            BY <2>3, <2>7, <4>3, LaterItem DEF Operands
          <5> QED BY <3>3, <4>1, <5>1 DEF FrameOwes
        <4> QED BY <4>2, <4>3
      <3> QED BY <2>1, <2>5, <3>1, <3>3, <3>4, OwedReplace
    <2> QED BY <2>6, <2>7
  <1> QED BY <1>1, <1>2, <1>3

-----------------------------------------------------------------------------
(* ReduceNode of a function keeps what is owed.                            *)

(* The forms of a function are sequences of sets of types; the last one    *)
(* stands for any number of arguments where the function takes that many.  *)
LEMMA FormLength ==
    \A f : \A form \in Forms(f) :
        Len(form) \in Nat /\ (f \in Variadic => Len(form) # 0)
  BY DEF Forms, N1, R1, N2, Variadic

(* No form of a function takes an error. *)
LEMMA FormsTakeNoError ==
    ASSUME NEW f, NEW form \in Forms(f), NEW i \in 1..Len(form)
    PROVE  "ERROR" \notin form[i]
  <1>1. form \in {N1, R1, N2, <<{"NUMBER", "RANGE"}>>, <<{"NUMBER", "STRING", "RANGE"}>>, << >>,
                  <<{"STRING"}, {"NUMBER"}, {"NUMBER"}>>,
                  <<{"NUMBER"}, {"NUMBER", "STRING"}, {"NUMBER"}>>}
    BY DEF Forms
  <1> QED BY <1>1 DEF N1, R1, N2

(* An index of a sequence is at most its length. *)
LEMMA IndexBound == \A n \in Nat : \A k \in 1..n : k <= n
  OBVIOUS

(* An argument that is an error matches no form. *)
LEMMA ErrorMatchesNone ==
    ASSUME NEW f, NEW as \in Seq(Value), WellTyped(f, as), NEW i \in 1..Len(as)
    PROVE  as[i].type # "ERROR"
  <1>1. PICK form \in Forms(f) :
            /\ f \notin Variadic => Len(as) = Len(form)
            /\ \A j \in 1..Len(as) :
                  /\ j <= Len(form) => as[j].type \in form[j]
                  /\ ~(j <= Len(form)) => as[j].type \in form[Len(form)]
    BY FormOf, Zenon
  <1>2. Len(form) \in Nat /\ (f \in Variadic => Len(form) # 0)
    BY FormLength, Zenon
  <1>3. \A k \in 1..Len(form) : "ERROR" \notin form[k]
    BY FormsTakeNoError
  <1>4. CASE i <= Len(form)
    <2>1. i \in 1..Len(form)
      BY <1>2, <1>4
    <2>2. as[i].type \in form[i]
      BY <1>1, <1>4, Zenon
    <2> QED BY <1>3, <2>1, <2>2
  <1>5. CASE ~(i <= Len(form))
    <2>1. Len(form) \in 1..Len(form)
      <3>1. i <= Len(as)
        <4>1. Len(as) \in Nat
          BY LenProperties
        <4> QED BY ONLY <4>1, IndexBound, Zenon
      <3>2. Len(as) # Len(form)
        BY ONLY <1>5, <3>1, Zenon
      <3>3. f \in Variadic
        BY <1>1, <3>2, Zenon
      <3> QED BY ONLY <1>2, <3>3
    <2>2. as[i].type \in form[Len(form)]
      BY <1>1, <1>5, Zenon
    <2> QED BY <1>3, <2>1, <2>2
  <1> QED BY <1>4, <1>5

(* A function that reduces its arguments. *)
LEMMA OwedArgs ==
    ASSUME IInv, OwedInv, [Next]_vars, ReduceFunc \/ ArgsReturn
    PROVE  OwedInv'
  <1>1. CASE ReduceFunc
    <2>1. ctl.mode = "REDUCE" /\ N.type = "FUNC"
      BY <1>1 DEF ReduceFunc, Reducing, In, N
    <2>2. calls # << >> /\ Here \in Addr /\ N \in Node \cup XenoNodes
      BY <2>1, InExpression
    <2>3. N.func \in Func /\ N.args \in Seq(Node)
      BY <2>1, <2>2, NodeParts
    <2>4. ASSUME NEW b, NextOwes(Here, ctl, b)
          PROVE  \E i \in 1..Len(N.args) : ReadsBy(Here, N.args[i], b)
      <3>1. N \in Node /\ ReadsBy(Here, N, b)
        BY <2>1, <2>4 DEF NextOwes, N
      <3> QED BY <2>1, <2>2, <3>1, ReadsByType
    <2>5. CASE N.args = << >>
      <3>1. UNCHANGED calls
        BY <1>1, <2>5 DEF ReduceFunc
      <3>2. Len(N.args) = 0
        BY <2>5
      <3> QED BY <2>1, <2>2, <2>4, <3>1, <3>2, OwedOnward
    <2>6. CASE N.args # << >>
      <3> DEFINE f == [k |-> "ARGS", func |-> N.func, done |-> << >>, rest |-> Tail(N.args)]
      <3>1. Push(f) /\ ctl' = Reduce(Head(N.args))
        BY <1>1, <2>6 DEF ReduceFunc, Go
      <3>2. Head(N.args) \in Node /\ Tail(N.args) \in Seq(Node) /\ Head(N.args) = N.args[1]
        BY <2>3, <2>6, HeadTail
      <3>3. f \in Frame /\ f.k = "ARGS" /\ f.rest = Tail(N.args)
        BY <2>3, <3>2, EmptySeq DEF Frame, ArgsFrame
      <3> HIDE DEF f
      <3>4. ASSUME NEW b, NextOwes(Here, ctl, b)
            PROVE  FrameOwes(Here, f, b) \/ NextOwes(Here, ctl', b)
        <4>1. PICK i \in 1..Len(N.args) : ReadsBy(Here, N.args[i], b)
          BY <2>4, <3>4
        <4>2. CASE i = 1
          BY <3>1, <3>2, <4>1, <4>2 DEF NextOwes, Reduce
        <4>3. CASE i # 1
          <5>1. i - 1 \in 1..Len(Tail(N.args)) /\ Tail(N.args)[i - 1] = N.args[i]
            BY <2>3, <2>6, <4>3, LaterItem
          <5> QED BY <3>3, <4>1, <5>1 DEF FrameOwes
        <4> QED BY <4>2, <4>3
      <3> QED BY <2>1, <2>2, <3>1, <3>3, <3>4, OwedPush
    <2> QED BY <2>5, <2>6
  <1>2. CASE ArgsReturn
    <2> DEFINE done == Append(F.done, ctl.value)
               f == [F EXCEPT !.done = done, !.rest = Tail(@)]
               Failed == \E i \in 1..Len(done) : done[i].type = "ERROR"
    <2>1. ctl.mode = "VALUE" /\ calls # << >> /\ Work # << >> /\ F.k = "ARGS"
      BY <1>2 DEF ArgsReturn, In, OnTop, F
    <2>2. ctl.value \in Value /\ Here \in Addr /\ F \in ArgsFrame
      BY <2>1, InExpression, Facts, WorkChain, FrameOf
    <2>3. F.func \in Func /\ F.done \in Seq(Value) /\ F.rest \in Seq(Node)
      BY <2>2 DEF ArgsFrame
    <2>4. /\ done \in Seq(Value) /\ Len(F.done) \in Nat /\ Len(done) = Len(F.done) + 1
          /\ \A i \in 1..Len(F.done) : done[i] = F.done[i]
          /\ done[Len(F.done) + 1] = ctl.value
      BY <2>2, <2>3, AppendProperties, LenProperties
    <2> HIDE DEF done
    <2>5. ASSUME NEW b, FrameOwes(Here, F, b) \/ NextOwes(Here, ctl, b)
          PROVE  Failed \/ \E i \in 1..Len(F.rest) : ReadsBy(Here, F.rest[i], b)
      <3>1. \/ \E i \in 1..Len(F.rest) : ReadsBy(Here, F.rest[i], b)
            \/ \E i \in 1..Len(F.done) : F.done[i].type = "ERROR"
            \/ ctl.value.type = "ERROR"
        BY <2>1, <2>5 DEF FrameOwes, NextOwes
      <3>2. CASE \E i \in 1..Len(F.done) : F.done[i].type = "ERROR"
        BY <2>4, <3>2
      <3>3. CASE ctl.value.type = "ERROR"
        BY <2>4, <3>3
      <3> QED BY <3>1, <3>2, <3>3
    <2>6. CASE F.rest = << >>
      <3>1. Pop /\ ctl' = Apply(F.func, done)
        BY <1>2, <2>6 DEF ArgsReturn, Go, done
      <3>2. Len(F.rest) = 0
        BY <2>6
      <3>3. Failed => \A b : NextOwes(Here, ctl', b)
        BY <3>1 DEF NextOwes, Apply
      <3> QED BY <2>1, <2>5, <3>1, <3>2, <3>3, OwedPop
    <2>7. CASE F.rest # << >>
      <3>1. Replace(f) /\ ctl' = Reduce(Head(F.rest))
        BY <1>2, <2>7 DEF ArgsReturn, Go, done
      <3>2. Head(F.rest) \in Node /\ Tail(F.rest) \in Seq(Node) /\ Head(F.rest) = F.rest[1]
        BY <2>3, <2>7, HeadTail
      <3>3. f \in ArgsFrame /\ f.k = "ARGS" /\ f.rest = Tail(F.rest) /\ f.done = done
        BY <2>1, <2>2, <2>4, <3>2 DEF ArgsFrame
      <3>4. f \in Frame
        BY <3>3 DEF Frame
      <3> HIDE DEF f
      <3>5. ASSUME NEW b, FrameOwes(Here, F, b) \/ NextOwes(Here, ctl, b)
            PROVE  FrameOwes(Here, f, b) \/ NextOwes(Here, ctl', b)
        <4>1. CASE Failed
          BY <3>3, <4>1 DEF FrameOwes
        <4>2. CASE ~Failed
          <5>1. PICK i \in 1..Len(F.rest) : ReadsBy(Here, F.rest[i], b)
            BY <2>5, <3>5, <4>2
          <5>2. CASE i = 1
            BY <3>1, <3>2, <5>1, <5>2 DEF NextOwes, Reduce
          <5>3. CASE i # 1
            <6>1. i - 1 \in 1..Len(Tail(F.rest)) /\ Tail(F.rest)[i - 1] = F.rest[i]
              BY <2>3, <2>7, <5>3, LaterItem
            <6> QED BY <3>3, <5>1, <6>1 DEF FrameOwes
          <5> QED BY <5>2, <5>3
        <4> QED BY <4>1, <4>2
      <3> QED BY <2>1, <3>1, <3>4, <3>5, OwedReplace
    <2> QED BY <2>6, <2>7
  <1> QED BY <1>1, <1>2

(* A function that has its arguments: they match a form, or it is an error. *)
LEMMA OwedApply ==
    ASSUME IInv, OwedInv, [Next]_vars,
           \/ ApplyMismatch \/ ApplyPure \/ ApplyRow \/ ApplyBodyCol \/ ApplyCell
           \/ ApplyAggregate \/ ApplyMaskSum
    PROVE  OwedInv'
  <1>1. ctl.mode = "APPLY"
    BY DEF ApplyMismatch, ApplyPure, ApplyRow, ApplyBodyCol, ApplyCell, ApplyAggregate,
           ApplyMaskSum, Applying, In
  <1>2. calls # << >> /\ ctl.args \in Seq(Value)
    BY <1>1, InExpression
  <1>3. CASE ApplyMismatch
    <2>1. UNCHANGED calls /\ \E e : ctl' = Fail(e)
      BY <1>3 DEF ApplyMismatch, Go
    <2> QED BY <1>1, <1>2, <2>1, NextOwesNothing, OwedOnward
  <1>4. CASE ~ApplyMismatch
    <2>1. WellTyped(ctl.func, ctl.args)
      BY <1>4 DEF ApplyPure, ApplyRow, ApplyBodyCol, ApplyCell, ApplyAggregate, ApplyMaskSum,
                  Applying
    <2>2. \A b : ~NextOwes(Here, ctl, b)
      BY <1>1, <1>2, <2>1, ErrorMatchesNone DEF NextOwes
    <2>3. CASE UNCHANGED calls
      BY <1>1, <1>2, <2>2, <2>3, OwedOnward
    <2>4. CASE ~UNCHANGED calls
      <3>1. \E f \in Frame : Push(f)
        BY <1>4, <2>4, AppliesPush DEF ApplyPure, ApplyRow, ApplyBodyCol, ApplyCell
      <3> QED BY <1>1, <1>2, <2>2, <3>1, OwedPush
    <2> QED BY <2>3, <2>4
  <1> QED BY <1>3, <1>4

(* The loops over cells read nothing that is owed. *)
LEMMA OwedLoops ==
    ASSUME IInv, OwedInv, [Next]_vars, LoopStep
    PROVE  OwedInv'
  <1>1. /\ ctl.mode \in {"LOOP", "RETURNED"} /\ calls # << >> /\ Work # << >>
        /\ F.k \in {"FOLD", "MASK"}
    BY DEF LoopStep, FoldNumber, FoldRange, FoldCell, FoldReturns, FoldEnds, MaskCell,
           MaskTested, MaskReturns, MaskEnds, Turn, In, OnTop, F
  <1>2. \A b : ~FrameOwes(Here, F, b) /\ ~NextOwes(Here, ctl, b)
    BY <1>1, LoopsOweNothing, NextOwesNothing
  <1>3. CASE FoldCell \/ MaskCell
    <2>1. UNCHANGED calls
      BY <1>3 DEF FoldCell, MaskCell
    <2> QED BY <1>1, <1>2, <2>1, OwedOnward
  <1>4. CASE FoldEnds \/ MaskEnds
    <2>1. Pop
      BY <1>4 DEF FoldEnds, MaskEnds
    <2> QED BY <1>1, <1>2, <2>1, OwedPop
  <1>5. CASE FoldNumber \/ FoldRange \/ FoldReturns \/ MaskTested \/ MaskReturns
    <2>1. PICK f \in FoldFrame \cup MaskFrame : Replace(f)
      BY <1>5, FoldTurns, MaskTurns
    <2>2. f \in Frame
      BY DEF Frame
    <2> QED BY <1>1, <1>2, <2>1, <2>2, OwedReplace
  <1> QED BY <1>3, <1>4, <1>5 DEF LoopStep

-----------------------------------------------------------------------------
(* EvaluateCell keeps what is owed.                                        *)

(* Where no call is open, or the program has stopped, nothing is owed. *)
LEMMA NothingOwed == calls' = << >> \/ ctl'.mode = "ABORT" => OwedInv'
  <1>1. CASE calls' = << >>
    <2>1. Len(calls') = 0
      BY <1>1
    <2> QED BY <2>1 DEF OwedInv
  <1> QED BY <1>1 DEF OwedInv

(* EvaluateCell answers at once. *)
LEMMA OwedAnswers ==
    ASSUME IInv, OwedInv, [Next]_vars, EvaluateFinal \/ EvaluateCycle \/ EvaluateUnparsable
    PROVE  OwedInv'
  <1>1. ctl.mode = "EVALUATE" /\ UNCHANGED calls
    BY DEF EvaluateFinal, EvaluateCycle, EvaluateUnparsable, EvaluatePending, In
  <1>2. CASE calls = << >>
    BY <1>1, <1>2, NothingOwed
  <1>3. CASE calls # << >>
    BY <1>1, <1>3, NextOwesNothing, OwedOnward
  <1> QED BY <1>2, <1>3

(* EvaluateCell begins to reduce the expression of its cell. *)
LEMMA OwedEnter ==
    ASSUME IInv, OwedInv, [Next]_vars, EvaluateEnter
    PROVE  OwedInv'
  <1> DEFINE a == ctl.at
             new == [at |-> a, work |-> << >>]
  <1>1. /\ ctl.mode = "EVALUATE" /\ a \in Addr /\ cell[a].type = "EXPR"
        /\ cell[a].expr # Unparsable
        /\ calls' = Append(calls, new) /\ ctl' = Reduce(cell[a].expr)
    BY DEF EvaluateEnter, EvaluatePending, CellExists, In, Go
  <1>2. cell[a] = files[a] /\ cell[a] \in Cell
    BY <1>1, Facts DEF OnlyLoaded, In
  <1>3. cell[a].expr \in Node
    BY <1>1, <1>2, CellTypes
  <1> HIDE DEF a
  <1>4. new \in Call
    BY <1>1, EmptySeq DEF Call
  <1>5. new.at = a
    OBVIOUS
  <1> HIDE DEF new
  <1>6. /\ Len(calls) \in Nat /\ Len(calls') = Len(calls) + 1
        /\ \A i \in 1..Len(calls) : calls'[i] = calls[i]
        /\ calls'[Len(calls) + 1] = new
    BY <1>1, <1>4, Facts, AppendProperties, LenProperties
  <1>7. ASSUME NEW i \in 1..Len(calls), NEW b \in Reads(calls[i].at)
        PROVE  Good(b)' \/ WorkOwes(calls[i].at, calls[i].work, b)
    <2>1. ~NextOwes(calls[i].at, ctl, b)
      BY <1>1, NextOwesNothing
    <2>2. Good(b) \/ WorkOwes(calls[i].at, calls[i].work, b)
      BY <1>1, <2>1 DEF OwedInv
    <2> QED BY <2>2, GoodStays
  <1>8. ASSUME NEW b \in Reads(a)
        PROVE  NextOwes(a, ctl', b)
    <2>1. b \in PlainRefs[<<a, cell[a].expr>>]
      BY <1>2 DEF Reads
    <2> QED BY <1>1, <1>3, <2>1 DEF NextOwes, ReadsBy, Reduce
  <1> SUFFICES ASSUME NEW i \in 1..Len(calls'), NEW b \in Reads(calls'[i].at)
               PROVE  \/ Good(b)' \/ WorkOwes(calls'[i].at, calls'[i].work, b)
                      \/ i = Len(calls') /\ NextOwes(calls'[i].at, ctl', b)
    BY FilesStay DEF OwedInv
  <1>9. CASE i \in 1..Len(calls)
    BY <1>6, <1>7, <1>9
  <1>10. CASE i = Len(calls) + 1
    BY <1>5, <1>6, <1>8, <1>10
  <1> QED BY <1>6, <1>9, <1>10

(* EvaluateCell stores the value of its cell and returns. *)
LEMMA OwedStore ==
    ASSUME IInv, OwedInv, [Next]_vars, EvaluateStore
    PROVE  OwedInv'
  <1>1. ctl.mode = "VALUE" /\ calls' = SubSeq(calls, 1, Len(calls) - 1)
    BY DEF EvaluateStore, In
  <1>2. calls # << >>
    BY <1>1, InExpression
  <1>3. Len(calls) \in Nat /\ Len(calls) >= 1
    BY <1>2, Facts, TopType
  <1>4. /\ Len(calls') = Len(calls) - 1
        /\ \A i \in 1..(Len(calls) - 1) : calls'[i] = calls[i]
    BY <1>1, <1>3, Facts, DropLast
  <1> SUFFICES ASSUME NEW i \in 1..(Len(calls) - 1), NEW b \in Reads(calls[i].at)
               PROVE  Good(b)' \/ WorkOwes(calls[i].at, calls[i].work, b)
    BY <1>4, FilesStay DEF OwedInv
  <1>5. i \in 1..Len(calls) /\ i # Len(calls)
    BY <1>3
  <1>6. Good(b) \/ WorkOwes(calls[i].at, calls[i].work, b)
    BY <1>1, <1>5 DEF OwedInv
  <1> QED BY <1>6, GoodStays

(* Every step keeps what is owed. *)
LEMMA OwedKeeps == IInv /\ OwedInv /\ [Next]_vars => OwedInv'
  <1> SUFFICES ASSUME IInv, OwedInv, [Next]_vars PROVE OwedInv'
    OBVIOUS
  <1>1. CASE UNCHANGED vars
    BY <1>1, FilesStay DEF vars, OwedInv, Good
  <1>2. CASE MainStep
    <2>1. calls = << >> /\ UNCHANGED calls
      BY <1>2, Facts DEF MainStep, MainSkips, MainOpens, ScanCell, MainPrints, Exit, In,
                         ControlInv
    <2> QED BY <2>1, NothingOwed
  <1>3. CASE CellStep
    <2>1. EvaluateMissing => ctl'.mode = "ABORT"
      BY DEF EvaluateMissing, Stop, Go, Plain
    <2>2. CASE ScanResumes
      BY <2>2, NothingOwed DEF ScanResumes
    <2>3. CASE EvaluateMissing
      BY <2>1, <2>3, NothingOwed
    <2> QED BY <1>3, <2>2, <2>3, OwedAnswers, OwedEnter, OwedStore DEF CellStep
  <1>4. CASE ReduceStep
    <2>1. ReduceBadRange \/ ReduceBadCell \/ ReduceBadXeno => ctl'.mode = "ABORT"
      BY DEF ReduceBadRange, ReduceBadCell, ReduceBadXeno, Stop, Go, Plain
    <2>2. CASE ReduceBadRange \/ ReduceBadCell \/ ReduceBadXeno
      BY <2>1, <2>2, NothingOwed
    <2> QED BY <1>4, <2>2, OwedAtOnce, OwedReads, OwedRead, OwedTerm, OwedSum DEF ReduceStep
  <1>5. CASE FuncStep
    <2>1. CASE ApplyCol
      BY <2>1, NothingOwed DEF ApplyCol, Stop, Go, Plain
    <2> QED BY <1>5, <2>1, OwedArgs, OwedApply DEF FuncStep
  <1>6. CASE LoopStep
    BY <1>6, OwedLoops
  <1>7. CASE Rest
    BY <1>1, <1>7 DEF Rest
  <1> QED BY <1>1, <1>2, <1>3, <1>4, <1>5, <1>6, <1>7 DEF Next, Step

-----------------------------------------------------------------------------
(* What is owed is paid before a cell has a value.                         *)

(* What a step can do to a cell: nothing, load it, find that it does not   *)
(* parse, or store its value.                                              *)
LEMMA CellSteps ==
    ASSUME IInv, [Next]_vars, NEW a \in Addr
    PROVE  \/ cell'[a] = cell[a] /\ (a[1] \in loaded' => a[1] \in loaded)
           \/ cell'[a] = files[a]
           \/ cell'[a].type = "ERROR"
           \/ EvaluateStore /\ a = Here /\ cell'[a] = SetCellFromNode(ctl.value)
  <1>1. cell \in [Addr -> Cell]
    BY Facts
  <1>2. CASE UNCHANGED <<cell, loaded>>
    BY <1>2
  <1>3. CASE \E d : MakeDocument(d)
    <2>1. PICK d : MakeDocument(d)
      BY <1>3
    <2>2. /\ cell'[a] = IF a[1] = d /\ d \notin loaded THEN files[a] ELSE cell[a]
          /\ loaded' = loaded \cup {d}
      BY <2>1 DEF MakeDocument
    <2> QED BY <2>2
  <1>4. CASE EvaluateUnparsable
    <2>1. cell' = [cell EXCEPT ![ctl.at] = ErrorNode("PARSE")] /\ UNCHANGED loaded
      BY <1>4 DEF EvaluateUnparsable
    <2>2. ErrorNode("PARSE").type = "ERROR"
      BY DEF ErrorNode
    <2> QED BY <1>1, <2>1, <2>2
  <1>5. CASE EvaluateStore
    <2>1. cell' = [cell EXCEPT ![Here] = SetCellFromNode(ctl.value)] /\ UNCHANGED loaded
      BY <1>5 DEF EvaluateStore
    <2> QED BY <1>1, <1>5, <2>1
  <1>6. Next \/ UNCHANGED <<cell, loaded>>
    BY DEF vars
  <1> QED BY <1>2, <1>3, <1>4, <1>5, <1>6, Writers

(* A value is stored only when all that the expression reads has a value:  *)
(* no work is left that could owe it.                                      *)
LEMMA StorePays ==
    ASSUME IInv, OwedInv, EvaluateStore,
           SetCellFromNode(ctl.value).type # "ERROR"
    PROVE  \A b \in Reads(Here) : Good(b)
  <1>1. ctl.mode = "VALUE" /\ Work = << >>
    BY DEF EvaluateStore, In
  <1>2. calls # << >>
    BY <1>1, InExpression
  <1>3. /\ Len(calls) \in Nat /\ Len(calls) >= 1
        /\ Here = calls[Len(calls)].at /\ Work = calls[Len(calls)].work
    BY <1>2, Facts, TopType DEF Here, Work, Top
  <1>4. ctl.value.type # "ERROR"
    BY DEF SetCellFromNode
  <1>5. \A b : ~NextOwes(Here, ctl, b)
    BY <1>1, <1>4 DEF NextOwes
  <1>6. \A b : ~WorkOwes(Here, Work, b)
    <2>1. Len(Work) = 0
      BY <1>1
    <2> QED BY <2>1 DEF WorkOwes
  <1>7. \A b \in Reads(Here) : Good(b) \/ WorkOwes(Here, Work, b) \/ NextOwes(Here, ctl, b)
    BY <1>1, <1>3 DEF OwedInv
  <1> QED BY <1>5, <1>6, <1>7

(* What a file holds in a cell that reads others is an expression. *)
LEMMA ReadersAreExpressions == \A a : Reads(a) # {} => files[a].type = "EXPR"
  BY DEF Reads

(* Every step keeps cells settled. *)
LEMMA SettledKeeps == IInv /\ RInv /\ [Next]_vars => SettledInv'
  <1> SUFFICES ASSUME IInv, RInv, [Next]_vars,
                      NEW a \in Addr, a[1] \in loaded', Reads(a) # {}
               PROVE  \/ cell'[a].type \in {"EXPR", "ERROR"}
                      \/ \A b \in Reads(a) : Good(b)'
    BY FilesStay DEF SettledInv
  <1>1. CASE cell'[a] = cell[a] /\ (a[1] \in loaded' => a[1] \in loaded)
    <2>1. cell[a].type \in {"EXPR", "ERROR"} \/ \A b \in Reads(a) : Good(b)
      BY <1>1 DEF RInv, SettledInv
    <2> QED BY <1>1, <2>1, GoodStays
  <1>2. CASE cell'[a] = files[a]
    BY <1>2, ReadersAreExpressions
  <1>3. CASE EvaluateStore /\ a = Here /\ cell'[a] = SetCellFromNode(ctl.value)
    <2>1. CASE SetCellFromNode(ctl.value).type = "ERROR"
      BY <1>3, <2>1
    <2>2. CASE SetCellFromNode(ctl.value).type # "ERROR"
      BY <1>3, <2>2, StorePays, GoodStays DEF RInv
    <2> QED BY <2>1, <2>2
  <1> QED BY <1>1, <1>2, <1>3, CellSteps

(* Every step keeps circles without a value: for a cell of a circle to     *)
(* have one, another cell of the circle would have to have one before.     *)
LEMMA CirclesKeep == IInv /\ RInv /\ [Next]_vars => CirclesInv'
  <1> SUFFICES ASSUME IInv, RInv, [Next]_vars,
                      NEW C \in SUBSET Addr, \A a \in C : Reads(a) \cap C # {},
                      NEW a \in C, Good(a)'
               PROVE  FALSE
    BY FilesStay DEF CirclesInv
  <1>1. \A b \in C : ~Good(b)
    BY DEF RInv, CirclesInv
  <1>2. a \in Addr /\ cell'[a].type \in {"NUMBER", "STRING"} /\ Reads(a) \cap C # {}
    BY DEF Good
  <1>3. cell'[a] # cell[a]
    BY <1>1, <1>2 DEF Good
  <1>4. cell'[a] # files[a]
    BY <1>2, ReadersAreExpressions
  <1>5. EvaluateStore /\ a = Here /\ cell'[a] = SetCellFromNode(ctl.value)
    BY <1>2, <1>3, <1>4, CellSteps
  <1>6. \A b \in Reads(a) : Good(b)
    BY <1>2, <1>5, StorePays DEF RInv
  <1> QED BY <1>1, <1>2, <1>6

(* RInv is inductive, relative to the invariant of the evaluator. *)
LEMMA ReadsKeep == IInv /\ RInv /\ [Next]_vars => RInv'
  BY OwedKeeps, SettledKeeps, CirclesKeep DEF RInv

(* At the start nothing is loaded, and no cell has a value. *)
LEMMA ReadsStart == Init => RInv
  <1> SUFFICES ASSUME Init PROVE RInv
    OBVIOUS
  <1>1. /\ calls = << >> /\ loaded = {}
        /\ \A a \in Addr : cell[a].type = "NULL"
    BY DEF Init, NullCell
  <1>2. Len(calls) = 0
    BY <1>1
  <1>3. \A a : ~Good(a)
    BY <1>1 DEF Good
  <1> QED BY <1>1, <1>2, <1>3 DEF RInv, OwedInv, SettledInv, CirclesInv

(* The three invariants hold together. *)
LEMMA ReadsInvariance == Spec => [](IInv /\ OInv /\ RInv)
  <1>1. Init => IInv /\ OInv /\ RInv
    BY InitKeeps, OutputStarts, ReadsStart
  <1>2. IInv /\ OInv /\ RInv /\ [Next]_vars => (IInv /\ OInv /\ RInv)'
    BY StepKeeps, OutputKeeps, ReadsKeep
  <1> QED BY <1>1, <1>2, PTL DEF Spec

(* A printed cell is a final cell of a loaded document. *)
LEMMA PrintedIsFinal ==
    ASSUME OInv, NEW a \in Printed
    PROVE  a \in Addr /\ a[1] \in loaded /\ cell[a].type # "EXPR"
  <1>1. PICK i \in 1..Len(output) : a \in DOMAIN output[i].cells
    BY DEF Printed
  <1>2. a \in Addr /\ a[1] \in loaded
    BY <1>1 DEF OInv, OutputInv
  <1>3. output[i].cells[a].type # "EXPR" /\ output[i].cells[a] = cell[a]
    BY <1>1 DEF OInv, OutputFinal
  <1> QED BY <1>2, <1>3

(* Where a printed cell reads, through operands, arguments and macros, a   *)
(* cell that is an error, empty or not there, ReduceNode has made an error *)
(* of it: no frame of its recursion drops an error on the way.             *)
THEOREM ErrorsReachReaders == Spec => []ErrorsPropagate
  <1>1. IInv /\ OInv /\ RInv => ErrorsPropagate
    <2> SUFFICES ASSUME OInv, SettledInv, NEW a \in Printed, NEW b \in Reads(a),
                        b \notin Addr \/ cell[b].type \in {"ERROR", "NULL"}
                 PROVE  cell[a].type = "ERROR"
      BY DEF RInv, ErrorsPropagate
    <2>1. a \in Addr /\ a[1] \in loaded /\ cell[a].type # "EXPR"
      BY PrintedIsFinal
    <2>2. ~Good(b)
      BY DEF Good
    <2> QED BY <2>1, <2>2 DEF SettledInv
  <1> QED BY <1>1, ReadsInvariance, PTL

(* EvaluateCell gives no value to a cell of a circle of references, nor to *)
(* one that leads into a circle, however long the circle is and wherever   *)
(* the evaluation entered it: all that is printed of them is errors.       *)
THEOREM CirclesAreErrors == Spec => []CyclesAreErrors
  <1>1. IInv /\ OInv /\ RInv => CyclesAreErrors
    <2> SUFFICES ASSUME OInv, SettledInv, CirclesInv, NEW C \in SUBSET Asking,
                        \A a \in C : Reads(a) \cap C # {}, NEW a \in C \cap Printed
                 PROVE  cell[a].type = "ERROR"
      BY DEF RInv, CyclesAreErrors
    <2>1. a \in Addr /\ a[1] \in loaded /\ cell[a].type # "EXPR"
      BY PrintedIsFinal
    <2>2. PICK b \in Reads(a) : b \in C
      OBVIOUS
    <2>3. C \in SUBSET Addr
      BY DEF Asking
    <2>4. ~Good(b)
      BY <2>2, <2>3 DEF CirclesInv
    <2> QED BY <2>1, <2>4 DEF SettledInv
  <1> QED BY <1>1, ReadsInvariance, PTL
=============================================================================
