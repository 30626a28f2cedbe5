------------------------------ MODULE Evaluator ------------------------------
(***************************************************************************)
(* The evaluation of documents by src/main.c: the argument loop of main,   *)
(* EvaluateDocument, EvaluateCell, EvaluateIntoNode and ReduceNode, with   *)
(* every call they make that changes a cell or loads a document.           *)
(*                                                                         *)
(* The recursion of the code is made explicit.  calls is the chain of      *)
(* EvaluateCell calls that are reducing the expression of their cell, the  *)
(* innermost last; each keeps the ReduceNode calls (and the loops over     *)
(* ranges) still open in that cell, the innermost first.  ctl is what the  *)
(* program does next.  The build is the default one: a failing assertion,  *)
(* Check or unreachable() stops the program, which is the mode "ABORT".    *)
(***************************************************************************)
EXTENDS Sheets

CONSTANTS
    Contents,       \* the cells the files may have
    ArgLists        \* the argument lists: sequences over Doc \cup {NoDoc}

ASSUME ContentsAssumption == Contents \subseteq [Addr -> Cell]
ASSUME ArgListsAssumption == \A l \in ArgLists : l \in Seq(Doc \cup {NoDoc})

-----------------------------------------------------------------------------
VARIABLES
    files,      \* files[a]: what MakeDocument parses for a, when it loads it
    cell,       \* cell[a]: the cell at a, without its format
    state,      \* state[a]: its State
    loaded,     \* the documents MakeDocument has loaded: the document cache
    args,       \* the command line arguments main has not finished with
    scan,       \* EvaluateDocument's loop: its document, the cells left
    calls,      \* the open EvaluateCell calls, innermost last
    ctl,        \* what the program does next
    output      \* the documents printed, as they were printed

vars == <<files, cell, state, loaded, args, scan, calls, ctl, output>>
callVars == <<files, args, scan, output>>

(* What ReduceNode has open: the operand of a negation, an operand of a    *)
(* sum, an argument of a function, the cell it reads, the loops over the   *)
(* ranges of an aggregate function and over the body rows of mask_sum.     *)
NegateFrame == [k : {"NEGATE"}]
MathFrame   == [k : {"MATH"}, acc : Num, op : MathOp, rest : Operands]
ArgsFrame   == [k : {"ARGS"}, func : Func, done : Seq(Value), rest : Seq(Node)]
IntoFrame   == [k : {"INTO"}, at : Addr]
FoldFrame   == [k : {"FOLD"}, func : Aggregates, acc : [count : Nat, num : Num],
                args : Seq(NumberNodes \cup RangeNodes), todo : Seq(Int \X Int)]
MaskFrame   == [k : {"MASK"}, test : Int, proto : NumberNodes \cup StringNodes,
                trgt : Int, row : Int, last : Int, phase : {"TEST", "TARGET"},
                acc : Num]
Frame == NegateFrame \cup MathFrame \cup ArgsFrame \cup IntoFrame
         \cup FoldFrame \cup MaskFrame
Call == [at : Addr, work : Seq(Frame)]

(* MAIN: main takes its next argument.  SCAN: EvaluateDocument takes its   *)
(* next cell.  EVALUATE, RETURNED: EvaluateCell is called, returns (ok: no *)
(* error).  REDUCE, VALUE: ReduceNode is called, returns.  APPLY: a        *)
(* function has its arguments.  LOOP: a loop over cells takes a turn.      *)
Reduce(n)     == [mode |-> "REDUCE", node |-> n]
Give(v)       == [mode |-> "VALUE", value |-> v]
Fail(e)       == Give(ErrorNode(e))
Evaluate(p)   == [mode |-> "EVALUATE", at |-> p]
Returned(ok)  == [mode |-> "RETURNED", ok |-> ok]
Apply(f, as)  == [mode |-> "APPLY", func |-> f, args |-> as]
Plain(m)      == [mode |-> m]
Control ==
    [mode : {"MAIN", "SCAN", "LOOP", "EXIT", "ABORT"}]
    \cup [mode : {"REDUCE"}, node : Node \cup XenoNodes]
    \cup [mode : {"VALUE"}, value : Value]
    \cup [mode : {"EVALUATE"}, at : Place]
    \cup [mode : {"RETURNED"}, ok : BOOLEAN]
    \cup [mode : {"APPLY"}, func : Func, args : Seq(Value)]

Idle == [doc |-> NoDoc, todo |-> << >>]

(* DocCells slip: the last row is not evaluated. *)
DocCellsShort(d) == Block(0, 0, Shape[d].cols, Shape[d].rows - 1)
(* The cells of EvaluateDocument's double loop. *)
DocCells(d) == Block(0, 0, Shape[d].cols, Shape[d].rows)

(* What PrintDocument reads of a document: the cells of its used area. *)
Snapshot(d) ==
    [a \in {b \in Addr : b[1] = d /\ b[2] < Shape[d].cols /\ b[3] < Shape[d].rows}
        |-> cell[a]]

(* The cell a call has asked EvaluateCell for, and waits for. *)
Waiting(call) ==
    /\ call.work # << >>
    /\ LET f == Head(call.work) IN
       f.k = "INTO" \/ (f.k = "FOLD" /\ f.todo # << >>) \/ f.k = "MASK"
Awaited(call) ==
    LET f == Head(call.work) IN
    CASE f.k = "INTO" -> f.at
      [] f.k = "FOLD" -> Located(call.at[1], Head(f.todo))
      [] f.k = "MASK" -> <<call.at[1], IF f.phase = "TEST" THEN f.test ELSE f.trgt, f.row>>

-----------------------------------------------------------------------------
(* The innermost call, its cell and its open work. *)
Top   == calls[Len(calls)]
Here  == Top.at
D     == Here[1]
Work  == Top.work
SetWork(w)  == calls' = [calls EXCEPT ![Len(calls)].work = w]
Push(f)     == SetWork(<<f>> \o Work)
Pop         == SetWork(Tail(Work))
Replace(f)  == SetWork(<<f>> \o Tail(Work))

In(mode)    == ctl.mode = mode
Go(c)       == ctl' = c /\ UNCHANGED callVars
Stop        == Go(Plain("ABORT")) /\ UNCHANGED <<cell, state, loaded, calls>>
Pure        == UNCHANGED <<cell, state, loaded>>
OnTop(k)    == calls # << >> /\ Work # << >> /\ Head(Work).k = k
F           == Head(Work)

-----------------------------------------------------------------------------
(* main and EvaluateDocument.                                              *)

Init ==
    /\ files \in Contents
    /\ cell = [a \in Addr |-> NullCell]
    /\ state = [a \in Addr |-> "STABLE"]
    /\ args \in ArgLists
    /\ loaded = {} /\ scan = Idle /\ calls = << >> /\ output = << >>
    /\ ctl = Plain("MAIN")

(* MakeDocument slips: the new document is not logged in the cache; a      *)
(* cached document is parsed again.                                        *)
MakeUnlogged(d) ==
    /\ loaded' = loaded
    /\ cell' = [a \in Addr |-> IF a[1] = d /\ d \notin loaded THEN files[a] ELSE cell[a]]
MakeAgain(d) ==
    /\ loaded' = loaded \cup {d}
    /\ cell' = [a \in Addr |-> IF a[1] = d THEN files[a] ELSE cell[a]]

(* MakeDocument of a file that is there: the cached document, or its cells *)
(* parsed from the file into a new one.                                    *)
MakeDocument(d) ==
    /\ loaded' = loaded \cup {d}
    /\ cell' = [a \in Addr |-> IF a[1] = d /\ d \notin loaded THEN files[a] ELSE cell[a]]

(* MainSkips slip: main stops at the first file that is not there. *)
MainBreaks ==
    /\ In("MAIN") /\ args # << >> /\ Head(args) = NoDoc
    /\ args' = << >>
    /\ UNCHANGED <<files, cell, state, loaded, scan, calls, ctl, output>>

(* MakeDocument finds no document: main warns and goes on. *)
MainSkips ==
    /\ In("MAIN") /\ args # << >> /\ Head(args) = NoDoc
    /\ args' = Tail(args)
    /\ UNCHANGED <<files, cell, state, loaded, scan, calls, ctl, output>>

MainOpens ==
    /\ In("MAIN") /\ args # << >> /\ Head(args) # NoDoc
    /\ MakeDocument(Head(args))
    /\ scan' = [doc |-> Head(args), todo |-> DocCells(Head(args))]
    /\ ctl' = Plain("SCAN")
    /\ UNCHANGED <<files, state, args, calls, output>>

ScanCell ==
    /\ In("SCAN") /\ scan.todo # << >>
    /\ scan' = [scan EXCEPT !.todo = Tail(@)]
    /\ ctl' = Evaluate(Located(scan.doc, Head(scan.todo)))
    /\ UNCHANGED <<files, cell, state, loaded, args, calls, output>>

(* EvaluateDocument is done: PrintDocument, and main's next argument. *)
MainPrints ==
    /\ In("SCAN") /\ scan.todo = << >>
    /\ output' = Append(output, [doc |-> scan.doc, cells |-> Snapshot(scan.doc)])
    /\ args' = Tail(args)
    /\ scan' = Idle
    /\ ctl' = Plain("MAIN")
    /\ UNCHANGED <<files, cell, state, loaded, calls>>

Exit ==
    /\ In("MAIN") /\ args = << >>
    /\ Go(Plain("EXIT")) /\ Pure /\ UNCHANGED calls

-----------------------------------------------------------------------------
(* EvaluateCell.                                                           *)

(* Assert(CellExists(Doc, Col, Row)). *)
EvaluateMissing ==
    In("EVALUATE") /\ ~CellExists(ctl.at) /\ Stop

EvaluateFinal ==
    /\ In("EVALUATE") /\ CellExists(ctl.at) /\ cell[ctl.at].type # "EXPR"
    /\ Go(Returned(TRUE)) /\ Pure /\ UNCHANGED calls

EvaluatePending(a) == In("EVALUATE") /\ ctl.at = a /\ CellExists(a) /\ cell[a].type = "EXPR"

(* EvaluateCycle slip: a cycle is no error. *)
CycleReturnsOk ==
    /\ EvaluatePending(ctl.at) /\ state[ctl.at] = "EVALUATING"
    /\ Go(Returned(TRUE)) /\ Pure /\ UNCHANGED calls

EvaluateCycle ==
    /\ EvaluatePending(ctl.at) /\ state[ctl.at] = "EVALUATING"
    /\ Go(Returned(FALSE)) /\ Pure /\ UNCHANGED calls

(* EvaluateUnparsable slip: the error is not stored. *)
UnparsableStays ==
    /\ EvaluatePending(ctl.at) /\ state[ctl.at] = "STABLE"
    /\ cell[ctl.at].expr = Unparsable
    /\ Go(Returned(TRUE)) /\ Pure /\ UNCHANGED calls

(* ParseExpr returns a null pointer; the cell is STABLE again at the end. *)
EvaluateUnparsable ==
    /\ EvaluatePending(ctl.at) /\ state[ctl.at] = "STABLE"
    /\ cell[ctl.at].expr = Unparsable
    /\ cell' = [cell EXCEPT ![ctl.at] = ErrorNode("PARSE")]
    /\ Go(Returned(TRUE)) /\ UNCHANGED <<state, loaded, calls>>

EvaluateEnter ==
    /\ EvaluatePending(ctl.at) /\ state[ctl.at] = "STABLE"
    /\ cell[ctl.at].expr # Unparsable
    /\ state' = [state EXCEPT ![ctl.at] = "EVALUATING"]
    /\ calls' = Append(calls, [at |-> ctl.at, work |-> << >>])
    /\ Go(Reduce(cell[ctl.at].expr)) /\ UNCHANGED <<cell, loaded>>

(* EvaluateStore slip: the cell is left EVALUATING. *)
StoreLeavesOpen ==
    /\ In("VALUE") /\ Work = << >>
    /\ cell' = [cell EXCEPT ![Here] = SetCellFromNode(ctl.value)]
    /\ calls' = SubSeq(calls, 1, Len(calls) - 1)
    /\ Go(Returned(TRUE)) /\ UNCHANGED <<state, loaded>>

(* ReduceNode returns to EvaluateCell, which stores the value and returns. *)
EvaluateStore ==
    /\ In("VALUE") /\ Work = << >>
    /\ cell' = [cell EXCEPT ![Here] = SetCellFromNode(ctl.value)]
    /\ state' = [state EXCEPT ![Here] = "STABLE"]
    /\ calls' = SubSeq(calls, 1, Len(calls) - 1)
    /\ Go(Returned(TRUE)) /\ UNCHANGED loaded

(* EvaluateCell returns to EvaluateDocument, which ignores its error. *)
ScanResumes ==
    /\ In("RETURNED") /\ calls = << >>
    /\ Go(Plain("SCAN")) /\ Pure /\ UNCHANGED calls

-----------------------------------------------------------------------------
(* ReduceNode, the nodes that are not functions.                           *)

Reducing(type) == In("REDUCE") /\ ctl.node.type = type
N == ctl.node

(* EvaluateIntoNode, up to its call of EvaluateCell. *)
Into(p) ==
    /\ Go(IF p[2] < 0 \/ p[3] < 0 THEN Fail("RELATIVE")
          ELSE IF ~CellExists(p) THEN Fail("DNE")
          ELSE Evaluate(p))
    /\ IF CellExists(p) THEN Push([k |-> "INTO", at |-> p]) ELSE UNCHANGED calls

(* IntoReturns slip: a cycle reads as zero. *)
CycleReadsZero ==
    /\ In("RETURNED") /\ OnTop("INTO")
    /\ Go(Give(IF ctl.ok THEN SetAsNodeFrom(cell[Awaited(Top)]) ELSE NumberNode(0)))
    /\ Pop /\ Pure

(* The rest of it, when EvaluateCell returns. *)
IntoReturns ==
    /\ In("RETURNED") /\ OnTop("INTO")
    /\ Go(IF ctl.ok THEN Give(SetAsNodeFrom(cell[Awaited(Top)])) ELSE Fail("SUB"))
    /\ Pop /\ Pure

ReduceFinal ==
    /\ In("REDUCE") /\ N.type \in {"NUMBER", "STRING"}
    /\ Go(Give(N)) /\ Pure /\ UNCHANGED calls

ReduceRange ==
    /\ Reducing("RANGE") /\ RangeOK(N, Here)
    /\ Go(Give(CanonicalRange(Shape[D], N, Here)))
    /\ Pure /\ UNCHANGED calls

(* AbsoluteDim stops the program. *)
ReduceBadRange ==
    Reducing("RANGE") /\ ~RangeOK(N, Here) /\ Stop

ReduceMacro ==
    /\ Reducing("MACRO")
    /\ \E body \in MacroBodies(D, N.name) : Go(Reduce(body))
    /\ Pure /\ UNCHANGED calls

ReduceNoMacro ==
    /\ Reducing("MACRO") /\ MacroBodies(D, N.name) = {}
    /\ Go(Fail("IMPL")) /\ Pure /\ UNCHANGED calls

ReduceCell ==
    Reducing("CELL") /\ RefOK(N, Here) /\ Into(Target(D, N, Here)) /\ Pure

ReduceBadCell ==
    Reducing("CELL") /\ ~RefOK(N, Here) /\ Stop

(* MakeDocument finds no document. *)
ReduceNoFile ==
    /\ Reducing("XENO") /\ Resolve(D, N.file) = NoDoc
    /\ Go(Fail("FILE")) /\ Pure /\ UNCHANGED calls

(* MakeDocument gives the document, from the cache or by loading it. *)
ReduceXeno ==
    LET sub == Resolve(D, N.file) IN
    /\ Reducing("XENO") /\ sub # NoDoc
    /\ RefOK(N, Here)
    /\ MakeDocument(sub)
    /\ Into(Target(sub, N, Here))
    /\ UNCHANGED state

ReduceBadXeno ==
    LET sub == Resolve(D, N.file) IN
    /\ Reducing("XENO") /\ sub # NoDoc
    /\ ~RefOK(N, Here)
    /\ MakeDocument(sub)
    /\ Go(Plain("ABORT")) /\ UNCHANGED <<state, calls>>

ReduceTerm ==
    /\ Reducing("TERM")
    /\ Push([k |-> "NEGATE"]) /\ Go(Reduce(N.child)) /\ Pure

NegateReturns ==
    /\ In("VALUE") /\ OnTop("NEGATE")
    /\ Go(IF ctl.value.type = "NUMBER" THEN Give(NumberNode(Negated(ctl.value.num)))
          ELSE Fail("TYPE"))
    /\ Pop /\ Pure

ReduceSum ==
    /\ Reducing("SUM")
    /\ Push([k |-> "MATH", acc |-> 0, op |-> "SET", rest |-> N.rest])
    /\ Go(Reduce(N.first)) /\ Pure

(* An operand that is an error ends the sum; nothing after it is reduced. *)
MathFails ==
    /\ In("VALUE") /\ OnTop("MATH") /\ MathError(ctl.value) # "NONE"
    /\ Go(Fail(MathError(ctl.value))) /\ Pop /\ Pure

(* MathReturns slip: the operator is not the one of the next operand. *)
MathKeepsOp ==
    /\ In("VALUE") /\ OnTop("MATH") /\ MathError(ctl.value) = "NONE"
    /\ LET acc == MathValue(F.acc, F.op, ctl.value) IN
       IF F.rest = << >>
       THEN Go(Give(NumberNode(acc))) /\ Pop
       ELSE /\ Go(Reduce(Head(F.rest).node))
            /\ Replace([k |-> "MATH", acc |-> acc, op |-> F.op, rest |-> Tail(F.rest)])
    /\ Pure

MathReturns ==
    /\ In("VALUE") /\ OnTop("MATH") /\ MathError(ctl.value) = "NONE"
    /\ LET acc == MathValue(F.acc, F.op, ctl.value) IN
       IF F.rest = << >>
       THEN Go(Give(NumberNode(acc))) /\ Pop
       ELSE /\ Go(Reduce(Head(F.rest).node))
            /\ Replace([k |-> "MATH", acc |-> acc, op |-> Head(F.rest).op,
                        rest |-> Tail(F.rest)])
    /\ Pure

-----------------------------------------------------------------------------
(* ReduceNode of a function: first its arguments, then its forms.          *)

ReduceFunc ==
    /\ Reducing("FUNC")
    /\ IF N.args = << >>
       THEN Go(Apply(N.func, << >>)) /\ UNCHANGED calls
       ELSE /\ Go(Reduce(Head(N.args)))
            /\ Push([k |-> "ARGS", func |-> N.func, done |-> << >>,
                     rest |-> Tail(N.args)])
    /\ Pure

ArgsReturn ==
    /\ In("VALUE") /\ OnTop("ARGS")
    /\ LET done == Append(F.done, ctl.value) IN
       IF F.rest = << >>
       THEN Go(Apply(F.func, done)) /\ Pop
       ELSE /\ Go(Reduce(Head(F.rest)))
            /\ Replace([F EXCEPT !.done = done, !.rest = Tail(@)])
    /\ Pure

Arity == Len(ctl.args)
Arg(i) == ctl.args[i]

ApplyMismatch ==
    /\ In("APPLY") /\ ~WellTyped(ctl.func, ctl.args)
    /\ Go(Fail(IF FormsOfArity(ctl.func, Arity) = {} THEN "ARGC" ELSE "TYPE"))
    /\ Pure /\ UNCHANGED calls

Applying(f) == In("APPLY") /\ ctl.func = f /\ WellTyped(f, ctl.args)

ApplyPure ==
    /\ ctl.mode = "APPLY" /\ ctl.func \in PureFuncs /\ Applying(ctl.func)
    /\ Go(Give(PureValue(ctl.func, ctl.args))) /\ Pure /\ UNCHANGED calls

ApplyRow ==
    Applying("ROW") /\ Go(Give(NumberNode(Here[3]))) /\ Pure /\ UNCHANGED calls

(* Assert(Arity == 1), where the only form of col has no argument. *)
ApplyCol ==
    Applying("COL") /\ Stop

ApplyBodyCol ==
    /\ Applying("BODY_COL")
    /\ Go(Give(BodyCol(Shape[D], IF Arity = 0 THEN Here[2] ELSE ReadAsNumber(Arg(1)))))
    /\ Pure /\ UNCHANGED calls

(* cell/2 gives a reference that nothing reduces; cell/3 is a foreign one. *)
ApplyCell ==
    /\ Applying("CELL")
    /\ Go(IF Arity = 2 THEN Give(CellNode(ToS32(Arg(1).num), ToS32(Arg(2).num)))
          ELSE Reduce(XenoNode(Arg(1).str, ToS32(Arg(2).num), ToS32(Arg(3).num))))
    /\ Pure /\ UNCHANGED calls

ApplyAggregate ==
    /\ ctl.mode = "APPLY" /\ ctl.func \in Aggregates /\ Applying(ctl.func)
    /\ Push([k |-> "FOLD", func |-> ctl.func, acc |-> NoNumbers,
             args |-> ctl.args, todo |-> << >>])
    /\ Go(Plain("LOOP")) /\ Pure

ApplyMaskSum ==
    LET s == Shape[D] IN
    /\ Applying("MASK_SUM")
    /\ Push([k |-> "MASK", test |-> ToS32(Arg(1).num), proto |-> Arg(2),
             trgt |-> ToS32(Arg(3).num), row |-> s.firstBodyRow,
             last |-> IF s.firstFootRow < s.rows THEN s.firstFootRow ELSE s.rows,
             phase |-> "TEST", acc |-> 0])
    /\ Go(Plain("LOOP")) /\ Pure

-----------------------------------------------------------------------------
(* The loops over cells: the ranges of an aggregate function ...           *)

Turn(k) == In("LOOP") /\ OnTop(k)

FoldNumber ==
    /\ Turn("FOLD") /\ F.todo = << >> /\ F.args # << >> /\ Head(F.args).type = "NUMBER"
    /\ Replace([F EXCEPT !.acc = Accumulate(F.func, @, Head(F.args).num),
                         !.args = Tail(@)])
    /\ Go(ctl) /\ Pure

FoldRange ==
    /\ Turn("FOLD") /\ F.todo = << >> /\ F.args # << >> /\ Head(F.args).type = "RANGE"
    /\ Replace([F EXCEPT !.todo = RangeCells(Shape[D], Head(F.args)),
                         !.args = Tail(@)])
    /\ Go(ctl) /\ Pure

(* FoldCell slip: the loop reads its cell without EvaluateCell. *)
FoldReadsAsIs ==
    /\ Turn("FOLD") /\ F.todo # << >>
    /\ Go(Returned(TRUE)) /\ Pure /\ UNCHANGED calls

FoldCell ==
    /\ Turn("FOLD") /\ F.todo # << >>
    /\ Go(Evaluate(Awaited(Top))) /\ Pure /\ UNCHANGED calls

(* The error of EvaluateCell is ignored: a cell that is still an expression *)
(* is not a number.                                                         *)
FoldReturns ==
    LET c == cell[Awaited(Top)] IN
    /\ In("RETURNED") /\ OnTop("FOLD")
    /\ Replace([F EXCEPT !.acc = IF c.type = "NUMBER" THEN Accumulate(F.func, @, c.num)
                                 ELSE @,
                         !.todo = Tail(@)])
    /\ Go(Plain("LOOP")) /\ Pure

FoldEnds ==
    /\ Turn("FOLD") /\ F.todo = << >> /\ F.args = << >>
    /\ Go(Give(NumberNode(AggregateOf(F.func, F.acc)))) /\ Pop /\ Pure

(* ... and the body rows of mask_sum. *)
MaskCell ==
    /\ Turn("MASK") /\ F.row < F.last
    /\ Go(Evaluate(Awaited(Top))) /\ Pure /\ UNCHANGED calls

MaskTested ==
    /\ In("RETURNED") /\ OnTop("MASK") /\ F.phase = "TEST"
    /\ Replace(IF CellsEq(F.proto, cell[Awaited(Top)])
               THEN [F EXCEPT !.phase = "TARGET"] ELSE [F EXCEPT !.row = @ + 1])
    /\ Go(Plain("LOOP")) /\ Pure

MaskReturns ==
    LET c == cell[Awaited(Top)] IN
    /\ In("RETURNED") /\ OnTop("MASK") /\ F.phase = "TARGET"
    /\ Replace([F EXCEPT !.acc = IF c.type = "NUMBER" THEN Arith(@, "ADD", c.num) ELSE @,
                         !.phase = "TEST", !.row = @ + 1])
    /\ Go(Plain("LOOP")) /\ Pure

MaskEnds ==
    /\ Turn("MASK") /\ F.row >= F.last
    /\ Go(Give(NumberNode(F.acc))) /\ Pop /\ Pure

-----------------------------------------------------------------------------
MainStep ==
    MainSkips \/ MainOpens \/ ScanCell \/ MainPrints \/ Exit

CellStep ==
    \/ EvaluateMissing \/ EvaluateFinal \/ EvaluateCycle \/ EvaluateUnparsable
    \/ EvaluateEnter \/ EvaluateStore \/ ScanResumes

ReduceStep ==
    \/ IntoReturns \/ ReduceFinal \/ ReduceRange \/ ReduceBadRange \/ ReduceMacro
    \/ ReduceNoMacro \/ ReduceCell \/ ReduceBadCell \/ ReduceNoFile \/ ReduceXeno \/ ReduceBadXeno
    \/ ReduceTerm \/ NegateReturns \/ ReduceSum \/ MathFails \/ MathReturns

FuncStep ==
    \/ ReduceFunc \/ ArgsReturn \/ ApplyMismatch \/ ApplyPure \/ ApplyRow \/ ApplyCol
    \/ ApplyBodyCol \/ ApplyCell \/ ApplyAggregate \/ ApplyMaskSum

LoopStep ==
    \/ FoldNumber \/ FoldRange \/ FoldCell \/ FoldReturns \/ FoldEnds
    \/ MaskCell \/ MaskTested \/ MaskReturns \/ MaskEnds

Step == MainStep \/ CellStep \/ ReduceStep \/ FuncStep \/ LoopStep

(* The process has ended. *)
Ended == ctl.mode \in {"EXIT", "ABORT"}
Rest  == Ended /\ UNCHANGED vars

Next == Step \/ Rest

(* One thread that nothing blocks: it takes a step as long as there is one. *)
Spec == Init /\ [][Next]_vars /\ WF_vars(Step)

-----------------------------------------------------------------------------
(* Properties.                                                             *)

(* Every variable has its type: what ReduceNode returns is one of the five *)
(* types its caller can handle, what EvaluateCell stores is never a range  *)
(* or a reference, and every node the code dereferences is a node.         *)
TypeOK ==
    /\ files \in [Addr -> Cell]
    /\ cell \in [Addr -> Cell]
    /\ state \in [Addr -> {"STABLE", "EVALUATING"}]
    /\ loaded \subseteq Doc
    /\ args \in Seq(Doc \cup {NoDoc})
    /\ scan \in [doc : Doc \cup {NoDoc}, todo : Seq(Int \X Int)]
    /\ calls \in Seq(Call)
    /\ ctl \in Control

(* A cell is EVALUATING exactly while one EvaluateCell call has it open:   *)
(* no cell is entered twice, and the flag is cleared on every way out.     *)
(* All that time it is still the expression it was.                        *)
CallsInv ==
    /\ \A i, j \in 1..Len(calls) : calls[i].at = calls[j].at => i = j
    /\ \A a \in Addr :
          state[a] = "EVALUATING" <=> \E i \in 1..Len(calls) : calls[i].at = a
    /\ \A i \in 1..Len(calls) : cell[calls[i].at] = files[calls[i].at]
                              /\ cell[calls[i].at].type = "EXPR"

(* When EvaluateCell returns without an error, the cell its caller is about *)
(* to read is no longer an expression (SetAsNodeFrom has no case for one);  *)
(* when it returns ERROR_CYCLE, that cell is open further down the stack.   *)
(* Until then every caller waits for exactly the cell of the next call.     *)
ReadsFinal ==
    /\ \A i \in 1..(Len(calls) - 1) :
          Waiting(calls[i]) /\ calls[i + 1].at = Awaited(calls[i])
    /\ (In("EVALUATE") /\ calls # << >>) => (Waiting(Top) /\ ctl.at = Awaited(Top))
    /\ (In("RETURNED") /\ calls # << >>) =>
          /\ Waiting(Top) /\ Awaited(Top) \in Addr
          /\ IF ctl.ok THEN cell[Awaited(Top)].type # "EXPR"
             ELSE \E i \in 1..Len(calls) : calls[i].at = Awaited(Top)

(* A document of the output has no expression left in it, and what was     *)
(* printed of a cell stays true of it, whatever other documents evaluate   *)
(* later: printing a document again prints the same.                       *)
OutputFinal ==
    \A i \in 1..Len(output) : \A a \in DOMAIN output[i].cells :
        output[i].cells[a].type # "EXPR" /\ output[i].cells[a] = cell[a]

(* A document whose file nothing has asked for has no cells; one that has  *)
(* an open call or is scanned has been loaded, and what is still an        *)
(* expression in it is the expression of its file.                         *)
OnlyLoaded ==
    /\ \A a \in Addr :
          IF a[1] \notin loaded THEN cell[a] = NullCell
          ELSE cell[a].type = "EXPR" => cell[a] = files[a]
    /\ \A i \in 1..Len(calls) : calls[i].at[1] \in loaded
    /\ In("EVALUATE") => ctl.at[1] \in loaded
    /\ ~(In("MAIN") \/ In("EXIT")) => scan.doc \in loaded

(* No step takes back a cell that is final in a loaded document: a second  *)
(* reference to the file does not parse it again, and a cell is stored     *)
(* once, after which every reader sees the same value.                     *)
FinalStable ==
    [][\A a \in Addr : a[1] \in loaded /\ cell[a].type # "EXPR" => cell'[a] = cell[a]]_vars

(* No assertion of the evaluator stops the program. *)
NoAbort == ctl.mode # "ABORT"

(* The program ends, with a document printed for every argument that names *)
(* a file, unless an assertion stops it.                                   *)
Existing == SelectSeq(args, LAMBDA d : d # NoDoc)
EndsWithOutput ==
    \A n \in 0..3 : (In("MAIN") /\ Len(output) + Len(Existing) = n) ~>
        (ctl.mode = "ABORT" \/ (ctl.mode = "EXIT" /\ Len(output) = n))
=============================================================================
