--------------------------- MODULE DataflowProofs ---------------------------
(***************************************************************************)
(* The evaluator implements Dataflow: whatever the sheets hold,            *)
(* EvaluateCell stores only what the expression of the cell denotes.       *)
(*                                                                         *)
(* The invariant looks forward.  Every open call is about to come to an    *)
(* outcome of its expression, over whatever is seen of the cells that it   *)
(* has not asked for yet (DInv), and each step of ReduceNode keeps this.   *)
(* It is used twice.  Where pending cells are seen as needed, it says that *)
(* the cell of a call needs the cell of the next one, so that the open     *)
(* calls are circular references (AllLead).  Where circular cells are seen *)
(* as such, and final cells as they are, it says that what EvaluateCell    *)
(* stores is denoted (StoreDenotes).                                       *)
(***************************************************************************)
EXTENDS EvaluatorProofs, EvaluatorRefinement

-----------------------------------------------------------------------------
(* What an open call is about to denote.  do has an outcome for everything *)
(* that can be left to do, where see is what is seen of the cells; it may  *)
(* have more of them than there have to be.                                *)

Closed(see, do) ==
    \A a \in Addr, t \in Todo : Means(see, do, a, t) \subseteq do[<<a, t>>]

(* The outcomes of a call for the cell at a whose frame f gets v, and of   *)
(* one whose frame f waits for EvaluateCell or for its loop to go on.      *)
After(do, a, f, v) ==
    CASE v.type = "NEEDS" -> {v}
      [] v.type # "NEEDS" /\ f.k = "NEGATE" -> {NegationOf(v)}
      [] v.type # "NEEDS" /\ f.k = "MATH"   -> Operand(do, a, f.acc, f.op, v, f.rest)
      [] v.type # "NEEDS" /\ f.k = "ARGS"   -> Argument(do, a, f.func, f.done, v, f.rest)
      [] OTHER -> {}
Ahead(see, do, a, f) ==
    CASE f.k = "INTO" -> ReadInto(see, f.at)
      [] f.k = "FOLD" -> do[<<a, FoldOf(f.func, f.acc, f.args, f.todo)>>]
      [] f.k = "MASK" /\ f.phase = "TEST" ->
            do[<<a, MaskOf(f.test, f.proto, f.trgt, f.row, f.acc)>>]
      [] f.k = "MASK" /\ f.phase # "TEST" -> OfTarget(see, do, a, f)
      [] OTHER -> {}

(* The frames w lead from the outcomes X to outcomes of Y. *)
Steps(do, a, w, G) ==
    \A i \in 1..Len(w) : \A v \in G[i] : After(do, a, w[i], v) \subseteq G[i + 1]
Leads(do, a, w, X, Y) ==
    \E G : X \subseteq G[1] /\ G[Len(w) + 1] \subseteq Y /\ Steps(do, a, w, G)

(* Fewer outcomes lead there too. *)
LEMMA LeadsFewer ==
    ASSUME NEW do, NEW a, NEW w, NEW X, NEW Y, NEW Z, Z \subseteq X, Leads(do, a, w, X, Y)
    PROVE  Leads(do, a, w, Z, Y)
  <1>1. PICK G : X \subseteq G[1] /\ G[Len(w) + 1] \subseteq Y /\ Steps(do, a, w, G)
    BY DEF Leads
  <1>2. Z \subseteq G[1]
    BY <1>1
  <1> QED BY <1>1, <1>2 DEF Leads

(* No frame is left. *)
LEMMA LeadsNowhere ==
    ASSUME NEW do, NEW a, NEW X, NEW Y
    PROVE  Leads(do, a, << >>, X, Y) <=> X \subseteq Y
  <1>1. Len(<< >>) = 0
    OBVIOUS
  <1>2. ASSUME Leads(do, a, << >>, X, Y) PROVE X \subseteq Y
    <2>1. PICK G : X \subseteq G[1] /\ G[Len(<< >>) + 1] \subseteq Y
      BY <1>2 DEF Leads
    <2>2. G[Len(<< >>) + 1] = G[1]
      BY <1>1
    <2> QED BY <2>1, <2>2
  <1>3. ASSUME X \subseteq Y PROVE Leads(do, a, << >>, X, Y)
    <2> DEFINE G == [i \in {1} |-> X]
    <2>1. X \subseteq G[1] /\ G[Len(<< >>) + 1] \subseteq Y
      BY <1>1, <1>3
    <2> HIDE DEF G
    <2>2. Steps(do, a, << >>, G)
      BY <1>1 DEF Steps
    <2> QED BY <2>1, <2>2 DEF Leads
  <1> QED BY <1>2, <1>3

(* A frame is opened. *)
LEMMA LeadsFrom ==
    ASSUME NEW do, NEW a, NEW f \in Frame, NEW w \in Seq(Frame), NEW X, NEW Y, NEW Z,
           \A v \in Z : After(do, a, f, v) \subseteq X,
           Leads(do, a, w, X, Y)
    PROVE  Leads(do, a, <<f>> \o w, Z, Y)
  <1> DEFINE s == <<f>> \o w
  <1>1. PICK G : X \subseteq G[1] /\ G[Len(w) + 1] \subseteq Y /\ Steps(do, a, w, G)
    BY DEF Leads
  <1> DEFINE H == [i \in 1..(Len(s) + 1) |-> IF i = 1 THEN Z ELSE G[i - 1]]
  <1>2. Len(w) \in Nat /\ Len(s) = Len(w) + 1 /\ s[1] = f
        /\ \A j \in 1..Len(w) : s[j + 1] = w[j]
    <2>1. <<f>> \in Seq(Frame) /\ Len(<<f>>) = 1 /\ Len(w) \in Nat
      BY LenProperties
    <2> QED BY <2>1, ConcatProperties
  <1> HIDE DEF s
  <1>3. H[1] = Z /\ \A j \in 1..(Len(w) + 1) : H[j + 1] = G[j]
    <2>1. 1 \in 1..(Len(s) + 1)
      BY <1>2
    <2>2. ASSUME NEW j \in 1..(Len(w) + 1) PROVE H[j + 1] = G[j]
      <3>1. j + 1 \in 1..(Len(s) + 1) /\ j + 1 # 1 /\ (j + 1) - 1 = j
        BY <1>2
      <3> QED BY <3>1
    <2> QED BY <2>1, <2>2
  <1> HIDE DEF H
  <1>4. Steps(do, a, s, H)
    <2> SUFFICES ASSUME NEW i \in 1..Len(s), NEW v \in H[i]
                 PROVE  After(do, a, s[i], v) \subseteq H[i + 1]
      BY DEF Steps
    <2>1. CASE i = 1
      <3>1. s[i] = f /\ H[i] = Z
        BY <1>2, <1>3, <2>1
      <3>2. H[i + 1] = G[1]
        BY <1>2, <1>3, <2>1
      <3> QED BY <1>1, <3>1, <3>2
    <2>2. CASE i # 1
      <3> DEFINE j == i - 1
      <3>1. j \in 1..Len(w) /\ i = j + 1 /\ j \in 1..(Len(w) + 1) /\ j + 1 \in 1..(Len(w) + 1)
        BY <1>2, <2>2
      <3> HIDE DEF j
      <3>2. s[i] = w[j] /\ H[i] = G[j] /\ H[i + 1] = G[j + 1]
        BY <1>2, <1>3, <3>1
      <3> QED BY <1>1, <3>1, <3>2 DEF Steps
    <2> QED BY <2>1, <2>2
  <1>5. H[Len(s) + 1] \subseteq Y
    <2>1. Len(w) + 1 \in 1..(Len(w) + 1)
      BY <1>2
    <2> QED BY <1>1, <1>2, <1>3, <2>1
  <1>6. Leads(do, a, s, Z, Y)
    BY <1>3, <1>4, <1>5 DEF Leads
  <1> QED BY <1>6 DEF s

(* A frame gets an outcome. *)
LEMMA LeadsOn ==
    ASSUME NEW do, NEW a, NEW w \in Seq(Frame), w # << >>, NEW X, NEW Y, NEW v \in X,
           Leads(do, a, w, X, Y)
    PROVE  Leads(do, a, Tail(w), After(do, a, Head(w), v), Y)
  <1>1. PICK G : X \subseteq G[1] /\ G[Len(w) + 1] \subseteq Y /\ Steps(do, a, w, G)
    BY DEF Leads
  <1> DEFINE s == Tail(w)
             H == [i \in 1..Len(w) |-> G[i + 1]]
  <1>2. /\ Len(w) \in Nat /\ Len(w) >= 1 /\ Head(w) = w[1] /\ Len(s) = Len(w) - 1
        /\ \A i \in 1..Len(s) : s[i] = w[i + 1]
    BY HeadTailProperties, LenProperties, EmptySeq
  <1> HIDE DEF s
  <1>3. \A i \in 1..Len(w) : H[i] = G[i + 1]
    OBVIOUS
  <1> HIDE DEF H
  <1>4. After(do, a, Head(w), v) \subseteq H[1]
    <2>1. 1 \in 1..Len(w) /\ v \in G[1]
      BY <1>1, <1>2
    <2> QED BY <1>1, <1>2, <1>3, <2>1 DEF Steps
  <1>5. H[Len(s) + 1] \subseteq Y
    <2>1. Len(s) + 1 = Len(w) /\ Len(w) \in 1..Len(w)
      BY <1>2
    <2> QED BY <1>1, <1>3, <2>1
  <1>6. Steps(do, a, s, H)
    <2> SUFFICES ASSUME NEW i \in 1..Len(s), NEW u \in H[i]
                 PROVE  After(do, a, s[i], u) \subseteq H[i + 1]
      BY DEF Steps
    <2>1. i + 1 \in 1..Len(w) /\ i \in 1..Len(w)
      BY <1>2
    <2>2. s[i] = w[i + 1] /\ H[i] = G[i + 1] /\ H[i + 1] = G[(i + 1) + 1]
      BY <1>2, <1>3, <2>1
    <2> QED BY <1>1, <2>1, <2>2 DEF Steps
  <1>7. Leads(do, a, s, After(do, a, Head(w), v), Y)
    BY <1>4, <1>5, <1>6 DEF Leads
  <1> QED BY <1>7 DEF s

(* What a call needs, its frames hand on. *)
LEMMA LeadsToNeeds ==
    ASSUME NEW do, NEW a, NEW w \in Seq(Frame), NEW X, NEW Y, NEW b, Needs(b) \in X,
           Leads(do, a, w, X, Y)
    PROVE  Needs(b) \in Y
  <1>1. PICK G : X \subseteq G[1] /\ G[Len(w) + 1] \subseteq Y /\ Steps(do, a, w, G)
    BY DEF Leads
  <1> DEFINE Lost == {i \in 1..(Len(w) + 1) : Needs(b) \notin G[i]}
  <1>2. Len(w) \in Nat
    BY LenProperties
  <1>3. Lost = {}
    <2> SUFFICES ASSUME Lost # {} PROVE FALSE
      OBVIOUS
    <2>1. Lost \in SUBSET Nat
      BY <1>2
    <2>2. PICK m \in Lost : \A n \in Lost : m <= n
      BY <2>1, LeastNumber
    <2>3. m # 1
      BY <1>1
    <2> DEFINE j == m - 1
    <2>4. j \in 1..Len(w) /\ j \in 1..(Len(w) + 1) /\ j + 1 = m /\ ~(m <= j)
      BY <1>2, <2>3
    <2> HIDE DEF j
    <2>5. Needs(b) \in G[j]
      BY <2>2, <2>4
    <2>6. After(do, a, w[j], Needs(b)) = {Needs(b)}
      BY DEF After, Needs
    <2>7. Needs(b) \in G[m]
      BY <1>1, <2>4, <2>5, <2>6 DEF Steps
    <2> QED BY <2>2, <2>7
  <1>4. Len(w) + 1 \in 1..(Len(w) + 1)
    BY <1>2
  <1> QED BY <1>1, <1>3, <1>4
(* The tail of a sequence with a new head. *)
LEMMA ConsTail ==
    ASSUME NEW x, NEW S, NEW s \in Seq(S)
    PROVE  Tail(<<x>> \o s) = s
  OBVIOUS

(* What the program does next is in the middle of an expression, or waits. *)
Busy(c) == c.mode \in {"REDUCE", "VALUE", "APPLY"}
Ends(see, do, a, w, c) ==
    CASE c.mode = "REDUCE" -> do[<<a, Of(c.node)>>]
      [] c.mode = "VALUE"  -> {c.value}
      [] c.mode = "APPLY"  -> do[<<a, FuncOf(c.func, c.args, << >>)>>]
      [] ~Busy(c)          -> Ahead(see, do, a, Head(w))
Left(w, c) == IF Busy(c) THEN w ELSE Tail(w)

(* The rows that mask_sum has before it. *)
MaskBounds(a, f, c) ==
    f.k = "MASK" =>
        /\ f.last = LastMasked(a[1])
        /\ c.mode # "LOOP" \/ f.phase # "TEST" => f.row < f.last

(* What a call for the cell at a that has the frames w and goes on with c  *)
(* can come to is an outcome of the expression of the cell.                *)
Pursues(see, do, a, w, c) ==
    /\ ~Busy(c) => w # << >> /\ MaskBounds(a, Head(w), c)
    /\ Leads(do, a, Left(w, c), Ends(see, do, a, w, c), do[<<a, Of(files[a].expr)>>])

(* What is seen of the cells by the n-th call at the latest: final cells   *)
(* are what they are, the cells of the calls up to this one are circular.  *)
Sees(n, see) ==
    /\ \A b \in Addr : b[1] \in loaded /\ cell[b].type # "EXPR" => cell[b] \in see[b]
    /\ \A i \in 1..n : Circular \in see[calls[i].at]

(* A call waits for the cell of the next one. *)
NextOf(i) == IF i = Len(calls) THEN ctl ELSE Plain("EVALUATE")

(* Every open call is going to store what its expression denotes, whatever *)
(* is seen of the cells that it has not asked for yet.                     *)
DInv ==
    ctl.mode # "ABORT" =>
        \A i \in 1..Len(calls) : \A see, do :
            Sees(i, see) /\ Closed(see, do) =>
                Pursues(see, do, calls[i].at, calls[i].work, NextOf(i))

(* EvaluateCell has returned from a cell of a loaded document. *)
ReturnedInv == In("RETURNED") /\ calls # << >> => Awaited(Top)[1] \in loaded

(* The call goes on with the same frames. *)
LEMMA PursuesOn ==
    ASSUME NEW see, NEW do, NEW a, NEW w, NEW c, NEW d, Busy(c), Busy(d),
           Pursues(see, do, a, w, c), Ends(see, do, a, w, d) \subseteq Ends(see, do, a, w, c)
    PROVE  Pursues(see, do, a, w, d)
  BY LeadsFewer DEF Pursues, Left

(* It opens a frame that gets a value, and one that waits. *)
LEMMA PursuesPush ==
    ASSUME NEW see, NEW do, NEW a, NEW w \in Seq(Frame), NEW c, NEW d, NEW f \in Frame,
           Busy(c), Pursues(see, do, a, w, c),
           \/ /\ Busy(d)
              /\ \A v \in Ends(see, do, a, <<f>> \o w, d) :
                    After(do, a, f, v) \subseteq Ends(see, do, a, w, c)
           \/ /\ ~Busy(d) /\ MaskBounds(a, f, d)
              /\ Ahead(see, do, a, f) \subseteq Ends(see, do, a, w, c)
    PROVE  Pursues(see, do, a, <<f>> \o w, d)
  <1> DEFINE Y == do[<<a, Of(files[a].expr)>>]
             s == <<f>> \o w
  <1>1. Leads(do, a, w, Ends(see, do, a, w, c), Y)
    BY DEF Pursues, Left
  <1>2. s # << >> /\ Head(s) = f /\ Tail(s) = w
    BY Cons, ConsTail
  <1> HIDE DEF Y
  <1>3. CASE Busy(d)
    <2>1. Leads(do, a, s, Ends(see, do, a, s, d), Y)
      BY <1>1, <1>3, LeadsFrom
    <2> HIDE DEF s
    <2> QED BY <1>3, <2>1 DEF Pursues, Left, Y, s
  <1>4. CASE ~Busy(d)
    <2> HIDE DEF s
    <2>1. Ends(see, do, a, s, d) = Ahead(see, do, a, f)
      BY <1>2, <1>4 DEF Ends, Busy
    <2>2. Leads(do, a, w, Ends(see, do, a, s, d), Y)
      BY <1>1, <1>4, <2>1, LeadsFewer
    <2> QED BY <1>2, <1>4, <2>2 DEF Pursues, Left, Y, s
  <1> QED BY <1>3, <1>4

(* Its frame gets a value, or has waited; it is closed or changed. *)
Answered(see, do, a, w, c) ==
    IF Busy(c) THEN After(do, a, Head(w), c.value) ELSE Ahead(see, do, a, Head(w))
LEMMA PursuesAnswer ==
    ASSUME NEW see, NEW do, NEW a, NEW w \in Seq(Frame), w # << >>, NEW c,
           c.mode = "VALUE" \/ ~Busy(c), Pursues(see, do, a, w, c)
    PROVE  Leads(do, a, Tail(w), Answered(see, do, a, w, c), do[<<a, Of(files[a].expr)>>])
  <1> DEFINE Y == do[<<a, Of(files[a].expr)>>]
  <1>1. Leads(do, a, Left(w, c), Ends(see, do, a, w, c), Y)
    BY DEF Pursues
  <1> HIDE DEF Y
  <1>2. CASE c.mode = "VALUE"
    <2>1. Busy(c) /\ Ends(see, do, a, w, c) = {c.value} /\ Left(w, c) = w
      BY <1>2 DEF Busy, Ends, Left
    <2>2. Leads(do, a, Tail(w), After(do, a, Head(w), c.value), Y)
      BY <1>1, <2>1, LeadsOn
    <2> QED BY <2>1, <2>2 DEF Answered, Y
  <1>3. CASE ~Busy(c)
    <2>1. Ends(see, do, a, w, c) = Ahead(see, do, a, Head(w)) /\ Left(w, c) = Tail(w)
      BY <1>3 DEF Busy, Ends, Left
    <2> QED BY <1>1, <1>3, <2>1 DEF Answered, Y
  <1> QED BY <1>2, <1>3
LEMMA PursuesPop ==
    ASSUME NEW see, NEW do, NEW a, NEW w \in Seq(Frame), w # << >>, NEW c, NEW d,
           c.mode = "VALUE" \/ ~Busy(c), Pursues(see, do, a, w, c), Busy(d),
           Ends(see, do, a, Tail(w), d) \subseteq Answered(see, do, a, w, c)
    PROVE  Pursues(see, do, a, Tail(w), d)
  <1>1. Leads(do, a, Tail(w), Ends(see, do, a, Tail(w), d), do[<<a, Of(files[a].expr)>>])
    BY PursuesAnswer, LeadsFewer
  <1> QED BY <1>1 DEF Pursues, Left
LEMMA PursuesReplace ==
    ASSUME NEW see, NEW do, NEW a, NEW w \in Seq(Frame), w # << >>, NEW c, NEW d,
           NEW f \in Frame, c.mode = "VALUE" \/ ~Busy(c), Pursues(see, do, a, w, c),
           \/ /\ Busy(d)
              /\ \A v \in Ends(see, do, a, <<f>> \o Tail(w), d) :
                    After(do, a, f, v) \subseteq Answered(see, do, a, w, c)
           \/ /\ ~Busy(d) /\ MaskBounds(a, f, d)
              /\ Ahead(see, do, a, f) \subseteq Answered(see, do, a, w, c)
    PROVE  Pursues(see, do, a, <<f>> \o Tail(w), d)
  <1> DEFINE Y == do[<<a, Of(files[a].expr)>>]
             t == Tail(w)
             s == <<f>> \o t
  <1>1. Leads(do, a, t, Answered(see, do, a, w, c), Y)
    BY PursuesAnswer
  <1>2. t \in Seq(Frame)
    BY HeadTail
  <1>3. s # << >> /\ Head(s) = f /\ Tail(s) = t
    BY <1>2, Cons, ConsTail
  <1> HIDE DEF Y, t
  <1>4. CASE Busy(d)
    <2>1. Leads(do, a, s, Ends(see, do, a, s, d), Y)
      BY <1>1, <1>2, <1>4, LeadsFrom DEF t
    <2> HIDE DEF s
    <2> QED BY <1>4, <2>1 DEF Pursues, Left, Y, s, t
  <1>5. CASE ~Busy(d)
    <2> HIDE DEF s
    <2>1. Ends(see, do, a, s, d) = Ahead(see, do, a, f)
      BY <1>3, <1>5 DEF Ends, Busy
    <2>2. Leads(do, a, t, Ends(see, do, a, s, d), Y)
      BY <1>1, <1>5, <2>1, LeadsFewer
    <2> QED BY <1>3, <1>5, <2>2 DEF Pursues, Left, Y, s, t
  <1> QED BY <1>4, <1>5

(* What comes next, by what ctl becomes. *)
LEMMA EndsReduce ==
    ASSUME NEW see, NEW do, NEW a, NEW w, NEW n, NEW c, c = Reduce(n)
    PROVE  Busy(c) /\ Ends(see, do, a, w, c) = do[<<a, Of(n)>>]
  BY DEF Busy, Ends, Reduce
LEMMA EndsGive ==
    ASSUME NEW see, NEW do, NEW a, NEW w, NEW v, NEW c, c = Give(v)
    PROVE  Busy(c) /\ Ends(see, do, a, w, c) = {v}
  BY DEF Busy, Ends, Give
LEMMA EndsFail ==
    ASSUME NEW see, NEW do, NEW a, NEW w, NEW e, NEW c, c = Fail(e)
    PROVE  Busy(c) /\ Ends(see, do, a, w, c) = {ErrorNode(e)}
  BY EndsGive DEF Fail
LEMMA EndsApply ==
    ASSUME NEW see, NEW do, NEW a, NEW w, NEW f, NEW as, NEW c, c = Apply(f, as)
    PROVE  Busy(c) /\ Ends(see, do, a, w, c) = do[<<a, FuncOf(f, as, << >>)>>]
  BY DEF Busy, Ends, Apply
LEMMA EndsLater ==
    ASSUME NEW c, \/ c = Plain("LOOP") \/ c = Plain("EVALUATE")
                  \/ (\E p : c = Evaluate(p)) \/ (\E ok : c = Returned(ok))
    PROVE  ~Busy(c)
  BY DEF Busy, Plain, Evaluate, Returned

-----------------------------------------------------------------------------
(* do has the outcomes of everything that can be left to do. *)

LEMMA TodoTypes ==
    /\ \A n \in Node \cup XenoNodes : Of(n) \in Todo
    /\ \A acc \in Num, rest \in Seq([op : MathOp, node : Node]) : SumOf(acc, rest) \in Todo
    /\ \A f \in Func, done \in Seq(Value), rest \in Seq(Node) : FuncOf(f, done, rest) \in Todo
    /\ \A f \in Aggregates, acc \in AccType, as \in Seq(NumberNodes \cup RangeNodes),
          s \in Seq(Int \X Int) : FoldOf(f, acc, as, s) \in Todo
    /\ \A test, trgt, row \in Int, proto \in NumberNodes \cup StringNodes, acc \in Num :
          MaskOf(test, proto, trgt, row, acc) \in Todo
  BY DEF Todo, Of, SumOf, FuncOf, FoldOf, MaskOf, AccType

LEMMA NodeMeans ==
    ASSUME NEW see, NEW do, Closed(see, do), NEW a \in Addr, NEW n \in Node \cup XenoNodes
    PROVE  OfNode(see, do, a, n) \subseteq do[<<a, Of(n)>>]
  <1>1. Means(see, do, a, Of(n)) = OfNode(see, do, a, n)
    BY DEF Means, Of
  <1> QED BY <1>1, TodoTypes DEF Closed
LEMMA SumMeans ==
    ASSUME NEW see, NEW do, Closed(see, do), NEW a \in Addr, NEW acc \in Num,
           NEW rest \in Seq([op : MathOp, node : Node])
    PROVE  OfSum(do, a, SumOf(acc, rest)) \subseteq do[<<a, SumOf(acc, rest)>>]
  <1>1. Means(see, do, a, SumOf(acc, rest)) = OfSum(do, a, SumOf(acc, rest))
    BY DEF Means, SumOf
  <1> QED BY <1>1, TodoTypes DEF Closed
LEMMA FuncMeans ==
    ASSUME NEW see, NEW do, Closed(see, do), NEW a \in Addr, NEW f \in Func,
           NEW done \in Seq(Value), NEW rest \in Seq(Node)
    PROVE  OfFunc(do, a, FuncOf(f, done, rest)) \subseteq do[<<a, FuncOf(f, done, rest)>>]
  <1>1. Means(see, do, a, FuncOf(f, done, rest)) = OfFunc(do, a, FuncOf(f, done, rest))
    BY DEF Means, FuncOf
  <1> QED BY <1>1, TodoTypes DEF Closed
LEMMA FoldMeans ==
    ASSUME NEW see, NEW do, Closed(see, do), NEW a \in Addr, NEW f \in FoldFrame
    PROVE  LET t == FoldOf(f.func, f.acc, f.args, f.todo)
           IN  OfFold(see, do, a, t) \subseteq do[<<a, t>>]
  <1> DEFINE t == FoldOf(f.func, f.acc, f.args, f.todo)
  <1>1. Means(see, do, a, t) = OfFold(see, do, a, t)
    BY DEF Means, FoldOf
  <1>2. t \in Todo
    BY DEF FoldFrame, Todo, FoldOf
  <1> QED BY <1>1, <1>2 DEF Closed
LEMMA MaskMeans ==
    ASSUME NEW see, NEW do, Closed(see, do), NEW a \in Addr, NEW f \in MaskFrame
    PROVE  LET t == MaskOf(f.test, f.proto, f.trgt, f.row, f.acc)
           IN  OfMask(see, do, a, t) \subseteq do[<<a, t>>]
  <1> DEFINE t == MaskOf(f.test, f.proto, f.trgt, f.row, f.acc)
  <1>1. Means(see, do, a, t) = OfMask(see, do, a, t)
    BY DEF Means, MaskOf
  <1>2. t \in Todo
    BY DEF MaskFrame, Todo, MaskOf
  <1> QED BY <1>1, <1>2 DEF Closed

-----------------------------------------------------------------------------
(* ReduceNode goes on to what its node denotes.                            *)

(* The steps that give a value, an error or the body of a macro at once. *)
LEMMA PursuesAtOnce ==
    ASSUME IInv, NEW see, NEW do, Closed(see, do), Pursues(see, do, Here, Work, ctl),
           ReduceFinal \/ ReduceRange \/ ReduceMacro \/ ReduceNoMacro \/ ReduceNoFile
    PROVE  Pursues(see, do, Here, Work', ctl')
  <1> DEFINE X == do[<<Here, Of(N)>>]
  <1>1. ctl.mode = "REDUCE" /\ UNCHANGED calls
    BY DEF ReduceFinal, ReduceRange, ReduceMacro, ReduceNoMacro, ReduceNoFile, Reducing, In
  <1>2. calls # << >> /\ Here \in Addr /\ D \in Doc /\ D = Here[1] /\ N \in Node \cup XenoNodes
    BY <1>1, InExpression
  <1>3. Work' = Work
    BY <1>1 DEF Work, Top
  <1>4. Busy(ctl) /\ Ends(see, do, Here, Work, ctl) = X
    BY <1>1 DEF Busy, Ends, N
  <1>5. OfNode(see, do, Here, N) \subseteq X
    BY <1>2, NodeMeans
  <1> HIDE DEF X
  <1> SUFFICES Busy(ctl') /\ Ends(see, do, Here, Work, ctl') \subseteq X
    BY <1>3, <1>4, PursuesOn
  <1>6. CASE ReduceFinal
    <2>1. ctl' = Give(N) /\ N.type \in {"NUMBER", "STRING"}
      BY <1>6 DEF ReduceFinal, Go, N
    <2>2. OfNode(see, do, Here, N) = {N}
      BY <2>1 DEF OfNode
    <2>3. Busy(ctl') /\ Ends(see, do, Here, Work, ctl') = {N}
      BY ONLY <2>1, EndsGive
    <2> QED BY <1>5, <2>2, <2>3
  <1>7. CASE ReduceRange
    <2>1. ctl' = Give(CanonicalRange(Shape[D], N, Here)) /\ N.type = "RANGE" /\ RangeOK(N, Here)
      BY <1>7 DEF ReduceRange, Reducing, Go, N
    <2>2. OfNode(see, do, Here, N) = {CanonicalRange(Shape[D], N, Here)}
      BY <1>2, <2>1 DEF OfNode
    <2>3. Busy(ctl') /\ Ends(see, do, Here, Work, ctl') = {CanonicalRange(Shape[D], N, Here)}
      BY ONLY <2>1, EndsGive
    <2> QED BY <1>5, <2>2, <2>3
  <1>8. CASE ReduceMacro
    <2>1. N.type = "MACRO"
      BY <1>8 DEF ReduceMacro, Reducing, N
    <2>2. PICK m \in MacroBodies(D, N.name) : ctl' = Reduce(m)
      BY <1>8 DEF ReduceMacro, Go
    <2>3. OfNode(see, do, Here, N) = UNION {do[<<Here, Of(k)>>] : k \in MacroBodies(D, N.name)}
      BY <1>2, <2>1, <2>2 DEF OfNode
    <2>4. Busy(ctl') /\ Ends(see, do, Here, Work, ctl') = do[<<Here, Of(m)>>]
      BY ONLY <2>2, EndsReduce
    <2> QED BY <1>5, <2>3, <2>4
  <1>9. CASE ReduceNoMacro
    <2>1. ctl' = Fail("IMPL") /\ N.type = "MACRO" /\ MacroBodies(D, N.name) = {}
      BY <1>9 DEF ReduceNoMacro, Reducing, Go, N
    <2>2. OfNode(see, do, Here, N) = {ErrorNode("IMPL")}
      BY <1>2, <2>1 DEF OfNode
    <2> QED BY <1>5, <2>1, <2>2, EndsFail
  <1>10. CASE ReduceNoFile
    <2>1. ctl' = Fail("FILE") /\ N.type = "XENO" /\ Resolve(D, N.file) = NoDoc
      BY <1>10 DEF ReduceNoFile, Reducing, Go, N
    <2>2. OfNode(see, do, Here, N) = {ErrorNode("FILE")}
      BY <1>2, <2>1 DEF OfNode
    <2> QED BY <1>5, <2>1, <2>2, EndsFail
  <1> QED BY <1>6, <1>7, <1>8, <1>9, <1>10

(* EvaluateIntoNode asks for its cell, or gives an error. *)
LEMMA PursuesInto ==
    ASSUME IInv, ctl.mode = "REDUCE", NEW see, NEW do, Pursues(see, do, Here, Work, ctl),
           NEW p, Into(p), ReadInto(see, p) \subseteq do[<<Here, Of(N)>>]
    PROVE  Pursues(see, do, Here, Work', ctl')
  <1>1. calls # << >> /\ Work \in Seq(Frame) /\ calls \in Seq(Call)
    BY InExpression, Facts
  <1>2. Busy(ctl) /\ Ends(see, do, Here, Work, ctl) = do[<<Here, Of(N)>>]
    BY DEF Busy, Ends, N
  <1>3. CASE CellExists(p)
    <2> DEFINE f == [k |-> "INTO", at |-> p]
    <2>1. Push(f) /\ f \in Frame /\ f.k = "INTO" /\ f.at = p /\ p \in Addr
      BY <1>3 DEF Into, CellExists, Frame, IntoFrame
    <2>2. ctl' = Evaluate(p)
      <3>1. p[2] >= 0 /\ p[3] >= 0
        BY <2>1, AddrType
      <3> QED BY <1>3, <3>1, <2>1, AddrType DEF Into, Go
    <2> HIDE DEF f
    <2>3. Work' = <<f>> \o Work
      BY <1>1, <2>1, WorkAfter
    <2>4. MaskBounds(Here, f, ctl') /\ Ahead(see, do, Here, f) = ReadInto(see, p)
      BY <2>1 DEF MaskBounds, Ahead
    <2> QED BY <1>1, <1>2, <2>1, <2>2, <2>3, <2>4, EndsLater, PursuesPush
  <1>4. CASE ~CellExists(p)
    <2>1. Work' = Work
      BY <1>4 DEF Into, Work, Top
    <2>2. \E e : ctl' = Fail(e) /\ ReadInto(see, p) = {ErrorNode(e)}
      BY <1>4 DEF Into, Go, ReadInto, CellExists
    <2> QED BY <1>2, <2>1, <2>2, EndsFail, PursuesOn
  <1> QED BY <1>3, <1>4

(* A plain reference and a foreign one. *)
LEMMA PursuesReads ==
    ASSUME IInv, NEW see, NEW do, Closed(see, do), Pursues(see, do, Here, Work, ctl),
           ReduceCell \/ ReduceXeno
    PROVE  Pursues(see, do, Here, Work', ctl')
  <1>1. ctl.mode = "REDUCE"
    BY DEF ReduceCell, ReduceXeno, Reducing, In
  <1>2. Here \in Addr /\ D = Here[1] /\ N \in Node \cup XenoNodes
    BY <1>1, InExpression
  <1>3. OfNode(see, do, Here, N) \subseteq do[<<Here, Of(N)>>]
    BY <1>2, NodeMeans
  <1>4. CASE ReduceCell
    <2>1. N.type = "CELL" /\ RefOK(N, Here) /\ Into(Target(D, N, Here))
      BY <1>4 DEF ReduceCell, Reducing, N
    <2>2. OfNode(see, do, Here, N) = ReadInto(see, Target(D, N, Here))
      BY <1>2, <2>1 DEF OfNode
    <2> QED BY <1>1, <1>3, <2>1, <2>2, PursuesInto
  <1>5. CASE ReduceXeno
    <2>1. /\ N.type = "XENO" /\ RefOK(N, Here) /\ Resolve(D, N.file) # NoDoc
          /\ Into(Target(Resolve(D, N.file), N, Here))
      BY <1>5 DEF ReduceXeno, Reducing, N
    <2>2. OfNode(see, do, Here, N) = ReadInto(see, Target(Resolve(D, N.file), N, Here))
      BY <1>2, <2>1 DEF OfNode
    <2> QED BY <1>1, <1>3, <2>1, <2>2, PursuesInto
  <1> QED BY <1>4, <1>5

(* What a frame makes of an outcome. *)
LEMMA AfterIs ==
    ASSUME NEW do, NEW a, NEW f, NEW v
    PROVE  /\ f.k = "NEGATE" => After(do, a, f, v) = {NegationOf(v)}
           /\ f.k = "MATH" => After(do, a, f, v) = Operand(do, a, f.acc, f.op, v, f.rest)
           /\ f.k = "ARGS" => After(do, a, f, v) = Argument(do, a, f.func, f.done, v, f.rest)
  BY DEF After, NegationOf, Operand, Argument

(* A value is not a need. *)
LEMMA ValuesNeedNothing ==
    ASSUME NEW v \in Value PROVE v.type # "NEEDS"
  BY ValueFields

(* A reference reads its cell when EvaluateCell has returned. *)
LEMMA PursuesRead ==
    ASSUME IInv, ReturnedInv, NEW see, NEW do, Closed(see, do), Sees(Len(calls), see),
           Pursues(see, do, Here, Work, ctl), IntoReturns
    PROVE  Pursues(see, do, Here, Work', ctl')
  <1> DEFINE p == Awaited(Top)
  <1>1. ctl.mode = "RETURNED" /\ calls # << >> /\ Work # << >> /\ F.k = "INTO" /\ Pop
    BY DEF IntoReturns, In, OnTop, F
  <1>2. calls \in Seq(Call) /\ Work \in Seq(Frame)
    BY <1>1, Facts, TopType
  <1>3. p = F.at /\ p \in Addr /\ p[1] \in loaded
    BY <1>1, ReturnedCell DEF Awaited, F, Work, In, ReturnedInv
  <1>4. ~Busy(ctl) /\ Work' = Tail(Work)
    BY <1>1, <1>2, WorkAfter DEF Busy
  <1>5. Answered(see, do, Here, Work, ctl) = ReadInto(see, F.at)
    BY <1>1, <1>4 DEF Answered, Ahead, F
  <1>6. ReadInto(see, F.at) = {Read(c) : c \in see[p]}
    BY <1>3, AddrType DEF ReadInto
  <1> HIDE DEF p
  <1> SUFFICES \E v : ctl' = Give(v) /\ v \in {Read(c) : c \in see[p]}
    BY <1>1, <1>2, <1>4, <1>5, <1>6, EndsGive, PursuesPop
  <1>7. CASE ctl.ok
    <2>1. ctl' = Give(SetAsNodeFrom(cell[p]))
      BY <1>7 DEF IntoReturns, Go, p
    <2>2. cell[p] \in FinalCell
      BY <1>1, <1>7, ReturnedCell DEF p, In
    <2>3. cell[p] \in see[p]
      <3>1. cell[p].type # "EXPR"
        BY <2>2 DEF FinalCell, NullCell, NumberNodes, StringNodes, ErrorNodes
      <3> QED BY <1>3, <3>1 DEF Sees
    <2>4. Read(cell[p]) = SetAsNodeFrom(cell[p])
      BY <2>2 DEF Read, FinalCell, NullCell, NumberNodes, StringNodes, ErrorNodes
    <2> QED BY <2>1, <2>3, <2>4
  <1>8. CASE ~ctl.ok
    <2>1. ctl' = Give(ErrorNode("SUB"))
      BY <1>8 DEF IntoReturns, Go, Fail
    <2>2. PICK i \in 1..Len(calls) : calls[i].at = p
      BY <1>1, <1>8, Facts DEF ReadsFinal, In, p
    <2>3. Circular \in see[p]
      BY <2>2 DEF Sees
    <2>4. Read(Circular) = ErrorNode("SUB")
      BY DEF Read, Circular
    <2> QED BY <2>1, <2>3, <2>4
  <1> QED BY <1>7, <1>8

(* A negation. *)
LEMMA PursuesTerm ==
    ASSUME IInv, NEW see, NEW do, Closed(see, do), Pursues(see, do, Here, Work, ctl),
           ReduceTerm \/ NegateReturns
    PROVE  Pursues(see, do, Here, Work', ctl')
  <1>1. CASE ReduceTerm
    <2> DEFINE f == [k |-> "NEGATE"]
    <2>1. ctl.mode = "REDUCE" /\ N.type = "TERM" /\ Push(f) /\ ctl' = Reduce(N.child)
      BY <1>1 DEF ReduceTerm, Reducing, In, N, Go
    <2>2. f \in Frame /\ f.k = "NEGATE"
      BY DEF Frame, NegateFrame
    <2> HIDE DEF f
    <2>3. /\ calls # << >> /\ calls \in Seq(Call) /\ Here \in Addr /\ Work \in Seq(Frame)
          /\ N \in Node \cup XenoNodes
      BY <2>1, InExpression, Facts
    <2>4. Work' = <<f>> \o Work
      BY <2>1, <2>2, <2>3, WorkAfter
    <2>5. Busy(ctl) /\ Ends(see, do, Here, Work, ctl) = do[<<Here, Of(N)>>]
      BY <2>1 DEF Busy, Ends, N
    <2>6. Busy(ctl') /\ Ends(see, do, Here, <<f>> \o Work, ctl') = do[<<Here, Of(N.child)>>]
      BY ONLY <2>1, EndsReduce
    <2>7. {NegationOf(v) : v \in do[<<Here, Of(N.child)>>]} \subseteq do[<<Here, Of(N)>>]
      <3>1. OfNode(see, do, Here, N) = {NegationOf(v) : v \in do[<<Here, Of(N.child)>>]}
        BY <2>1 DEF OfNode
      <3> QED BY <2>3, <3>1, NodeMeans
    <2>8. \A v : After(do, Here, f, v) = {NegationOf(v)}
      BY <2>2, AfterIs
    <2> QED BY <2>2, <2>3, <2>4, <2>5, <2>6, <2>7, <2>8, PursuesPush
  <1>2. CASE NegateReturns
    <2>1. /\ ctl.mode = "VALUE" /\ calls # << >> /\ Work # << >> /\ F.k = "NEGATE" /\ Pop
          /\ ctl' = IF ctl.value.type = "NUMBER" THEN Give(NumberNode(Negated(ctl.value.num)))
                    ELSE Fail("TYPE")
      BY <1>2 DEF NegateReturns, In, OnTop, F, Go
    <2>2. calls \in Seq(Call) /\ Work \in Seq(Frame) /\ ctl.value \in Value
      BY <2>1, InExpression, Facts
    <2>3. Work' = Tail(Work)
      BY <2>1, <2>2, WorkAfter
    <2>4. Answered(see, do, Here, Work, ctl) = {NegationOf(ctl.value)}
      BY <2>1, AfterIs DEF Answered, Busy, F
    <2>5. ctl' = Give(NegationOf(ctl.value))
      BY <2>1, <2>2, ValuesNeedNothing DEF NegationOf, Fail
    <2>6. Busy(ctl') /\ Ends(see, do, Here, Tail(Work), ctl') = {NegationOf(ctl.value)}
      BY ONLY <2>5, EndsGive
    <2> QED BY <2>1, <2>2, <2>3, <2>4, <2>6, PursuesPop
  <1> QED BY <1>1, <1>2

(* The operands of a sum or a product, and what their first one leads to. *)
LEMMA OperandsType ==
    ASSUME NEW s \in Operands
    PROVE  s \in Seq([op : MathOp, node : Node])
  <1>1. s \in Seq([op : MathOp \ {"SET"}, node : Node])
    BY DEF Operands
  <1>2. \A i \in 1..Len(s) : s[i] \in [op : MathOp \ {"SET"}, node : Node]
    BY <1>1, ElementOfSeq
  <1>3. [op : MathOp \ {"SET"}, node : Node] \subseteq [op : MathOp, node : Node]
    OBVIOUS
  <1> QED BY <1>1, <1>2, <1>3, SeqOfElements
LEMMA SumGoesOn ==
    ASSUME NEW see, NEW do, Closed(see, do), NEW a \in Addr, NEW acc \in Num, NEW s,
           s \in Seq([op : MathOp, node : Node]), s # << >>
    PROVE  \A v \in do[<<a, Of(Head(s).node)>>] :
              Operand(do, a, acc, Head(s).op, v, Tail(s)) \subseteq do[<<a, SumOf(acc, s)>>]
  <1>1. SumOf(acc, s).rest = s /\ SumOf(acc, s).acc = acc
    BY DEF SumOf
  <1>2. OfSum(do, a, SumOf(acc, s)) =
           UNION {Operand(do, a, acc, Head(s).op, v, Tail(s)) : v \in do[<<a, Of(Head(s).node)>>]}
    BY <1>1 DEF OfSum
  <1> QED BY <1>2, SumMeans

(* A sum or a product, up to its first operand. *)
LEMMA PursuesSum ==
    ASSUME IInv, NEW see, NEW do, Closed(see, do), Pursues(see, do, Here, Work, ctl),
           ReduceSum
    PROVE  Pursues(see, do, Here, Work', ctl')
  <1> DEFINE f == [k |-> "MATH", acc |-> 0, op |-> "SET", rest |-> N.rest]
             s == <<[op |-> "SET", node |-> N.first]>> \o N.rest
  <1>1. ctl.mode = "REDUCE" /\ N.type = "SUM" /\ Push(f) /\ ctl' = Reduce(N.first)
    BY DEF ReduceSum, Reducing, In, N, Go
  <1>2. /\ calls # << >> /\ calls \in Seq(Call) /\ Here \in Addr /\ Work \in Seq(Frame)
        /\ N \in Node \cup XenoNodes
    BY <1>1, InExpression, Facts
  <1>3. N.first \in Node /\ N.rest \in Operands
    BY <1>1, <1>2, NodeParts
  <1>4. /\ f \in Frame /\ f.k = "MATH" /\ f.acc = 0 /\ f.op = "SET" /\ f.rest = N.rest
    BY <1>3 DEF Frame, MathFrame, Num, MathOp
  <1> HIDE DEF f
  <1>5. /\ s \in Seq([op : MathOp, node : Node]) /\ s # << >>
        /\ Head(s) = [op |-> "SET", node |-> N.first] /\ Tail(s) = N.rest
    <2>1. N.rest \in Seq([op : MathOp, node : Node])
      BY <1>3, OperandsType
    <2>2. [op |-> "SET", node |-> N.first] \in [op : MathOp, node : Node]
      BY <1>3 DEF MathOp
    <2> QED BY <2>1, <2>2, Cons, ConsTail
  <1> HIDE DEF s
  <1>6. Work' = <<f>> \o Work
    BY <1>1, <1>2, <1>4, WorkAfter
  <1>7. Busy(ctl) /\ Ends(see, do, Here, Work, ctl) = do[<<Here, Of(N)>>]
    BY <1>1 DEF Busy, Ends, N
  <1>8. Busy(ctl') /\ Ends(see, do, Here, <<f>> \o Work, ctl') = do[<<Here, Of(N.first)>>]
    BY ONLY <1>1, EndsReduce
  <1>9. do[<<Here, SumOf(0, s)>>] \subseteq do[<<Here, Of(N)>>]
    <2>1. OfNode(see, do, Here, N) = do[<<Here, SumOf(0, s)>>]
      BY <1>1 DEF OfNode, s
    <2> QED BY <1>2, <2>1, NodeMeans
  <1>10. \A v \in do[<<Here, Of(N.first)>>] :
            Operand(do, Here, 0, "SET", v, N.rest) \subseteq do[<<Here, SumOf(0, s)>>]
    <2>1. Head(s).op = "SET" /\ Head(s).node = N.first /\ 0 \in Num
      BY <1>5 DEF Num
    <2>2. \A v \in do[<<Here, Of(Head(s).node)>>] :
             Operand(do, Here, 0, Head(s).op, v, Tail(s)) \subseteq do[<<Here, SumOf(0, s)>>]
      BY <1>2, <1>5, <2>1, SumGoesOn
    <2> QED BY <1>5, <2>1, <2>2
  <1>11. \A v : After(do, Here, f, v) = Operand(do, Here, 0, "SET", v, N.rest)
    BY <1>4, AfterIs
  <1> QED BY <1>2, <1>4, <1>6, <1>7, <1>8, <1>9, <1>10, <1>11, PursuesPush

(* An operand of it. *)
LEMMA PursuesMath ==
    ASSUME IInv, NEW see, NEW do, Closed(see, do), Pursues(see, do, Here, Work, ctl),
           MathFails \/ MathReturns
    PROVE  Pursues(see, do, Here, Work', ctl')
  <1> DEFINE acc == MathValue(F.acc, F.op, ctl.value)
             f == [k |-> "MATH", acc |-> acc, op |-> Head(F.rest).op, rest |-> Tail(F.rest)]
             X == Answered(see, do, Here, Work, ctl)
  <1>1. ctl.mode = "VALUE" /\ calls # << >> /\ Work # << >> /\ F.k = "MATH"
    BY DEF MathFails, MathReturns, In, OnTop, F
  <1>2. /\ ctl.value \in Value /\ Here \in Addr /\ F \in Frame /\ Work \in Seq(Frame)
        /\ calls \in Seq(Call)
    BY <1>1, InExpression, Facts, WorkChain
  <1>3. F.acc \in Num /\ F.rest \in Operands
    BY <1>1, <1>2, FrameOf DEF MathFrame
  <1>4. F.rest \in Seq([op : MathOp, node : Node])
    BY <1>3, OperandsType
  <1>5. acc \in Num
    BY <1>2, <1>3, MathType
  <1>6. X = Operand(do, Here, F.acc, F.op, ctl.value, F.rest)
    BY <1>1, AfterIs DEF Answered, Busy, F
  <1>7. ctl.value.type # "NEEDS"
    BY <1>2, ValuesNeedNothing
  <1> HIDE DEF X
  <1>8. CASE MathFails
    <2>1. Pop /\ ctl' = Fail(MathError(ctl.value)) /\ MathError(ctl.value) # "NONE"
      BY <1>8 DEF MathFails, Go
    <2>2. X = {ErrorNode(MathError(ctl.value))}
      BY <1>6, <1>7, <2>1 DEF Operand
    <2>3. Work' = Tail(Work)
      BY <1>1, <1>2, <2>1, WorkAfter
    <2>4. Busy(ctl') /\ Ends(see, do, Here, Tail(Work), ctl') = X
      BY ONLY <2>1, <2>2, EndsFail
    <2> QED BY <1>1, <1>2, <2>3, <2>4, PursuesPop DEF X
  <1>9. CASE MathReturns
    <2>1. MathError(ctl.value) = "NONE"
      BY <1>9 DEF MathReturns
    <2>2. X = do[<<Here, SumOf(acc, F.rest)>>]
      BY <1>6, <1>7, <2>1 DEF Operand
    <2>3. OfSum(do, Here, SumOf(acc, F.rest)) \subseteq X
      BY <1>2, <1>4, <1>5, <2>2, SumMeans
    <2>4. CASE F.rest = << >>
      <3>1. Pop /\ ctl' = Give(NumberNode(acc))
        BY <1>9, <2>4 DEF MathReturns, Go
      <3>2. NumberNode(acc) \in X
        BY <2>3, <2>4 DEF OfSum, SumOf
      <3>3. Work' = Tail(Work)
        BY <1>1, <1>2, <3>1, WorkAfter
      <3>4. Busy(ctl') /\ Ends(see, do, Here, Tail(Work), ctl') = {NumberNode(acc)}
        BY ONLY <3>1, EndsGive
      <3> QED BY <1>1, <1>2, <3>2, <3>3, <3>4, PursuesPop DEF X
    <2>5. CASE F.rest # << >>
      <3>1. Replace(f) /\ ctl' = Reduce(Head(F.rest).node)
        BY <1>9, <2>5 DEF MathReturns, Go
      <3>2. /\ Head(F.rest) \in [op : MathOp \ {"SET"}, node : Node]
            /\ Tail(F.rest) \in Operands
        BY <1>3, <2>5, HeadTail DEF Operands
      <3>3. /\ f \in Frame /\ f.k = "MATH" /\ f.acc = acc /\ f.op = Head(F.rest).op
            /\ f.rest = Tail(F.rest)
        <4> HIDE DEF acc
        <4> QED BY <1>5, <3>2 DEF Frame, MathFrame
      <3> HIDE DEF f
      <3>4. Work' = <<f>> \o Tail(Work)
        BY <1>1, <1>2, <3>1, <3>3, WorkAfter
      <3>5. /\ Busy(ctl')
            /\ Ends(see, do, Here, <<f>> \o Tail(Work), ctl') = do[<<Here, Of(Head(F.rest).node)>>]
        BY ONLY <3>1, EndsReduce
      <3>6. \A v \in do[<<Here, Of(Head(F.rest).node)>>] :
               Operand(do, Here, acc, Head(F.rest).op, v, Tail(F.rest)) \subseteq X
        <4> HIDE DEF acc
        <4> QED BY <1>2, <1>4, <1>5, <2>2, <2>5, SumGoesOn
      <3>7. \A v : After(do, Here, f, v) = Operand(do, Here, acc, Head(F.rest).op, v, Tail(F.rest))
        <4> HIDE DEF acc
        <4> QED BY <3>3, AfterIs
      <3> HIDE DEF acc
      <3>8. \A v \in Ends(see, do, Here, <<f>> \o Tail(Work), ctl') : After(do, Here, f, v) \subseteq X
        BY <3>5, <3>6, <3>7
      <3> QED BY <1>1, <1>2, <3>3, <3>4, <3>5, <3>8, PursuesReplace DEF X
    <2> QED BY <2>4, <2>5
  <1> QED BY <1>8, <1>9

(* The next argument of a function, and a function that has them all. *)
LEMMA FuncGoesOn ==
    ASSUME NEW see, NEW do, Closed(see, do), NEW a \in Addr, NEW f \in Func,
           NEW done \in Seq(Value), NEW s \in Seq(Node)
    PROVE  /\ s # << >> =>
                \A v \in do[<<a, Of(Head(s))>>] :
                   Argument(do, a, f, done, v, Tail(s)) \subseteq do[<<a, FuncOf(f, done, s)>>]
           /\ s = << >> => Applied(do, a, f, done) \subseteq do[<<a, FuncOf(f, done, s)>>]
  <1> DEFINE t == FuncOf(f, done, s)
  <1>1. t.rest = s /\ t.func = f /\ t.done = done
    BY DEF FuncOf
  <1>2. OfFunc(do, a, t) \subseteq do[<<a, t>>]
    BY FuncMeans
  <1> HIDE DEF t
  <1>3. ASSUME s # << >> 
        PROVE  \A v \in do[<<a, Of(Head(s))>>] :
                  Argument(do, a, f, done, v, Tail(s)) \subseteq do[<<a, t>>]
    <2>1. OfFunc(do, a, t) =
             UNION {Argument(do, a, f, done, v, Tail(s)) : v \in do[<<a, Of(Head(s))>>]}
      BY <1>1, <1>3 DEF OfFunc
    <2> QED BY <1>2, <2>1
  <1>4. ASSUME s = << >> PROVE Applied(do, a, f, done) \subseteq do[<<a, t>>]
    BY <1>1, <1>2, <1>4 DEF OfFunc
  <1> QED BY <1>3, <1>4 DEF t

(* A function, up to its first argument. *)
LEMMA PursuesFunc ==
    ASSUME IInv, NEW see, NEW do, Closed(see, do), Pursues(see, do, Here, Work, ctl),
           ReduceFunc
    PROVE  Pursues(see, do, Here, Work', ctl')
  <1> DEFINE X == do[<<Here, FuncOf(N.func, << >>, N.args)>>]
  <1>1. ctl.mode = "REDUCE" /\ N.type = "FUNC"
    BY DEF ReduceFunc, Reducing, In, N
  <1>2. /\ calls # << >> /\ calls \in Seq(Call) /\ Here \in Addr /\ Work \in Seq(Frame)
        /\ N \in Node \cup XenoNodes
    BY <1>1, InExpression, Facts
  <1>3. N.func \in Func /\ N.args \in Seq(Node) /\ << >> \in Seq(Value)
    BY <1>1, <1>2, NodeParts, EmptySeq
  <1>4. Busy(ctl) /\ Ends(see, do, Here, Work, ctl) = do[<<Here, Of(N)>>]
    BY <1>1 DEF Busy, Ends, N
  <1>5. X \subseteq do[<<Here, Of(N)>>]
    <2>1. OfNode(see, do, Here, N) = X
      BY <1>1 DEF OfNode
    <2> QED BY <1>2, <2>1, NodeMeans
  <1>6. CASE N.args = << >>
    <2>1. ctl' = Apply(N.func, << >>) /\ UNCHANGED calls
      BY <1>6 DEF ReduceFunc, Go
    <2>2. Work' = Work
      BY <1>2, <2>1, WorkAfter
    <2>3. /\ Busy(ctl')
          /\ Ends(see, do, Here, Work, ctl') = do[<<Here, FuncOf(N.func, << >>, << >>)>>]
      BY ONLY <2>1, EndsApply
    <2>4. Ends(see, do, Here, Work, ctl') = X
      BY <1>6, <2>3
    <2> HIDE DEF X
    <2> QED BY <1>4, <1>5, <2>2, <2>3, <2>4, PursuesOn
  <1>7. CASE N.args # << >>
    <2> DEFINE f == [k |-> "ARGS", func |-> N.func, done |-> << >>, rest |-> Tail(N.args)]
    <2>1. Push(f) /\ ctl' = Reduce(Head(N.args))
      BY <1>7 DEF ReduceFunc, Go
    <2>2. Head(N.args) \in Node /\ Tail(N.args) \in Seq(Node)
      BY <1>3, <1>7, HeadTail
    <2>3. f \in Frame /\ f.k = "ARGS" /\ f.rest = Tail(N.args) /\ f.func = N.func /\ f.done = << >>
      BY <1>3, <2>2 DEF Frame, ArgsFrame
    <2> HIDE DEF f
    <2>4. Work' = <<f>> \o Work
      BY <1>2, <2>1, <2>3, WorkAfter
    <2>5. Busy(ctl') /\ Ends(see, do, Here, <<f>> \o Work, ctl') = do[<<Here, Of(Head(N.args))>>]
      BY ONLY <2>1, EndsReduce
    <2>6. \A v \in do[<<Here, Of(Head(N.args))>>] :
             Argument(do, Here, N.func, << >>, v, Tail(N.args)) \subseteq X
      BY <1>2, <1>3, <1>7, FuncGoesOn
    <2>7. \A v : After(do, Here, f, v) = Argument(do, Here, N.func, << >>, v, Tail(N.args))
      BY <2>3, AfterIs
    <2> HIDE DEF X
    <2> QED BY <1>2, <1>4, <1>5, <2>3, <2>4, <2>5, <2>6, <2>7, PursuesPush
  <1> QED BY <1>6, <1>7

(* An argument of it. *)
LEMMA PursuesArgs ==
    ASSUME IInv, NEW see, NEW do, Closed(see, do), Pursues(see, do, Here, Work, ctl),
           ArgsReturn
    PROVE  Pursues(see, do, Here, Work', ctl')
  <1> DEFINE done == Append(F.done, ctl.value)
             f == [F EXCEPT !.done = done, !.rest = Tail(@)]
             X == Answered(see, do, Here, Work, ctl)
  <1>1. ctl.mode = "VALUE" /\ calls # << >> /\ Work # << >> /\ F.k = "ARGS"
    BY DEF ArgsReturn, In, OnTop, F
  <1>2. /\ ctl.value \in Value /\ Here \in Addr /\ Work \in Seq(Frame)
        /\ calls \in Seq(Call) /\ F \in ArgsFrame
    BY <1>1, InExpression, Facts, WorkChain, FrameOf
  <1>3. F.func \in Func /\ F.done \in Seq(Value) /\ F.rest \in Seq(Node)
    BY <1>2 DEF ArgsFrame
  <1>4. done \in Seq(Value)
    BY <1>2, <1>3, AppendProperties
  <1>5. X = Argument(do, Here, F.func, F.done, ctl.value, F.rest)
    BY <1>1, AfterIs DEF Answered, Busy, F
  <1>6. X = do[<<Here, FuncOf(F.func, done, F.rest)>>]
    BY <1>2, <1>5, ValuesNeedNothing DEF Argument
  <1> HIDE DEF X, done
  <1>7. CASE F.rest = << >>
    <2>1. Pop /\ ctl' = Apply(F.func, done)
      BY <1>7 DEF ArgsReturn, Go, done
    <2>2. Work' = Tail(Work)
      BY <1>1, <1>2, <2>1, WorkAfter
    <2>3. /\ Busy(ctl')
          /\ Ends(see, do, Here, Tail(Work), ctl') = do[<<Here, FuncOf(F.func, done, << >>)>>]
      BY ONLY <2>1, EndsApply
    <2>4. Ends(see, do, Here, Tail(Work), ctl') = X
      BY <1>6, <1>7, <2>3
    <2> QED BY <1>1, <1>2, <2>2, <2>3, <2>4, PursuesPop DEF X
  <1>8. CASE F.rest # << >>
    <2>1. Replace(f) /\ ctl' = Reduce(Head(F.rest))
      BY <1>8 DEF ArgsReturn, Go, done
    <2>2. Head(F.rest) \in Node /\ Tail(F.rest) \in Seq(Node)
      BY <1>3, <1>8, HeadTail
    <2>3. /\ f \in ArgsFrame /\ f.k = "ARGS" /\ f.func = F.func /\ f.done = done
          /\ f.rest = Tail(F.rest)
      BY <1>1, <1>2, <1>4, <2>2 DEF ArgsFrame
    <2>4. f \in Frame
      BY <2>3 DEF Frame
    <2> HIDE DEF f
    <2>5. Work' = <<f>> \o Tail(Work)
      BY <1>1, <1>2, <2>1, <2>4, WorkAfter
    <2>6. /\ Busy(ctl')
          /\ Ends(see, do, Here, <<f>> \o Tail(Work), ctl') = do[<<Here, Of(Head(F.rest))>>]
      BY ONLY <2>1, EndsReduce
    <2>7. \A v \in do[<<Here, Of(Head(F.rest))>>] :
             Argument(do, Here, F.func, done, v, Tail(F.rest)) \subseteq X
      BY <1>2, <1>3, <1>4, <1>6, <1>8, FuncGoesOn
    <2>8. \A v : After(do, Here, f, v) = Argument(do, Here, F.func, done, v, Tail(F.rest))
      BY <2>3, AfterIs
    <2>9. \A v \in Ends(see, do, Here, <<f>> \o Tail(Work), ctl') : After(do, Here, f, v) \subseteq X
      BY <2>6, <2>7, <2>8
    <2> QED BY <1>1, <1>2, <2>4, <2>5, <2>6, <2>9, PursuesReplace DEF X
  <1> QED BY <1>7, <1>8

-----------------------------------------------------------------------------
(* A function that has its arguments.                                      *)

(* What it comes to, when it matches no form and when it does. *)
LEMMA MatchedForm ==
    ASSUME NEW f, NEW vs, WellTyped(f, vs)
    PROVE  FormsOfArity(f, Len(vs)) # {}
  BY DEF WellTyped
LEMMA AppliedWrong ==
    ASSUME NEW do, NEW a, NEW f, NEW vs, ~WellTyped(f, vs)
    PROVE  Applied(do, a, f, vs) =
              {ErrorNode(IF FormsOfArity(f, Len(vs)) = {} THEN "ARGC" ELSE "TYPE")}
  BY DEF Applied
LEMMA AppliedPure ==
    \A do, a, f, vs : f \in PureFuncs /\ WellTyped(f, vs) =>
                       Applied(do, a, f, vs) = {PureValue(f, vs)}
  <1> TAKE do, a, f, vs
  <1> HAVE f \in PureFuncs /\ WellTyped(f, vs)
  <1>1. f \notin {"ROW", "COL", "BODY_COL", "CELL", "MASK_SUM"} \cup Aggregates
    BY DEF PureFuncs, ScalarFuncs, Aggregates
  <1> QED BY <1>1, MatchedForm DEF Applied
LEMMA AppliedRow ==
    ASSUME NEW do, NEW a, NEW vs, WellTyped("ROW", vs)
    PROVE  Applied(do, a, "ROW", vs) = {NumberNode(a[3])}
  <1>1. "ROW" \notin PureFuncs \cup Aggregates
    BY DEF PureFuncs, ScalarFuncs, Aggregates
  <1> QED BY <1>1, MatchedForm DEF Applied
LEMMA AppliedCol ==
    ASSUME NEW do, NEW a, NEW vs, WellTyped("COL", vs)
    PROVE  Applied(do, a, "COL", vs) = {}
  <1>1. "COL" \notin PureFuncs \cup Aggregates
    BY DEF PureFuncs, ScalarFuncs, Aggregates
  <1> QED BY <1>1, MatchedForm DEF Applied
LEMMA AppliedBodyCol ==
    ASSUME NEW do, NEW a, NEW vs, WellTyped("BODY_COL", vs)
    PROVE  Applied(do, a, "BODY_COL", vs) =
              {BodyCol(Shape[a[1]], IF Len(vs) = 0 THEN a[2] ELSE ReadAsNumber(vs[1]))}
  <1>1. "BODY_COL" \notin PureFuncs \cup Aggregates
    BY DEF PureFuncs, ScalarFuncs, Aggregates
  <1> QED BY <1>1, MatchedForm DEF Applied
LEMMA AppliedCell ==
    ASSUME NEW do, NEW a, NEW vs, WellTyped("CELL", vs)
    PROVE  Applied(do, a, "CELL", vs) =
              IF Len(vs) = 2 THEN {CellNode(ToS32(vs[1].num), ToS32(vs[2].num))}
              ELSE do[<<a, Of(XenoNode(vs[1].str, ToS32(vs[2].num), ToS32(vs[3].num)))>>]
  <1>1. "CELL" \notin PureFuncs \cup Aggregates
    BY DEF PureFuncs, ScalarFuncs, Aggregates
  <1> QED BY <1>1, MatchedForm DEF Applied
LEMMA AppliedFold ==
    ASSUME NEW do, NEW a, NEW f \in Aggregates, NEW vs, WellTyped(f, vs)
    PROVE  Applied(do, a, f, vs) = do[<<a, FoldOf(f, NoNumbers, vs, << >>)>>]
  <1>1. f \notin {"ROW", "COL", "BODY_COL", "CELL", "MASK_SUM"} \cup PureFuncs
    BY DEF PureFuncs, ScalarFuncs, Aggregates
  <1> QED BY <1>1, MatchedForm DEF Applied
LEMMA AppliedMask ==
    ASSUME NEW do, NEW a, NEW vs, WellTyped("MASK_SUM", vs)
    PROVE  Applied(do, a, "MASK_SUM", vs) =
              do[<<a, MaskOf(ToS32(vs[1].num), vs[2], ToS32(vs[3].num),
                             Shape[a[1]].firstBodyRow, 0)>>]
  <1>1. "MASK_SUM" \notin PureFuncs \cup Aggregates
    BY DEF PureFuncs, ScalarFuncs, Aggregates
  <1> QED BY <1>1, MatchedForm DEF Applied

(* It is an error, it gives a value or it reads a foreign cell at once. *)
LEMMA PursuesApply ==
    ASSUME IInv, NEW see, NEW do, Closed(see, do), Pursues(see, do, Here, Work, ctl),
           ApplyMismatch \/ ApplyPure \/ ApplyRow \/ ApplyBodyCol \/ ApplyCell
    PROVE  Pursues(see, do, Here, Work', ctl')
  <1> DEFINE f == ctl.func
             as == ctl.args
             X == Applied(do, Here, f, as)
  <1>1. ctl.mode = "APPLY" /\ UNCHANGED calls
    BY DEF ApplyMismatch, ApplyPure, ApplyRow, ApplyBodyCol, ApplyCell, Applying, In
  <1>2. /\ calls # << >> /\ calls \in Seq(Call) /\ Here \in Addr /\ D = Here[1]
        /\ f \in Func /\ as \in Seq(Value) /\ << >> \in Seq(Node)
    BY <1>1, InExpression, Facts, EmptySeq
  <1>3. Work' = Work
    BY <1>1, <1>2, WorkAfter
  <1>4. /\ Busy(ctl)
        /\ Ends(see, do, Here, Work, ctl) = do[<<Here, FuncOf(f, as, << >>)>>]
    BY <1>1 DEF Busy, Ends
  <1>5. X \subseteq do[<<Here, FuncOf(f, as, << >>)>>]
    BY <1>2, FuncGoesOn
  <1> SUFFICES Busy(ctl') /\ Ends(see, do, Here, Work, ctl') \subseteq X
    <2> HIDE DEF X, f, as
    <2> QED BY <1>3, <1>4, <1>5, PursuesOn
  <1>6. CASE ApplyMismatch
    <2> DEFINE e == IF FormsOfArity(f, Len(as)) = {} THEN "ARGC" ELSE "TYPE"
    <2>1. ctl' = Fail(e) /\ ~WellTyped(f, as)
      BY <1>6 DEF ApplyMismatch, Go, Arity
    <2>2. X = {ErrorNode(e)}
      BY <2>1, AppliedWrong
    <2> HIDE DEF e, X
    <2>3. Busy(ctl') /\ Ends(see, do, Here, Work, ctl') = {ErrorNode(e)}
      BY ONLY <2>1, EndsFail
    <2> QED BY <2>2, <2>3
  <1>7. CASE ApplyPure
    <2>1. ctl' = Give(PureValue(f, as)) /\ f \in PureFuncs /\ WellTyped(f, as)
      BY <1>7 DEF ApplyPure, Go, Applying
    <2>2. X = {PureValue(f, as)}
      BY <2>1, AppliedPure
    <2> HIDE DEF X
    <2>3. Busy(ctl') /\ Ends(see, do, Here, Work, ctl') = {PureValue(f, as)}
      BY ONLY <2>1, EndsGive
    <2> QED BY <2>2, <2>3
  <1>8. CASE ApplyRow
    <2>1. ctl' = Give(NumberNode(Here[3])) /\ f = "ROW" /\ WellTyped(f, as)
      BY <1>8 DEF ApplyRow, Go, Applying
    <2>2. X = {NumberNode(Here[3])}
      BY <2>1, AppliedRow
    <2> HIDE DEF X
    <2>3. Busy(ctl') /\ Ends(see, do, Here, Work, ctl') = {NumberNode(Here[3])}
      BY ONLY <2>1, EndsGive
    <2> QED BY <2>2, <2>3
  <1>9. CASE ApplyBodyCol
    <2> DEFINE v == BodyCol(Shape[Here[1]], IF Len(as) = 0 THEN Here[2] ELSE ReadAsNumber(as[1]))
    <2>1. ctl' = Give(v) /\ f = "BODY_COL" /\ WellTyped(f, as)
      BY <1>2, <1>9 DEF ApplyBodyCol, Go, Applying, Arity, Arg
    <2>2. X = {v}
      BY <2>1, AppliedBodyCol
    <2> HIDE DEF X, v
    <2>3. Busy(ctl') /\ Ends(see, do, Here, Work, ctl') = {v}
      BY ONLY <2>1, EndsGive
    <2> QED BY <2>2, <2>3
  <1>10. CASE ApplyCell
    <2> DEFINE v == CellNode(ToS32(as[1].num), ToS32(as[2].num))
               n == XenoNode(as[1].str, ToS32(as[2].num), ToS32(as[3].num))
    <2>1. f = "CELL" /\ WellTyped(f, as)
          /\ ctl' = IF Len(as) = 2 THEN Give(v) ELSE Reduce(n)
      BY <1>10 DEF ApplyCell, Go, Applying, Arity, Arg
    <2>2. X = IF Len(as) = 2 THEN {v} ELSE do[<<Here, Of(n)>>]
      BY <2>1, AppliedCell
    <2> HIDE DEF X, v, n
    <2>3. CASE Len(as) = 2
      <3>1. ctl' = Give(v)
        BY <2>1, <2>3
      <3>2. Busy(ctl') /\ Ends(see, do, Here, Work, ctl') = {v}
        BY ONLY <3>1, EndsGive
      <3> QED BY <2>2, <2>3, <3>2
    <2>4. CASE Len(as) # 2
      <3>1. ctl' = Reduce(n)
        BY <2>1, <2>4
      <3>2. Busy(ctl') /\ Ends(see, do, Here, Work, ctl') = do[<<Here, Of(n)>>]
        BY ONLY <3>1, EndsReduce
      <3> QED BY <2>2, <2>4, <3>2
    <2> QED BY <2>3, <2>4
  <1> QED BY <1>6, <1>7, <1>8, <1>9, <1>10

(* It opens a frame for its loop. *)
LEMMA PursuesWalk ==
    ASSUME IInv, NEW see, NEW do, Closed(see, do), Pursues(see, do, Here, Work, ctl),
           ApplyAggregate \/ ApplyMaskSum
    PROVE  Pursues(see, do, Here, Work', ctl')
  <1> DEFINE g == ctl.func
             as == ctl.args
             X == Applied(do, Here, g, as)
  <1>1. ctl.mode = "APPLY" /\ ctl' = Plain("LOOP")
    BY DEF ApplyAggregate, ApplyMaskSum, Applying, In, Go
  <1>2. /\ calls # << >> /\ calls \in Seq(Call) /\ Here \in Addr /\ D = Here[1]
        /\ Work \in Seq(Frame) /\ g \in Func /\ as \in Seq(Value) /\ << >> \in Seq(Node)
    BY <1>1, InExpression, Facts, EmptySeq
  <1>3. Busy(ctl) /\ Ends(see, do, Here, Work, ctl) = do[<<Here, FuncOf(g, as, << >>)>>]
    BY <1>1 DEF Busy, Ends
  <1>4. X \subseteq do[<<Here, FuncOf(g, as, << >>)>>]
    BY <1>2, FuncGoesOn
  <1>5. ~Busy(ctl')
    BY <1>1, EndsLater
  <1> SUFFICES \E f \in Frame : Push(f) /\ MaskBounds(Here, f, ctl') /\ Ahead(see, do, Here, f) = X
    <2> HIDE DEF X, g, as
    <2>1. PICK f \in Frame : Push(f) /\ MaskBounds(Here, f, ctl') /\ Ahead(see, do, Here, f) = X
      OBVIOUS
    <2>2. Work' = <<f>> \o Work
      BY <1>2, <2>1, WorkAfter
    <2> QED BY <1>2, <1>3, <1>4, <1>5, <2>1, <2>2, PursuesPush
  <1>6. CASE ApplyAggregate
    <2> DEFINE f == OpenedFold
    <2>1. f \in Frame /\ Push(f) /\ f.k = "FOLD"
      BY <1>6, OpensFold DEF Frame
    <2>2. f.func = g /\ f.acc = NoNumbers /\ f.args = as /\ f.todo = << >>
      BY DEF OpenedFold
    <2>3. X = do[<<Here, FoldOf(g, NoNumbers, as, << >>)>>]
      BY <1>6, AppliedFold DEF ApplyAggregate, Applying
    <2> HIDE DEF f, X
    <2>4. MaskBounds(Here, f, ctl') /\ Ahead(see, do, Here, f) = X
      BY <2>1, <2>2, <2>3 DEF MaskBounds, Ahead
    <2> QED BY <2>1, <2>4
  <1>7. CASE ApplyMaskSum
    <2> DEFINE f == OpenedMask
    <2>1. f \in Frame /\ Push(f) /\ f.k = "MASK"
      BY <1>7, OpensMask DEF Frame
    <2>2. /\ f.phase = "TEST" /\ f.test = ToS32(as[1].num) /\ f.proto = as[2]
          /\ f.trgt = ToS32(as[3].num) /\ f.row = Shape[Here[1]].firstBodyRow /\ f.acc = 0
          /\ f.last = LastMasked(Here[1])
      BY <1>2 DEF OpenedMask, Arg, LastMasked
    <2>3. X = do[<<Here, MaskOf(ToS32(as[1].num), as[2], ToS32(as[3].num),
                                Shape[Here[1]].firstBodyRow, 0)>>]
      BY <1>7, AppliedMask DEF ApplyMaskSum, Applying
    <2> HIDE DEF f, X
    <2>4. MaskBounds(Here, f, ctl') /\ Ahead(see, do, Here, f) = X
      BY <1>1, <2>1, <2>2, <2>3 DEF MaskBounds, Ahead, Plain
    <2> QED BY <2>1, <2>4
  <1> QED BY <1>6, <1>7

-----------------------------------------------------------------------------
(* The loops over cells.                                                   *)

(* What EvaluateCell leaves of the cell that a loop waits for is seen of   *)
(* it: the cell, or that it is circular and still an expression.           *)
LEMMA SeenReturned ==
    ASSUME IInv, ReturnedInv, NEW see, Sees(Len(calls), see), In("RETURNED"), calls # << >>
    PROVE  /\ Awaited(Top) \in Addr
           /\ \/ cell[Awaited(Top)] \in FinalCell /\ cell[Awaited(Top)] \in see[Awaited(Top)]
              \/ cell[Awaited(Top)].type = "EXPR" /\ Circular \in see[Awaited(Top)]
  <1> DEFINE p == Awaited(Top)
  <1>1. p \in Addr /\ p[1] \in loaded /\ ctl.ok \in BOOLEAN
    BY ReturnedCell DEF ReturnedInv
  <1>2. CASE ctl.ok
    <2>1. cell[p] \in FinalCell /\ cell[p].type # "EXPR"
      BY <1>2, ReturnedCell DEF FinalCell, NullCell, NumberNodes, StringNodes, ErrorNodes
    <2> QED BY <1>1, <2>1 DEF Sees
  <1>3. CASE ~ctl.ok
    <2>1. PICK i \in 1..Len(calls) : calls[i].at = p
      BY <1>3, Facts DEF ReadsFinal
    <2>2. cell[p].type = "EXPR"
      BY <2>1, Facts DEF CallsInv
    <2>3. Circular \in see[p]
      BY <2>1 DEF Sees
    <2> QED BY <1>1, <2>2, <2>3
  <1> QED BY <1>1, <1>2, <1>3

(* What the frame of an aggregate function means. *)
LEMMA FoldGoes ==
    ASSUME NEW see, NEW do, Closed(see, do), NEW a \in Addr, NEW f \in FoldFrame
    PROVE  /\ Ahead(see, do, a, f) = do[<<a, FoldOf(f.func, f.acc, f.args, f.todo)>>]
           /\ LET t == FoldOf(f.func, f.acc, f.args, f.todo)
              IN  /\ f.todo # << >> =>
                        \A c \in At(see, Located(a[1], Head(f.todo))) :
                            Passed(do, a, t, c) \subseteq Ahead(see, do, a, f)
                  /\ f.todo = << >> /\ f.args = << >> =>
                        NumberNode(AggregateOf(f.func, f.acc)) \in Ahead(see, do, a, f)
                  /\ f.todo = << >> /\ f.args # << >> /\ Head(f.args).type = "NUMBER" =>
                        do[<<a, FoldOf(f.func, Accumulate(f.func, f.acc, Head(f.args).num),
                                       Tail(f.args), << >>)>>] \subseteq Ahead(see, do, a, f)
                  /\ f.todo = << >> /\ f.args # << >> /\ Head(f.args).type # "NUMBER" =>
                        do[<<a, FoldOf(f.func, f.acc, Tail(f.args),
                                       RangeCells(Shape[a[1]], Head(f.args)))>>]
                            \subseteq Ahead(see, do, a, f)
  <1> DEFINE t == FoldOf(f.func, f.acc, f.args, f.todo)
  <1>1. t.func = f.func /\ t.acc = f.acc /\ t.args = f.args /\ t.todo = f.todo
    BY DEF FoldOf
  <1>2. OfFold(see, do, a, t) \subseteq do[<<a, t>>]
    BY FoldMeans
  <1>3. f.k = "FOLD"
    BY DEF FoldFrame
  <1>4. Ahead(see, do, a, f) = do[<<a, t>>]
    BY <1>3 DEF Ahead
  <1> HIDE DEF t
  <1>5. ASSUME f.todo # << >>, NEW c \in At(see, Located(a[1], Head(f.todo)))
        PROVE  Passed(do, a, t, c) \subseteq do[<<a, t>>]
    BY <1>1, <1>2, <1>5 DEF OfFold
  <1>6. ASSUME f.todo = << >>, f.args = << >>
        PROVE  NumberNode(AggregateOf(f.func, f.acc)) \in do[<<a, t>>]
    BY <1>1, <1>2, <1>6 DEF OfFold
  <1>7. ASSUME f.todo = << >>, f.args # << >>, Head(f.args).type = "NUMBER"
        PROVE  do[<<a, FoldOf(f.func, Accumulate(f.func, f.acc, Head(f.args).num),
                              Tail(f.args), << >>)>>] \subseteq do[<<a, t>>]
    BY <1>1, <1>2, <1>7 DEF OfFold
  <1>8. ASSUME f.todo = << >>, f.args # << >>, Head(f.args).type # "NUMBER"
        PROVE  do[<<a, FoldOf(f.func, f.acc, Tail(f.args),
                              RangeCells(Shape[a[1]], Head(f.args)))>>] \subseteq do[<<a, t>>]
    BY <1>1, <1>2, <1>8 DEF OfFold
  <1> QED BY <1>4, <1>5, <1>6, <1>7, <1>8 DEF t

(* A turn leaves a frame that leads to no more than the one before. *)
LEMMA PursuesTurn ==
    ASSUME IInv, calls # << >>, Work # << >>, NEW see, NEW do, ~Busy(ctl), ~Busy(ctl'),
           Pursues(see, do, Here, Work, ctl), NEW f \in Frame, Replace(f),
           MaskBounds(Here, f, ctl'), Ahead(see, do, Here, f) \subseteq Ahead(see, do, Here, F)
    PROVE  Pursues(see, do, Here, Work', ctl')
  <1>1. calls \in Seq(Call) /\ Work \in Seq(Frame)
    BY Facts, TopType
  <1>2. Work' = <<f>> \o Tail(Work)
    BY <1>1, WorkAfter
  <1>3. Answered(see, do, Here, Work, ctl) = Ahead(see, do, Here, F)
    BY DEF Answered, F
  <1> QED BY <1>1, <1>2, <1>3, PursuesReplace

(* A turn of the loop of an aggregate function. *)
LEMMA PursuesFold ==
    ASSUME IInv, ReturnedInv, NEW see, NEW do, Closed(see, do), Sees(Len(calls), see),
           Pursues(see, do, Here, Work, ctl),
           FoldNumber \/ FoldRange \/ FoldReturns
    PROVE  Pursues(see, do, Here, Work', ctl')
  <1> DEFINE X == Ahead(see, do, Here, F)
  <1>1. /\ calls # << >> /\ Work # << >> /\ F.k = "FOLD" /\ ctl.mode \in {"LOOP", "RETURNED"}
        /\ ctl' = ctl \/ ctl' = Plain("LOOP")
    BY DEF FoldNumber, FoldRange, FoldReturns, Turn, OnTop, F, In, Go
  <1>2. F \in FoldFrame /\ Here \in Addr /\ D = Here[1]
    BY <1>1, Facts, WorkChain, FrameOf, TopType DEF D
  <1>3. ~Busy(ctl) /\ ~Busy(ctl')
    BY <1>1, EndsLater DEF Busy
  <1> SUFFICES \E f \in FoldFrame : Replace(f) /\ Ahead(see, do, Here, f) \subseteq X
    <2> HIDE DEF X
    <2>1. PICK f \in FoldFrame : Replace(f) /\ Ahead(see, do, Here, f) \subseteq X
      OBVIOUS
    <2>2. f \in Frame /\ MaskBounds(Here, f, ctl')
      BY DEF Frame, FoldFrame, MaskBounds
    <2> QED BY <1>1, <1>3, <2>1, <2>2, PursuesTurn DEF X
  <1> HIDE DEF X
  <1>4. CASE FoldNumber
    <2> DEFINE f == FoldNumberTurn
    <2>1. f \in FoldFrame /\ Replace(f)
      BY <1>4, FoldTurns
    <2>2. F.todo = << >> /\ F.args # << >> /\ Head(F.args).type = "NUMBER"
      BY <1>4 DEF FoldNumber
    <2>3. /\ f.func = F.func /\ f.acc = Accumulate(F.func, F.acc, Head(F.args).num)
          /\ f.args = Tail(F.args) /\ f.todo = << >>
      BY <1>2, <2>2 DEF FoldNumberTurn, FoldFrame
    <2> HIDE DEF f
    <2>4. Ahead(see, do, Here, f) =
             do[<<Here, FoldOf(F.func, Accumulate(F.func, F.acc, Head(F.args).num),
                               Tail(F.args), << >>)>>]
      BY <1>2, <2>1, <2>3, FoldGoes
    <2> QED BY <1>2, <2>1, <2>2, <2>4, FoldGoes DEF X
  <1>5. CASE FoldRange
    <2> DEFINE f == FoldRangeTurn
    <2>1. f \in FoldFrame /\ Replace(f)
      BY <1>5, FoldTurns
    <2>2. F.todo = << >> /\ F.args # << >> /\ Head(F.args).type # "NUMBER"
      BY <1>5 DEF FoldRange
    <2>3. /\ f.func = F.func /\ f.acc = F.acc /\ f.args = Tail(F.args)
          /\ f.todo = RangeCells(Shape[Here[1]], Head(F.args))
      BY <1>2, <2>2 DEF FoldRangeTurn, FoldFrame
    <2> HIDE DEF f
    <2>4. Ahead(see, do, Here, f) =
             do[<<Here, FoldOf(F.func, F.acc, Tail(F.args),
                               RangeCells(Shape[Here[1]], Head(F.args)))>>]
      BY <1>2, <2>1, <2>3, FoldGoes
    <2> QED BY <1>2, <2>1, <2>2, <2>4, FoldGoes DEF X
  <1>6. CASE FoldReturns
    <2> DEFINE f == FoldCellTurn
               p == Awaited(Top)
               t == FoldOf(F.func, F.acc, F.args, F.todo)
    <2>1. f \in FoldFrame /\ Replace(f)
      BY <1>6, FoldTurns
    <2>2. In("RETURNED")
      BY <1>6 DEF FoldReturns
    <2>3. F.todo # << >> /\ p = Located(Here[1], Head(F.todo)) /\ p \in Addr
      BY <1>1, <2>2, ReturnedCell DEF Waiting, Awaited, F, Work, Here
    <2>4. /\ f.func = F.func /\ f.args = F.args /\ f.todo = Tail(F.todo)
          /\ f.acc = IF cell[p].type = "NUMBER" THEN Accumulate(F.func, F.acc, cell[p].num)
                     ELSE F.acc
      BY <1>2 DEF FoldCellTurn, FoldFrame
    <2>5. PICK c \in see[p] : c.type # "NEEDS" /\ Met(F.func, F.acc, c) = f.acc
      <3>1. CASE cell[p] \in FinalCell /\ cell[p] \in see[p]
        <4>1. cell[p].type # "NEEDS"
          BY <3>1 DEF FinalCell, NullCell, NumberNodes, StringNodes, ErrorNodes
        <4> QED BY <2>4, <3>1, <4>1 DEF Met
      <3>2. CASE cell[p].type = "EXPR" /\ Circular \in see[p]
        BY <2>4, <3>2 DEF Met, Circular
      <3> QED BY <1>1, <2>2, <3>1, <3>2, SeenReturned
    <2> HIDE DEF f, p
    <2>6. c \in At(see, Located(Here[1], Head(F.todo)))
      BY <2>3 DEF At
    <2>7. Passed(do, Here, t, c) = do[<<Here, FoldOf(f.func, f.acc, f.args, f.todo)>>]
      BY <2>4, <2>5 DEF Passed, FoldOf
    <2>8. Passed(do, Here, t, c) \subseteq X
      BY <1>2, <2>3, <2>6, FoldGoes DEF X
    <2>9. Ahead(see, do, Here, f) = do[<<Here, FoldOf(f.func, f.acc, f.args, f.todo)>>]
      BY <1>2, <2>1, FoldGoes
    <2> QED BY <2>1, <2>7, <2>8, <2>9
  <1> QED BY <1>4, <1>5, <1>6

(* What the frame of mask_sum means: before its test, and after it. *)
LEMMA MaskGoes ==
    ASSUME NEW see, NEW do, Closed(see, do), NEW a \in Addr, NEW f \in MaskFrame,
           f.phase = "TEST"
    PROVE  /\ Ahead(see, do, a, f) = do[<<a, MaskOf(f.test, f.proto, f.trgt, f.row, f.acc)>>]
           /\ f.row >= LastMasked(a[1]) => NumberNode(f.acc) \in Ahead(see, do, a, f)
           /\ ~(f.row >= LastMasked(a[1])) =>
                \A c \in At(see, <<a[1], f.test, f.row>>) :
                    Tested(see, do, a, f, c) \subseteq Ahead(see, do, a, f)
  <1> DEFINE t == MaskOf(f.test, f.proto, f.trgt, f.row, f.acc)
  <1>1. t.test = f.test /\ t.proto = f.proto /\ t.trgt = f.trgt /\ t.row = f.row /\ t.acc = f.acc
    BY DEF MaskOf
  <1>2. OfMask(see, do, a, t) \subseteq do[<<a, t>>]
    BY MaskMeans
  <1>3. f.k = "MASK"
    BY DEF MaskFrame
  <1>4. Ahead(see, do, a, f) = do[<<a, t>>]
    BY <1>3 DEF Ahead
  <1> HIDE DEF t
  <1>5. \A c : NextRow(do, a, t, c) = NextRow(do, a, f, c)
    BY <1>1 DEF NextRow
  <1>6. \A c : Counted(do, a, t, c) = Counted(do, a, f, c)
    BY <1>1, <1>5 DEF Counted
  <1>7. OfTarget(see, do, a, t) = OfTarget(see, do, a, f)
    BY <1>1, <1>6 DEF OfTarget
  <1>8. \A c : Tested(see, do, a, t, c) = Tested(see, do, a, f, c)
    BY <1>1, <1>5, <1>7 DEF Tested
  <1>9. ASSUME f.row >= LastMasked(a[1]) PROVE NumberNode(f.acc) \in do[<<a, t>>]
    BY <1>1, <1>2, <1>9 DEF OfMask
  <1>10. ASSUME ~(f.row >= LastMasked(a[1])), NEW c \in At(see, <<a[1], f.test, f.row>>)
         PROVE  Tested(see, do, a, f, c) \subseteq do[<<a, t>>]
    <2>1. OfMask(see, do, a, t) =
             UNION {Tested(see, do, a, t, b) : b \in At(see, <<a[1], f.test, f.row>>)}
      BY <1>1, <1>10 DEF OfMask
    <2> QED BY <1>2, <1>8, <1>10, <2>1
  <1> QED BY <1>4, <1>9, <1>10 DEF t

(* A turn of the loop of mask_sum. *)
LEMMA PursuesMask ==
    ASSUME IInv, ReturnedInv, NEW see, NEW do, Closed(see, do), Sees(Len(calls), see),
           Pursues(see, do, Here, Work, ctl),
           MaskTested \/ MaskReturns
    PROVE  Pursues(see, do, Here, Work', ctl')
  <1> DEFINE X == Ahead(see, do, Here, F)
             p == Awaited(Top)
  <1>1. /\ calls # << >> /\ Work # << >> /\ F.k = "MASK" /\ In("RETURNED")
        /\ ctl' = Plain("LOOP")
    BY DEF MaskTested, MaskReturns, OnTop, F, In, Go
  <1>2. F \in MaskFrame /\ Here \in Addr /\ D = Here[1]
    BY <1>1, Facts, WorkChain, FrameOf, TopType DEF D
  <1>3. ~Busy(ctl) /\ ~Busy(ctl')
    BY <1>1, EndsLater DEF Busy, In
  <1>4. F.last = LastMasked(Here[1]) /\ F.row < F.last
    BY <1>1, <1>3 DEF Pursues, MaskBounds, F, In
  <1>5. p = <<Here[1], IF F.phase = "TEST" THEN F.test ELSE F.trgt, F.row>>
    BY <1>1 DEF Awaited, F, Work, Here
  <1>6. p \in Addr
    BY <1>1, SeenReturned
  <1>7. ~(F.row >= LastMasked(Here[1])) /\ F.row \in Int /\ F.last \in Int
    BY <1>2, <1>4 DEF MaskFrame
  <1> HIDE DEF X
  <1> SUFFICES \E f \in MaskFrame : /\ Replace(f) /\ f.last = F.last
                                    /\ f.phase # "TEST" => f.row = F.row
                                    /\ Ahead(see, do, Here, f) \subseteq X
    <2> HIDE DEF p
    <2>1. PICK f \in MaskFrame : /\ Replace(f) /\ f.last = F.last
                                 /\ f.phase # "TEST" => f.row = F.row
                                 /\ Ahead(see, do, Here, f) \subseteq X
      OBVIOUS
    <2>2. f \in Frame /\ MaskBounds(Here, f, ctl')
      BY <1>1, <1>4, <2>1 DEF Frame, MaskFrame, MaskBounds, Plain
    <2> QED BY <1>1, <1>3, <2>1, <2>2, PursuesTurn DEF X
  <1>8. CASE MaskTested
    <2> DEFINE f == MaskTestTurn
    <2>1. f \in MaskFrame /\ Replace(f)
      BY <1>8, MaskTurns
    <2>2. F.phase = "TEST"
      BY <1>8 DEF MaskTested
    <2>3. p = <<Here[1], F.test, F.row>>
      BY <1>5, <2>2
    <2>4. /\ f.last = F.last /\ f.test = F.test /\ f.proto = F.proto /\ f.trgt = F.trgt
          /\ f.acc = F.acc /\ f.k = "MASK"
          /\ CellsEq(F.proto, cell[p]) => f.phase = "TARGET" /\ f.row = F.row
          /\ ~CellsEq(F.proto, cell[p]) => f.phase = "TEST" /\ f.row = F.row + 1
      BY <1>1, <1>2, <2>2 DEF MaskTestTurn, MaskFrame
    <2>5. PICK c \in see[p] : c.type # "NEEDS" /\ (CellsEq(F.proto, c) <=> CellsEq(F.proto, cell[p]))
      <3>1. CASE cell[p] \in FinalCell /\ cell[p] \in see[p]
        <4>1. cell[p].type # "NEEDS"
          BY <3>1 DEF FinalCell, NullCell, NumberNodes, StringNodes, ErrorNodes
        <4> QED BY <3>1, <4>1
      <3>2. CASE cell[p].type = "EXPR" /\ Circular \in see[p]
        <4>1. F.proto.type \in {"NUMBER", "STRING"}
          BY <1>2 DEF MaskFrame, NumberNodes, StringNodes
        <4>2. Circular.type = "CIRCULAR"
          BY DEF Circular
        <4>3. ~CellsEq(F.proto, Circular) /\ ~CellsEq(F.proto, cell[p])
          BY <3>2, <4>1, <4>2 DEF CellsEq
        <4> QED BY <3>2, <4>2, <4>3
      <3> QED BY <1>1, <3>1, <3>2, SeenReturned
    <2> HIDE DEF f, p
    <2>6. c \in At(see, <<Here[1], F.test, F.row>>)
      BY <1>6, <2>3 DEF At
    <2>7. Tested(see, do, Here, F, c) \subseteq X
      BY <1>2, <1>7, <2>2, <2>6, MaskGoes DEF X
    <2>8. CASE CellsEq(F.proto, cell[p])
      <3>1. Tested(see, do, Here, F, c) = OfTarget(see, do, Here, F)
        BY <2>5, <2>8 DEF Tested
      <3>2. \A x : NextRow(do, Here, F, x) = NextRow(do, Here, f, x)
        BY <2>4, <2>8 DEF NextRow
      <3>3. \A x : Counted(do, Here, F, x) = Counted(do, Here, f, x)
        BY <2>4, <3>2 DEF Counted
      <3>4. OfTarget(see, do, Here, F) = OfTarget(see, do, Here, f)
        BY <2>4, <2>8, <3>3 DEF OfTarget
      <3>5. Ahead(see, do, Here, f) = OfTarget(see, do, Here, f)
        BY <2>4, <2>8 DEF Ahead
      <3> QED BY <2>1, <2>4, <2>7, <2>8, <3>1, <3>4, <3>5
    <2>9. CASE ~CellsEq(F.proto, cell[p])
      <3>1. Tested(see, do, Here, F, c) = NextRow(do, Here, F, F.acc)
        BY <2>5, <2>9 DEF Tested
      <3>2. Ahead(see, do, Here, f) = do[<<Here, MaskOf(F.test, F.proto, F.trgt, F.row + 1, F.acc)>>]
        <4>1. f.phase = "TEST" /\ f \in MaskFrame /\ Here \in Addr
          BY <1>2, <2>1, <2>4, <2>9
        <4>2. Ahead(see, do, Here, f) = do[<<Here, MaskOf(f.test, f.proto, f.trgt, f.row, f.acc)>>]
          BY <4>1, MaskGoes
        <4>3. MaskOf(f.test, f.proto, f.trgt, f.row, f.acc)
              = MaskOf(F.test, F.proto, F.trgt, F.row + 1, F.acc)
          BY ONLY <2>4, <2>9
        <4> QED BY <4>2, <4>3
      <3>3. Ahead(see, do, Here, f) = NextRow(do, Here, F, F.acc)
        BY <3>2 DEF NextRow
      <3> QED BY <2>1, <2>4, <2>7, <2>9, <3>1, <3>3
    <2> QED BY <2>8, <2>9
  <1>9. CASE MaskReturns
    <2> DEFINE f == MaskCellTurn
    <2>1. f \in MaskFrame /\ Replace(f)
      BY <1>9, MaskTurns
    <2>2. F.phase = "TARGET"
      BY <1>9 DEF MaskReturns
    <2>3. p = <<Here[1], F.trgt, F.row>>
      BY <1>5, <2>2
    <2>4. /\ f.last = F.last /\ f.test = F.test /\ f.proto = F.proto /\ f.trgt = F.trgt
          /\ f.phase = "TEST" /\ f.row = F.row + 1
          /\ f.acc = IF cell[p].type = "NUMBER" THEN Arith(F.acc, "ADD", cell[p].num) ELSE F.acc
      BY <1>2 DEF MaskCellTurn, MaskFrame
    <2>5. PICK c \in see[p] : c.type # "NEEDS" /\ Added(F.acc, c) = f.acc
      <3>1. CASE cell[p] \in FinalCell /\ cell[p] \in see[p]
        <4>1. cell[p].type # "NEEDS"
          BY <3>1 DEF FinalCell, NullCell, NumberNodes, StringNodes, ErrorNodes
        <4> QED BY <2>4, <3>1, <4>1 DEF Added
      <3>2. CASE cell[p].type = "EXPR" /\ Circular \in see[p]
        BY <2>4, <3>2 DEF Added, Circular
      <3> QED BY <1>1, <3>1, <3>2, SeenReturned
    <2> HIDE DEF f, p
    <2>6. X = OfTarget(see, do, Here, F)
      BY <1>1, <2>2 DEF X, Ahead
    <2>7. Counted(do, Here, F, c) \subseteq X
      BY <1>6, <2>3, <2>6 DEF OfTarget, At
    <2>8. Counted(do, Here, F, c) = NextRow(do, Here, F, f.acc)
      BY <2>5 DEF Counted
    <2>9. Ahead(see, do, Here, f) = do[<<Here, MaskOf(F.test, F.proto, F.trgt, F.row + 1, f.acc)>>]
      <3>1. f.phase = "TEST" /\ f \in MaskFrame /\ Here \in Addr
        BY <1>2, <2>1, <2>4
      <3>2. Ahead(see, do, Here, f) = do[<<Here, MaskOf(f.test, f.proto, f.trgt, f.row, f.acc)>>]
        BY <3>1, MaskGoes
      <3>3. MaskOf(f.test, f.proto, f.trgt, f.row, f.acc)
            = MaskOf(F.test, F.proto, F.trgt, F.row + 1, f.acc)
        BY ONLY <2>4
      <3> QED BY <3>2, <3>3
    <2>10. Ahead(see, do, Here, f) = NextRow(do, Here, F, f.acc)
      BY <2>9 DEF NextRow
    <2> QED BY <2>1, <2>4, <2>7, <2>8, <2>10
  <1> QED BY <1>8, <1>9

(* A loop asks EvaluateCell for its next cell. *)
LEMMA PursuesAsk ==
    ASSUME IInv, NEW see, NEW do, Pursues(see, do, Here, Work, ctl),
           FoldCell \/ MaskCell
    PROVE  Pursues(see, do, Here, Work', ctl')
  <1>1. /\ calls # << >> /\ ctl.mode = "LOOP" /\ UNCHANGED calls
        /\ \E p : ctl' = Evaluate(p)
    BY DEF FoldCell, MaskCell, Turn, OnTop, In, Go
  <1>2. Work' = Work
    BY <1>1, Facts, WorkAfter
  <1>3. ~Busy(ctl) /\ ~Busy(ctl')
    BY <1>1, EndsLater DEF Busy
  <1>4. MaskBounds(Here, Head(Work), ctl')
    <2>1. MaskBounds(Here, Head(Work), ctl)
      BY <1>3 DEF Pursues
    <2>2. Head(Work).k = "MASK" => Head(Work).row < Head(Work).last
      BY DEF FoldCell, MaskCell, Turn, OnTop, F
    <2> QED BY <2>1, <2>2 DEF MaskBounds
  <1> QED BY <1>2, <1>3, <1>4 DEF Pursues, Ends, Left

(* A loop ends with its value. *)
LEMMA PursuesEnd ==
    ASSUME IInv, NEW see, NEW do, Closed(see, do), Pursues(see, do, Here, Work, ctl),
           FoldEnds \/ MaskEnds
    PROVE  Pursues(see, do, Here, Work', ctl')
  <1> DEFINE X == Ahead(see, do, Here, F)
  <1>1. calls # << >> /\ Work # << >> /\ ctl.mode = "LOOP" /\ Pop
    BY DEF FoldEnds, MaskEnds, Turn, OnTop, In
  <1>2. /\ calls \in Seq(Call) /\ Work \in Seq(Frame) /\ Here \in Addr /\ F \in Frame
        /\ Work' = Tail(Work)
    BY <1>1, Facts, TopType, WorkChain, WorkAfter
  <1>3. ~Busy(ctl)
    BY <1>1 DEF Busy
  <1>4. Answered(see, do, Here, Work, ctl) = X
    BY <1>3 DEF Answered, F
  <1> HIDE DEF X
  <1> SUFFICES \E v \in X : ctl' = Give(v)
    <2>1. PICK v \in X : ctl' = Give(v)
      OBVIOUS
    <2>2. Busy(ctl') /\ Ends(see, do, Here, Tail(Work), ctl') = {v}
      BY ONLY <2>1, EndsGive
    <2> QED BY <1>1, <1>2, <1>3, <1>4, <2>2, PursuesPop
  <1>5. CASE FoldEnds
    <2>1. F.k = "FOLD" /\ F.todo = << >> /\ F.args = << >>
          /\ ctl' = Give(NumberNode(AggregateOf(F.func, F.acc)))
      BY <1>5 DEF FoldEnds, Turn, OnTop, F, Go
    <2>2. F \in FoldFrame
      BY <1>2, <2>1, FrameOf
    <2> QED BY <1>2, <2>1, <2>2, FoldGoes DEF X
  <1>6. CASE MaskEnds
    <2>1. F.k = "MASK" /\ F.row >= F.last /\ ctl' = Give(NumberNode(F.acc))
      BY <1>6 DEF MaskEnds, Turn, OnTop, F, Go
    <2>2. F \in MaskFrame
      BY <1>2, <2>1, FrameOf
    <2>3. F.last = LastMasked(Here[1]) /\ (F.phase # "TEST" => F.row < F.last)
      BY <1>1, <1>3, <2>1 DEF Pursues, MaskBounds, F
    <2>4. F.phase = "TEST" /\ F.row >= LastMasked(Here[1])
      BY <2>1, <2>2, <2>3 DEF MaskFrame
    <2> QED BY <1>2, <2>1, <2>2, <2>4, MaskGoes DEF X
  <1> QED BY <1>5, <1>6

-----------------------------------------------------------------------------
(* Every step keeps what the open calls are about to denote.               *)

(* What is seen after a step was seen before it. *)
LEMMA SeesBefore ==
    ASSUME IInv, [Next]_vars, NEW n \in Nat,
           \A i \in 1..n : calls'[i].at = calls[i].at,
           NEW see, Sees(n, see)'
    PROVE  Sees(n, see)
  <1>1. ASSUME NEW b \in Addr, b[1] \in loaded, cell[b].type # "EXPR"
        PROVE  cell[b] \in see[b]
    <2>1. cell'[b] = cell[b]
      BY <1>1, FinalStays
    <2>2. b[1] \in loaded'
      BY <1>1, OutputWriters
    <2> QED BY <1>1, <2>1, <2>2 DEF Sees
  <1>2. ASSUME NEW i \in 1..n
        PROVE  Circular \in see[calls[i].at]
    BY DEF Sees
  <1> QED BY <1>1, <1>2 DEF Sees

(* The files do not change. *)
LEMMA SamePursues ==
    ASSUME UNCHANGED files, ctl'.mode # "ABORT" =>
              \A i \in 1..Len(calls') : \A see, do :
                 Sees(i, see)' /\ Closed(see, do) =>
                    Pursues(see, do, calls'[i].at, calls'[i].work, NextOf(i)')
    PROVE  DInv'
  BY DEF DInv, Pursues

(* A step inside of an expression. *)
LEMMA InnermostPursues ==
    ASSUME IInv, DInv, [Next]_vars, ctl.mode # "ABORT", calls # << >>, Chain,
           \A see, do :
              Sees(Len(calls), see) /\ Closed(see, do) /\ Pursues(see, do, Here, Work, ctl) =>
                 Pursues(see, do, Here, Work', ctl')
    PROVE  DInv'
  <1>1. /\ calls \in Seq(Call) /\ Len(calls) \in Nat /\ Len(calls) >= 1
        /\ Here = calls[Len(calls)].at /\ Work = calls[Len(calls)].work
    BY Facts, TopType DEF Here, Work, Top
  <1>2. /\ Len(calls') = Len(calls)
        /\ \A i \in 1..Len(calls) : calls'[i].at = calls[i].at
        /\ \A i \in 1..(Len(calls) - 1) : calls'[i] = calls[i]
    BY Facts, ChainKeeps
  <1>3. Work' = calls'[Len(calls)].work
    BY <1>2 DEF Work, Top
  <1> SUFFICES ASSUME NEW i \in 1..Len(calls), NEW see, NEW do, Sees(i, see)', Closed(see, do)
               PROVE  Pursues(see, do, calls[i].at, calls'[i].work, NextOf(i)')
    BY <1>2, FilesStay, SamePursues
  <1>4. Sees(i, see)
    BY <1>1, <1>2, SeesBefore
  <1>5. Pursues(see, do, calls[i].at, calls[i].work, NextOf(i))
    BY <1>4 DEF DInv
  <1>6. CASE i = Len(calls)
    <2>1. NextOf(i) = ctl /\ NextOf(i)' = ctl'
      BY <1>2, <1>6 DEF NextOf
    <2> QED BY <1>1, <1>3, <1>4, <1>5, <1>6, <2>1
  <1>7. CASE i # Len(calls)
    <2>1. calls'[i] = calls[i]
      BY <1>1, <1>2, <1>7
    <2>2. NextOf(i)' = NextOf(i)
      BY <1>2, <1>7 DEF NextOf
    <2> QED BY <1>5, <2>1, <2>2
  <1> QED BY <1>6, <1>7

(* No call is left, or the program stops. *)
LEMMA NothingPursued == calls' = << >> \/ ctl'.mode = "ABORT" => DInv'
  <1>1. CASE calls' = << >>
    <2>1. Len(calls') = 0
      BY <1>1
    <2> QED BY <2>1 DEF DInv
  <1> QED BY <1>1 DEF DInv

(* EvaluateCell answers at once. *)
LEMMA AnswersPursue ==
    ASSUME IInv, DInv, [Next]_vars, EvaluateFinal \/ EvaluateCycle \/ EvaluateUnparsable
    PROVE  DInv'
  <1>1. ctl.mode = "EVALUATE" /\ UNCHANGED calls /\ \E ok : ctl' = Returned(ok)
    BY DEF EvaluateFinal, EvaluateCycle, EvaluateUnparsable, EvaluatePending, In, Go
  <1>2. CASE calls = << >>
    BY <1>1, <1>2, NothingPursued
  <1>3. CASE calls # << >>
    <2>1. Work' = Work /\ Chain
      BY <1>1, <1>3, Facts, WorkAfter, WorkChain
    <2>2. ~Busy(ctl) /\ ~Busy(ctl') /\ ctl'.mode # "LOOP"
      BY <1>1, EndsLater DEF Busy, Returned
    <2>3. ASSUME NEW see, NEW do, Pursues(see, do, Here, Work, ctl)
          PROVE  Pursues(see, do, Here, Work', ctl')
      <3>1. MaskBounds(Here, Head(Work), ctl')
        BY <1>1, <2>2, <2>3 DEF Pursues, MaskBounds
      <3> QED BY <2>1, <2>2, <2>3, <3>1 DEF Pursues, Ends, Left
    <2> QED BY <1>1, <1>3, <2>1, <2>3, InnermostPursues
  <1> QED BY <1>2, <1>3

(* EvaluateCell begins to reduce the expression of its cell. *)
LEMMA EnterPursues ==
    ASSUME IInv, DInv, [Next]_vars, EvaluateEnter
    PROVE  DInv'
  <1> DEFINE a == ctl.at
             new == [at |-> a, work |-> << >>]
  <1>1. /\ ctl.mode = "EVALUATE" /\ a \in Addr /\ cell[a].type = "EXPR"
        /\ calls' = Append(calls, new) /\ ctl' = Reduce(cell[a].expr)
    BY DEF EvaluateEnter, EvaluatePending, CellExists, In, Go
  <1>2. cell[a] = files[a]
    BY <1>1, Facts DEF OnlyLoaded, In
  <1> HIDE DEF a
  <1>3. new \in Call /\ new.at = a /\ new.work = << >>
    BY <1>1, EmptySeq DEF Call
  <1> HIDE DEF new
  <1>4. /\ Len(calls) \in Nat /\ Len(calls') = Len(calls) + 1
        /\ \A i \in 1..Len(calls) : calls'[i] = calls[i]
        /\ calls'[Len(calls) + 1] = new
    BY <1>1, <1>3, Facts, AppendProperties, LenProperties
  <1> SUFFICES ASSUME NEW i \in 1..Len(calls'), NEW see, NEW do, Sees(i, see)', Closed(see, do)
               PROVE  Pursues(see, do, calls'[i].at, calls'[i].work, NextOf(i)')
    BY FilesStay, SamePursues
  <1>5. CASE i \in 1..Len(calls)
    <2>1. i \in Nat /\ \A j \in 1..i : calls'[j].at = calls[j].at
      BY <1>4, <1>5
    <2>2. Sees(i, see)
      BY <2>1, SeesBefore
    <2>3. Pursues(see, do, calls[i].at, calls[i].work, NextOf(i))
      BY <1>1, <1>5, <2>2 DEF DInv
    <2>4. NextOf(i)' = Plain("EVALUATE")
      BY <1>4, <1>5 DEF NextOf
    <2>5. ~Busy(NextOf(i)) /\ ~Busy(NextOf(i)') /\ NextOf(i).mode # "LOOP"
      BY <1>1, <2>4 DEF NextOf, Busy, Plain
    <2>6. MaskBounds(calls[i].at, Head(calls[i].work), NextOf(i)')
      BY <2>3, <2>5 DEF Pursues, MaskBounds
    <2>7. Pursues(see, do, calls[i].at, calls[i].work, NextOf(i)')
      BY <2>3, <2>5, <2>6 DEF Pursues, Ends, Left
    <2> QED BY <1>4, <1>5, <2>7
  <1>6. CASE i = Len(calls) + 1
    <2>1. calls'[i].at = a /\ calls'[i].work = << >> /\ NextOf(i)' = ctl'
      BY <1>3, <1>4, <1>6 DEF NextOf
    <2>2. Busy(ctl') /\ Ends(see, do, a, << >>, ctl') = do[<<a, Of(files[a].expr)>>]
      <3>1. Busy(ctl') /\ Ends(see, do, a, << >>, ctl') = do[<<a, Of(cell[a].expr)>>]
        BY ONLY <1>1, EndsReduce
      <3> QED BY <1>2, <3>1
    <2>3. Pursues(see, do, a, << >>, ctl')
      BY <2>2, LeadsNowhere DEF Pursues, Left
    <2> QED BY <2>1, <2>3
  <1> QED BY <1>4, <1>5, <1>6

(* EvaluateCell stores the value of its cell and returns. *)
LEMMA StorePursues ==
    ASSUME IInv, DInv, [Next]_vars, EvaluateStore
    PROVE  DInv'
  <1>1. ctl.mode = "VALUE" /\ calls' = SubSeq(calls, 1, Len(calls) - 1) /\ ctl' = Returned(TRUE)
    BY DEF EvaluateStore, In, Go
  <1>2. Len(calls) \in Nat /\ Len(calls) >= 1
    BY <1>1, InExpression, Facts, TopType
  <1>3. /\ Len(calls') = Len(calls) - 1
        /\ \A i \in 1..(Len(calls) - 1) : calls'[i] = calls[i]
    BY <1>1, <1>2, Facts, DropLast
  <1> SUFFICES ASSUME NEW i \in 1..(Len(calls) - 1), NEW see, NEW do,
                      Sees(i, see)', Closed(see, do)
               PROVE  Pursues(see, do, calls[i].at, calls[i].work, NextOf(i)')
    BY <1>3, FilesStay, SamePursues
  <1>4. i \in Nat /\ i \in 1..Len(calls) /\ i # Len(calls)
        /\ \A j \in 1..i : calls'[j].at = calls[j].at
    BY <1>2, <1>3
  <1>5. Sees(i, see)
    BY <1>4, SeesBefore
  <1>6. Pursues(see, do, calls[i].at, calls[i].work, Plain("EVALUATE"))
    BY <1>1, <1>4, <1>5 DEF DInv, NextOf
  <1>7. NextOf(i)' = Returned(TRUE) \/ NextOf(i)' = Plain("EVALUATE")
    BY <1>1 DEF NextOf
  <1>8. /\ ~Busy(Plain("EVALUATE")) /\ ~Busy(NextOf(i)') /\ NextOf(i)'.mode # "LOOP"
        /\ Plain("EVALUATE").mode # "LOOP"
    BY <1>7 DEF Busy, Plain, Returned
  <1>9. MaskBounds(calls[i].at, Head(calls[i].work), NextOf(i)')
    BY <1>6, <1>8 DEF Pursues, MaskBounds
  <1> QED BY <1>6, <1>8, <1>9 DEF Pursues, Ends, Left

(* A step that sets the work in hand sets it to frames. *)
LEMMA WorkOfSet ==
    ASSUME calls \in Seq(Call), calls' \in Seq(Call), calls # << >>, NEW w, SetWork(w)
    PROVE  w \in Seq(Frame)
  <1> DEFINE n == Len(calls)
  <1>1. n \in 1..n /\ calls \in [1..n -> Call]
    BY LenProperties, EmptySeq
  <1>2. calls' = [calls EXCEPT ![n] = [@ EXCEPT !.work = w]]
    BY DEF SetWork
  <1> HIDE DEF n
  <1>3. DOMAIN calls' = 1..n /\ calls'[n] = [calls[n] EXCEPT !.work = w]
    BY <1>1, <1>2
  <1>4. calls[n] \in Call /\ calls'[n] \in Call
    BY <1>1, <1>3, LenProperties, ElementOfSeq
  <1>5. calls'[n].work = w
    BY <1>3, <1>4 DEF Call
  <1> QED BY <1>4, <1>5 DEF Call

(* ReduceNode never begins where the program has stopped, nor returns to   *)
(* ReduceNode from EvaluateCell.                                           *)
LEMMA InnerModes ==
    ASSUME ReduceStep \/ FuncStep \/ LoopStep
    PROVE  ctl.mode # "ABORT" /\ ctl'.mode # "RETURNED"
  <1> USE DEF Go, Stop, Into, In, Give, Fail, Reduce, Apply, Plain, Evaluate
  <1>1. CASE ReduceStep
    BY <1>1 DEF ReduceStep, IntoReturns, ReduceFinal, ReduceRange,
       ReduceBadRange, ReduceMacro, ReduceNoMacro, ReduceCell, ReduceBadCell, ReduceNoFile,
       ReduceXeno, ReduceBadXeno, ReduceTerm, NegateReturns, ReduceSum, MathFails,
       MathReturns, Reducing
  <1>2. CASE FuncStep
    BY <1>2 DEF FuncStep, ReduceFunc, ArgsReturn, ApplyMismatch,
       ApplyPure, ApplyRow, ApplyCol, ApplyBodyCol, ApplyCell, ApplyAggregate,
       ApplyMaskSum, Applying, Reducing
  <1>3. CASE LoopStep
    BY <1>3 DEF LoopStep, FoldNumber, FoldRange, FoldCell, FoldReturns, FoldEnds, MaskCell,
       MaskTested, MaskReturns, MaskEnds, Turn
  <1> QED BY <1>1, <1>2, <1>3

(* The steps of ReduceNode. *)
LEMMA InnerPursues ==
    ASSUME IInv, ReturnedInv, DInv, [Next]_vars, ReduceStep \/ FuncStep \/ LoopStep
    PROVE  DInv'
  <1>1. CASE ctl'.mode = "ABORT"
    BY <1>1, NothingPursued
  <1>2. CASE ctl'.mode # "ABORT"
    <2>1. ~ReduceBadRange /\ ~ReduceBadCell /\ ~ReduceBadXeno /\ ~ApplyCol
      BY <1>2 DEF ReduceBadRange, ReduceBadCell, ReduceBadXeno, ApplyCol, Stop, Go, Plain
    <2>2. calls # << >> /\ (UNCHANGED calls \/ \E w : SetWork(w))
      BY InnerStep
    <2>3. Chain
      <3>1. calls \in Seq(Call) /\ calls' \in Seq(Call)
        BY StepKeeps, Facts DEF IInv, TypeOK
      <3> QED BY <2>2, <3>1, WorkOfSet DEF Chain
    <2>4. ctl.mode # "ABORT"
      BY InnerModes
    <2>5. ASSUME NEW see, NEW do, Sees(Len(calls), see), Closed(see, do),
                 Pursues(see, do, Here, Work, ctl)
          PROVE  Pursues(see, do, Here, Work', ctl')
      <3>1. CASE ReduceStep
        BY <2>1, <2>5, <3>1, PursuesAtOnce, PursuesReads, PursuesRead, PursuesTerm, PursuesSum,
           PursuesMath DEF ReduceStep
      <3>2. CASE FuncStep
        BY <2>1, <2>5, <3>2, PursuesFunc, PursuesArgs, PursuesApply, PursuesWalk DEF FuncStep
      <3>3. CASE LoopStep
        BY <2>5, <3>3, PursuesFold, PursuesMask, PursuesAsk, PursuesEnd DEF LoopStep
      <3> QED BY <3>1, <3>2, <3>3
    <2> QED BY <2>2, <2>3, <2>4, <2>5, InnermostPursues
  <1> QED BY <1>1, <1>2

(* Every step. *)
LEMMA DKeeps == IInv /\ ReturnedInv /\ DInv /\ [Next]_vars => DInv'
  <1> SUFFICES ASSUME IInv, ReturnedInv, DInv, [Next]_vars PROVE DInv'
    OBVIOUS
  <1>1. CASE UNCHANGED vars
    BY <1>1 DEF vars, DInv, Pursues, Sees, NextOf
  <1>2. CASE MainStep
    <2>1. calls = << >> /\ UNCHANGED calls
      BY <1>2, Facts DEF MainStep, MainSkips, MainOpens, ScanCell, MainPrints, Exit, In,
                         ControlInv
    <2> QED BY <2>1, NothingPursued
  <1>3. CASE CellStep
    <2>1. CASE ScanResumes
      BY <2>1, NothingPursued DEF ScanResumes
    <2>2. CASE EvaluateMissing
      BY <2>2, NothingPursued DEF EvaluateMissing, Stop, Go, Plain
    <2> QED BY <1>3, <2>1, <2>2, AnswersPursue, EnterPursues, StorePursues DEF CellStep
  <1>4. CASE ReduceStep \/ FuncStep \/ LoopStep
    BY <1>4, InnerPursues
  <1>5. CASE Rest
    BY <1>1, <1>5 DEF Rest
  <1> QED BY <1>1, <1>2, <1>3, <1>4, <1>5 DEF Next, Step

LEMMA DStarts == Init => DInv
  <1> SUFFICES ASSUME Init PROVE DInv
    OBVIOUS
  <1>1. Len(calls) = 0
    BY DEF Init
  <1> QED BY <1>1 DEF DInv

(* EvaluateCell returns to a call that waits for a loaded document. *)
LEMMA ReturnedKeeps == IInv /\ ReturnedInv /\ [Next]_vars => ReturnedInv'
  <1> SUFFICES ASSUME IInv, ReturnedInv, [Next]_vars, In("RETURNED")', calls' # << >>
               PROVE  Awaited(Top')[1] \in loaded'
    BY DEF ReturnedInv
  <1>1. loaded \subseteq loaded'
    BY OutputWriters
  <1>2. CASE EvaluateFinal \/ EvaluateCycle \/ EvaluateUnparsable
    <2>1. In("EVALUATE") /\ UNCHANGED calls
      BY <1>2 DEF EvaluateFinal, EvaluateCycle, EvaluateUnparsable, EvaluatePending
    <2>2. ctl.at = Awaited(Top) /\ ctl.at[1] \in loaded
      BY <2>1, Facts DEF ReadsFinal, OnlyLoaded
    <2>3. Top' = Top
      BY <2>1 DEF Top
    <2> QED BY <1>1, <2>2, <2>3
  <1>3. CASE EvaluateStore
    <2>1. calls' = SubSeq(calls, 1, Len(calls) - 1) /\ UNCHANGED loaded /\ ctl.mode = "VALUE"
      BY <1>3 DEF EvaluateStore, In
    <2>2. Len(calls) \in Nat /\ Len(calls) >= 1
      BY <2>1, InExpression, Facts, TopType
    <2>3. /\ Len(calls') = Len(calls) - 1 /\ calls' \in Seq(Call)
          /\ \A i \in 1..(Len(calls) - 1) : calls'[i] = calls[i]
      BY <2>1, <2>2, Facts, DropLast
    <2> DEFINE n == Len(calls) - 1
    <2>4. n \in 1..n /\ n \in 1..(Len(calls) - 1) /\ n + 1 = Len(calls)
      BY <2>2, <2>3, EmptySeq
    <2>5. Top' = calls[n]
      BY <2>3, <2>4 DEF Top
    <2>6. calls[n + 1].at = Awaited(calls[n]) /\ calls[n + 1].at[1] \in loaded
      BY <2>2, <2>4, Facts DEF ReadsFinal, OnlyLoaded
    <2> QED BY <2>1, <2>5, <2>6
  <1>4. CASE UNCHANGED vars
    BY <1>4 DEF vars, ReturnedInv, In, Top
  <1>5. CASE ~(EvaluateFinal \/ EvaluateCycle \/ EvaluateUnparsable \/ EvaluateStore)
    <2>1. CASE MainStep
      BY <2>1 DEF MainStep, MainSkips, MainOpens, ScanCell, MainPrints, Exit, In, Go, Plain,
                  Evaluate
    <2>2. CASE EvaluateMissing \/ EvaluateEnter \/ ScanResumes
      BY <2>2 DEF EvaluateMissing, EvaluateEnter, ScanResumes, Stop, In, Go, Plain, Reduce
    <2>3. CASE ReduceStep \/ FuncStep \/ LoopStep
      BY <2>3, InnerModes DEF In
    <2>4. CASE Rest
      BY <1>4, <2>4 DEF Rest
    <2> QED BY <1>4, <1>5, <2>1, <2>2, <2>3, <2>4 DEF Next, Step, CellStep
  <1> QED BY <1>2, <1>3, <1>4, <1>5

-----------------------------------------------------------------------------
(* The outcomes of Denotation exist: what an expression means grows with   *)
(* what its parts mean, so that the recursive function has a solution.     *)

(* up has the outcomes of do, and maybe more. *)
Sighted(see)  == \A b \in Addr : see[b] \subseteq Sight
Under(do, up) ==
    \A a \in Addr, t \in Todo :
        do[<<a, t>>] \subseteq up[<<a, t>>] /\ up[<<a, t>>] \subseteq Outcome
Grows(X, Y)   == X \subseteq Y /\ Y \subseteq Outcome

LEMMA OutcomeTypes ==
    /\ Value \subseteq Outcome /\ Needed \subseteq Outcome
    /\ \A v \in Outcome : v \in Value \/ (v \in Needed /\ v.type = "NEEDS")
    /\ \A v \in Value : v.type # "NEEDS"
    /\ \A e \in ExprError : ErrorNode(e) \in Value
    /\ \A x \in Num : NumberNode(x) \in Value
  <1>1. \A e \in ExprError : ErrorNode(e) \in Value
    BY NodeTypes
  <1>2. \A x \in Num : NumberNode(x) \in Value
    BY NodeTypes
  <1>3. \A v \in Value : v.type # "NEEDS"
    BY ValueFields
  <1>4. \A v \in Needed : v.type = "NEEDS"
    BY DEF Needed
  <1> QED BY <1>1, <1>2, <1>3, <1>4 DEF Outcome
LEMMA SightTypes ==
    ASSUME NEW c \in Sight
    PROVE  /\ c.type = "NEEDS" => c \in Needed
           /\ c.type = "NUMBER" => c.num \in Num
           /\ c.type # "NEEDS" /\ c.type # "CIRCULAR" => c \in FinalCell
  BY DEF Sight, Needed, Circular, FinalCell, NullCell, NumberNodes, StringNodes, ErrorNodes
LEMMA TodoGrows ==
    ASSUME NEW do, NEW up, Under(do, up), NEW a \in Addr, NEW t \in Todo
    PROVE  Grows(do[<<a, t>>], up[<<a, t>>])
  BY DEF Under, Grows
LEMMA ValueGrows ==
    ASSUME NEW v \in Value
    PROVE  Grows({v}, {v})
  BY OutcomeTypes DEF Grows

(* A reference, and a sum or a product. *)
LEMMA ReadIntoGrows ==
    ASSUME NEW see, Sighted(see), NEW p
    PROVE  Grows(ReadInto(see, p), ReadInto(see, p))
  <1>1. ErrorNode("RELATIVE") \in Value /\ ErrorNode("DNE") \in Value /\ ErrorNode("SUB") \in Value
    BY OutcomeTypes DEF ExprError
  <1>2. ASSUME p \in Addr, NEW c \in see[p] PROVE Read(c) \in Outcome
    <2>1. c \in Sight
      BY <1>2 DEF Sighted
    <2>2. CASE c.type = "NEEDS"
      BY <2>1, <2>2, SightTypes, OutcomeTypes DEF Read
    <2>3. CASE c.type = "CIRCULAR"
      BY <1>1, <2>3, OutcomeTypes DEF Read
    <2>4. CASE c.type # "NEEDS" /\ c.type # "CIRCULAR"
      <3>1. Read(c) = SetAsNodeFrom(c)
        BY <2>4 DEF Read
      <3> QED BY <2>1, <2>4, <3>1, SightTypes, ReadType, OutcomeTypes
    <2> QED BY <2>2, <2>3, <2>4
  <1>3. ReadInto(see, p) \subseteq Outcome
    BY <1>1, <1>2, OutcomeTypes DEF ReadInto
  <1> QED BY <1>3 DEF Grows
LEMMA NegationGrows ==
    ASSUME NEW X, NEW Y, Grows(X, Y)
    PROVE  Grows({NegationOf(v) : v \in X}, {NegationOf(v) : v \in Y})
  <1>1. ASSUME NEW v \in Outcome PROVE NegationOf(v) \in Outcome
    <2>1. CASE v.type = "NEEDS"
      BY <2>1 DEF NegationOf
    <2>2. CASE v.type # "NEEDS"
      <3>1. v \in Value /\ ErrorNode("TYPE") \in Value
        BY <2>2, OutcomeTypes DEF ExprError
      <3>2. v.type = "NUMBER" => NumberNode(Negated(v.num)) \in Value
        BY <3>1, ValueFields, NegatedType, OutcomeTypes
      <3> QED BY <2>2, <3>1, <3>2, OutcomeTypes DEF NegationOf
    <2> QED BY <2>1, <2>2
  <1> QED BY <1>1 DEF Grows
LEMMA OperandGrows ==
    ASSUME NEW do, NEW up, Under(do, up), NEW a \in Addr, NEW acc \in Num, NEW op,
           NEW v \in Outcome, NEW rest \in Seq([op : MathOp, node : Node])
    PROVE  Grows(Operand(do, a, acc, op, v, rest), Operand(up, a, acc, op, v, rest))
  <1>1. CASE v.type = "NEEDS"
    BY <1>1 DEF Operand, Grows
  <1>2. CASE v.type # "NEEDS"
    <2>1. v \in Value
      BY <1>2, OutcomeTypes
    <2>2. MathValue(acc, op, v) \in Num /\ (MathError(v) # "NONE" => MathError(v) \in ExprError)
      BY <2>1, MathType
    <2>3. CASE MathError(v) # "NONE"
      <3>1. ErrorNode(MathError(v)) \in Value
        BY <2>2, <2>3, OutcomeTypes
      <3> QED BY <1>2, <2>3, <3>1, ValueGrows DEF Operand
    <2>4. CASE MathError(v) = "NONE"
      <3>1. SumOf(MathValue(acc, op, v), rest) \in Todo
        BY <2>2, TodoTypes
      <3> QED BY <1>2, <2>4, <3>1, TodoGrows DEF Operand
    <2> QED BY <2>3, <2>4
  <1> QED BY <1>1, <1>2
LEMMA SumGrows ==
    ASSUME NEW do, NEW up, Under(do, up), NEW a \in Addr, NEW t \in Todo, t.k = "SUM"
    PROVE  Grows(OfSum(do, a, t), OfSum(up, a, t))
  <1>1. t.acc \in Num /\ t.rest \in Seq([op : MathOp, node : Node])
    BY DEF Todo
  <1>2. CASE t.rest = << >>
    <2>1. NumberNode(t.acc) \in Value
      BY <1>1, OutcomeTypes
    <2> QED BY <1>2, <2>1, ValueGrows DEF OfSum
  <1>3. CASE t.rest # << >>
    <2>1. Head(t.rest) \in [op : MathOp, node : Node]
          /\ Tail(t.rest) \in Seq([op : MathOp, node : Node])
      BY <1>1, <1>3, HeadTail
    <2>2. Of(Head(t.rest).node) \in Todo
      BY <2>1, TodoTypes
    <2> DEFINE X == do[<<a, Of(Head(t.rest).node)>>]
               Y == up[<<a, Of(Head(t.rest).node)>>]
               O(d, v) == Operand(d, a, t.acc, Head(t.rest).op, v, Tail(t.rest))
    <2>3. Grows(X, Y)
      BY <2>2, TodoGrows
    <2>4. OfSum(do, a, t) = UNION {O(do, v) : v \in X} /\ OfSum(up, a, t) = UNION {O(up, v) : v \in Y}
      BY <1>3 DEF OfSum
    <2> HIDE DEF X, Y
    <2>5. \A v \in Outcome : Grows(O(do, v), O(up, v))
      BY <1>1, <2>1, OperandGrows
    <2> HIDE DEF O
    <2> QED BY <2>3, <2>4, <2>5 DEF Grows
  <1> QED BY <1>2, <1>3

(* A function. *)
LEMMA AppliedGrows ==
    ASSUME NEW do, NEW up, Under(do, up), NEW a \in Addr, NEW f \in Func, NEW vs \in Seq(Value)
    PROVE  Grows(Applied(do, a, f, vs), Applied(up, a, f, vs))
  <1>1. CASE ~WellTyped(f, vs)
    <2>1. ErrorNode("ARGC") \in Value /\ ErrorNode("TYPE") \in Value
      BY OutcomeTypes DEF ExprError
    <2> DEFINE v == ErrorNode(IF FormsOfArity(f, Len(vs)) = {} THEN "ARGC" ELSE "TYPE")
    <2>2. v \in Value
      BY <2>1
    <2>3. Applied(do, a, f, vs) = {v} /\ Applied(up, a, f, vs) = {v}
      BY <1>1, AppliedWrong
    <2> HIDE DEF v
    <2> QED BY <2>2, <2>3, ValueGrows
  <1>2. CASE WellTyped(f, vs) /\ f \in PureFuncs
    <2>1. Applied(do, a, f, vs) = {PureValue(f, vs)}
      BY ONLY <1>2, AppliedPure
    <2>2. Applied(up, a, f, vs) = {PureValue(f, vs)}
      BY ONLY <1>2, AppliedPure
    <2>3. PureValue(f, vs) \in Value
      BY PureValueType
    <2> QED BY <2>1, <2>2, <2>3, ValueGrows
  <1>3. CASE WellTyped(f, vs) /\ f = "ROW"
    <2>1. NumberNode(a[3]) \in Value
      BY AddrType, OutcomeTypes DEF Num
    <2> QED BY <1>3, <2>1, AppliedRow, ValueGrows
  <1>4. CASE WellTyped(f, vs) /\ f = "COL"
    <2>1. Applied(do, a, f, vs) = {} /\ Applied(up, a, f, vs) = {}
      BY <1>4, AppliedCol
    <2> QED BY <2>1 DEF Grows
  <1>5. CASE WellTyped(f, vs) /\ f = "BODY_COL"
    <2> DEFINE v == BodyCol(Shape[a[1]], IF Len(vs) = 0 THEN a[2] ELSE ReadAsNumber(vs[1]))
    <2>1. v \in Value
      <3>1. a[2] \in Int /\ ReadAsNumber(vs[1]) \in Int
        BY AddrType, IntMaxAssumption DEF ReadAsNumber, ToS32
      <3> QED BY <3>1, AddrType, BodyColType
    <2>2. \A d : Applied(d, a, f, vs) = {v}
      BY <1>5, AppliedBodyCol
    <2> HIDE DEF v
    <2> QED BY <2>1, <2>2, ValueGrows
  <1>6. CASE WellTyped(f, vs) /\ f = "CELL"
    <2>1. Len(vs) \in {2, 3} /\ (Len(vs) = 2 => vs[1].num \in Num /\ vs[2].num \in Num)
          /\ (Len(vs) = 3 => vs[1].str \in Str /\ vs[2].num \in Num /\ vs[3].num \in Num)
      BY <1>6, CellArgs
    <2>2. CASE Len(vs) = 2
      <3> DEFINE v == CellNode(ToS32(vs[1].num), ToS32(vs[2].num))
      <3>1. v \in Value
        BY <2>1, <2>2, ToS32Type DEF Value, CellNodes, CellNode
      <3>2. \A d : Applied(d, a, f, vs) = {v}
        BY <1>6, <2>2, AppliedCell
      <3> HIDE DEF v
      <3> QED BY <3>1, <3>2, ValueGrows
    <2>3. CASE Len(vs) = 3
      <3> DEFINE n == XenoNode(vs[1].str, ToS32(vs[2].num), ToS32(vs[3].num))
      <3>1. n \in XenoNodes
        BY <2>1, <2>3, ToS32Type DEF XenoNodes, XenoNode
      <3>2. Applied(do, a, f, vs) = do[<<a, Of(n)>>] /\ Applied(up, a, f, vs) = up[<<a, Of(n)>>]
        <4>1. Len(vs) # 2
          BY <2>3
        <4> QED BY <1>6, <4>1, AppliedCell
      <3> HIDE DEF n
      <3>3. Of(n) \in Todo
        BY <3>1, TodoTypes
      <3> QED BY <3>2, <3>3, TodoGrows
    <2> QED BY <2>1, <2>2, <2>3
  <1>7. CASE WellTyped(f, vs) /\ f \in Aggregates
    <2>1. vs \in Seq(NumberNodes \cup RangeNodes)
      BY <1>7, AggregateArgs
    <2>2. NoNumbers \in AccType /\ << >> \in Seq(Int \X Int)
      BY EmptySeq DEF NoNumbers, AccType, Num
    <2> DEFINE t == FoldOf(f, NoNumbers, vs, << >>)
    <2>3. t \in Todo
      BY <1>7, <2>1, <2>2, TodoTypes
    <2>4. Applied(do, a, f, vs) = do[<<a, t>>] /\ Applied(up, a, f, vs) = up[<<a, t>>]
      BY <1>7, AppliedFold
    <2> HIDE DEF t
    <2> QED BY <2>3, <2>4, TodoGrows
  <1>8. CASE WellTyped(f, vs) /\ f = "MASK_SUM"
    <2>1. vs[1].num \in Num /\ vs[3].num \in Num /\ vs[2] \in NumberNodes \cup StringNodes
      BY <1>8, MaskArgs
    <2>2. ToS32(vs[1].num) \in Int /\ ToS32(vs[3].num) \in Int /\ 0 \in Num
      <3>1. 0 \in Num
        BY DEF Num
      <3> QED BY <2>1, <3>1, ToS32Type
    <2>5. Shape[a[1]].firstBodyRow \in Int
      BY AddrType, ShapeAssumption
    <2> DEFINE t == MaskOf(ToS32(vs[1].num), vs[2], ToS32(vs[3].num), Shape[a[1]].firstBodyRow, 0)
    <2>3. t \in Todo
      BY <2>1, <2>2, <2>5, TodoTypes
    <2>4. \A d : Applied(d, a, f, vs) = d[<<a, t>>]
      BY <1>8, AppliedMask
    <2> HIDE DEF t
    <2> QED BY <2>3, <2>4, TodoGrows
  <1>9. CASE WellTyped(f, vs) /\ f = "NULLFUNC"
    <2>1. Forms(f) = {}
      BY <1>9 DEF Forms
    <2> QED BY <1>9, <2>1 DEF WellTyped, FormsOfArity
  <1> QED BY <1>1, <1>2, <1>3, <1>4, <1>5, <1>6, <1>7, <1>8, <1>9 DEF Func, PureFuncs
LEMMA FuncGrows ==
    ASSUME NEW do, NEW up, Under(do, up), NEW a \in Addr, NEW t \in Todo, t.k = "FUNC"
    PROVE  Grows(OfFunc(do, a, t), OfFunc(up, a, t))
  <1>1. t.func \in Func /\ t.done \in Seq(Value) /\ t.rest \in Seq(Node)
    BY DEF Todo
  <1>2. CASE t.rest = << >>
    BY <1>1, <1>2, AppliedGrows DEF OfFunc
  <1>3. CASE t.rest # << >>
    <2>1. Head(t.rest) \in Node /\ Tail(t.rest) \in Seq(Node)
      BY <1>1, <1>3, HeadTail
    <2>2. Of(Head(t.rest)) \in Todo
      BY <2>1, TodoTypes
    <2> DEFINE X == do[<<a, Of(Head(t.rest))>>]
               Y == up[<<a, Of(Head(t.rest))>>]
               O(d, v) == Argument(d, a, t.func, t.done, v, Tail(t.rest))
    <2>3. Grows(X, Y)
      BY <2>2, TodoGrows
    <2>4. OfFunc(do, a, t) = UNION {O(do, v) : v \in X} /\ OfFunc(up, a, t) = UNION {O(up, v) : v \in Y}
      BY <1>3 DEF OfFunc
    <2> HIDE DEF X, Y
    <2>5. ASSUME NEW v \in Outcome PROVE Grows(O(do, v), O(up, v))
      <3>1. CASE v.type = "NEEDS"
        BY <3>1 DEF Argument, Grows
      <3>2. CASE v.type # "NEEDS"
        <4>1. v \in Value
          BY <3>2, OutcomeTypes
        <4>2. Append(t.done, v) \in Seq(Value)
          BY <1>1, <4>1, AppendProperties
        <4>3. FuncOf(t.func, Append(t.done, v), Tail(t.rest)) \in Todo
          BY <1>1, <2>1, <4>2, TodoTypes
        <4> QED BY <3>2, <4>3, TodoGrows DEF Argument
      <3> QED BY <3>1, <3>2
    <2> HIDE DEF O
    <2> QED BY <2>3, <2>4, <2>5 DEF Grows
  <1> QED BY <1>2, <1>3

(* A loop over the arguments of an aggregate function. *)
LEMMA PassedGrows ==
    ASSUME NEW do, NEW up, Under(do, up), NEW a \in Addr, NEW t \in Todo, t.k = "FOLD",
           t.todo # << >>, NEW c \in Sight
    PROVE  Grows(Passed(do, a, t, c), Passed(up, a, t, c))
  <1>1. /\ t.func \in Aggregates /\ t.acc \in AccType
        /\ t.args \in Seq(NumberNodes \cup RangeNodes) /\ t.todo \in Seq(Int \X Int)
    BY DEF Todo, AccType
  <1>2. CASE c.type = "NEEDS"
    BY <1>2, SightTypes, OutcomeTypes DEF Passed, Grows
  <1>3. CASE c.type # "NEEDS"
    <2>1. Met(t.func, t.acc, c) \in AccType
      BY <1>1, SightTypes, AccumulateType DEF Met
    <2>2. Tail(t.todo) \in Seq(Int \X Int)
      BY <1>1, HeadTail
    <2>3. FoldOf(t.func, Met(t.func, t.acc, c), t.args, Tail(t.todo)) \in Todo
      BY <1>1, <2>1, <2>2, TodoTypes
    <2> QED BY <1>3, <2>3, TodoGrows DEF Passed
  <1> QED BY <1>2, <1>3
LEMMA AtType ==
    ASSUME NEW see, Sighted(see), NEW p
    PROVE  At(see, p) \subseteq Sight
  BY DEF At, Sighted
LEMMA FoldGrows ==
    ASSUME NEW see, Sighted(see), NEW do, NEW up, Under(do, up), NEW a \in Addr,
           NEW t \in Todo, t.k = "FOLD"
    PROVE  Grows(OfFold(see, do, a, t), OfFold(see, up, a, t))
  <1>1. /\ t.func \in Aggregates /\ t.acc \in AccType
        /\ t.args \in Seq(NumberNodes \cup RangeNodes) /\ t.todo \in Seq(Int \X Int)
    BY DEF Todo, AccType
  <1>2. CASE t.todo # << >>
    <2> DEFINE X == At(see, Located(a[1], Head(t.todo)))
    <2>1. X \subseteq Sight
      BY AtType
    <2>2. \A d : OfFold(see, d, a, t) = UNION {Passed(d, a, t, c) : c \in X}
      BY <1>2 DEF OfFold
    <2> HIDE DEF X
    <2>3. \A c \in X : Grows(Passed(do, a, t, c), Passed(up, a, t, c))
      BY <1>2, <2>1, PassedGrows
    <2> QED BY <2>2, <2>3 DEF Grows
  <1>3. CASE t.todo = << >> /\ t.args = << >>
    <2>1. NumberNode(AggregateOf(t.func, t.acc)) \in Value
      BY <1>1, AggregateType, OutcomeTypes
    <2> QED BY <1>3, <2>1, ValueGrows DEF OfFold
  <1>4. CASE t.todo = << >> /\ t.args # << >>
    <2> DEFINE v == Head(t.args)
               x == FoldOf(t.func, Accumulate(t.func, t.acc, v.num), Tail(t.args), << >>)
               y == FoldOf(t.func, t.acc, Tail(t.args), RangeCells(Shape[a[1]], v))
    <2>1. v \in NumberNodes \cup RangeNodes /\ Tail(t.args) \in Seq(NumberNodes \cup RangeNodes)
      BY <1>1, <1>4, HeadTail
    <2>2. \A d : OfFold(see, d, a, t) = IF v.type = "NUMBER" THEN d[<<a, x>>] ELSE d[<<a, y>>]
      BY <1>4 DEF OfFold
    <2>3. << >> \in Seq(Int \X Int) /\ a[1] \in Doc
      BY EmptySeq, AddrType
    <2> HIDE DEF v
    <2>4. CASE v.type = "NUMBER"
      <3>1. v.num \in Num
        BY <2>1, <2>4 DEF NumberNodes, RangeNodes
      <3>2. x \in Todo
        BY <1>1, <2>1, <2>3, <3>1, AccumulateType, TodoTypes
      <3> HIDE DEF x
      <3> QED BY <2>2, <2>4, <3>2, TodoGrows
    <2>5. CASE v.type # "NUMBER"
      <3>1. v \in RangeNodes
        BY <2>1, <2>5 DEF NumberNodes
      <3>2. y \in Todo
        BY <1>1, <2>1, <2>3, <3>1, RangeCellsType, TodoTypes
      <3> HIDE DEF y
      <3> QED BY <2>2, <2>5, <3>2, TodoGrows
    <2> QED BY <2>4, <2>5
  <1> QED BY <1>2, <1>3, <1>4

(* A loop over the body rows of mask_sum. *)
LEMMA MaskParts ==
    ASSUME NEW do, NEW up, Under(do, up), NEW a \in Addr, NEW t \in Todo, t.k = "MASK"
    PROVE  /\ t.acc \in Num
           /\ \A x \in Num : Grows(NextRow(do, a, t, x), NextRow(up, a, t, x))
  <1>1. /\ t.test \in Int /\ t.proto \in NumberNodes \cup StringNodes /\ t.trgt \in Int
        /\ t.row \in Int /\ t.acc \in Num
    BY DEF Todo
  <1>2. ASSUME NEW x \in Num PROVE Grows(NextRow(do, a, t, x), NextRow(up, a, t, x))
    <2> DEFINE y == MaskOf(t.test, t.proto, t.trgt, t.row + 1, x)
    <2>1. t.row + 1 \in Int
      BY <1>1
    <2>2. y \in Todo
      BY <1>1, <2>1, TodoTypes
    <2>3. NextRow(do, a, t, x) = do[<<a, y>>] /\ NextRow(up, a, t, x) = up[<<a, y>>]
      BY DEF NextRow
    <2> HIDE DEF y
    <2> QED BY <2>2, <2>3, TodoGrows
  <1> QED BY <1>1, <1>2
LEMMA TargetGrows ==
    ASSUME NEW see, Sighted(see), NEW do, NEW up, Under(do, up), NEW a \in Addr,
           NEW t \in Todo, t.k = "MASK"
    PROVE  Grows(OfTarget(see, do, a, t), OfTarget(see, up, a, t))
  <1> DEFINE X == At(see, <<a[1], t.trgt, t.row>>)
  <1>1. X \subseteq Sight
    BY AtType
  <1>2. \A d : OfTarget(see, d, a, t) = UNION {Counted(d, a, t, c) : c \in X}
    BY DEF OfTarget
  <1> HIDE DEF X
  <1>3. ASSUME NEW c \in X PROVE Grows(Counted(do, a, t, c), Counted(up, a, t, c))
    <2>1. CASE c.type = "NEEDS"
      <3>1. c \in Outcome
        BY <1>1, <2>1, SightTypes, OutcomeTypes
      <3> QED BY <2>1, <3>1 DEF Counted, Grows
    <2>2. CASE c.type # "NEEDS"
      <3>1. Added(t.acc, c) \in Num
        BY <1>1, MaskParts, SightTypes, ArithType DEF Added
      <3> QED BY <2>2, <3>1, MaskParts DEF Counted
    <2> QED BY <2>1, <2>2
  <1> QED BY <1>2, <1>3 DEF Grows
LEMMA MaskGrows ==
    ASSUME NEW see, Sighted(see), NEW do, NEW up, Under(do, up), NEW a \in Addr,
           NEW t \in Todo, t.k = "MASK"
    PROVE  Grows(OfMask(see, do, a, t), OfMask(see, up, a, t))
  <1>1. CASE t.row >= LastMasked(a[1])
    <2>1. NumberNode(t.acc) \in Value
      BY MaskParts, OutcomeTypes
    <2>2. OfMask(see, do, a, t) = {NumberNode(t.acc)} /\ OfMask(see, up, a, t) = {NumberNode(t.acc)}
      BY <1>1 DEF OfMask
    <2> QED BY <2>1, <2>2, ValueGrows
  <1>2. CASE ~(t.row >= LastMasked(a[1]))
    <2> DEFINE X == At(see, <<a[1], t.test, t.row>>)
    <2>1. X \subseteq Sight
      BY AtType
    <2>2. \A d : OfMask(see, d, a, t) = UNION {Tested(see, d, a, t, c) : c \in X}
      BY <1>2 DEF OfMask
    <2> HIDE DEF X
    <2>3. ASSUME NEW c \in X PROVE Grows(Tested(see, do, a, t, c), Tested(see, up, a, t, c))
      <3>1. CASE c.type = "NEEDS"
        <4>1. c \in Outcome
          BY <2>1, <3>1, SightTypes, OutcomeTypes
        <4> QED BY <3>1, <4>1 DEF Tested, Grows
      <3>2. CASE c.type # "NEEDS" /\ CellsEq(t.proto, c)
        BY <3>2, TargetGrows DEF Tested
      <3>3. CASE c.type # "NEEDS" /\ ~CellsEq(t.proto, c)
        BY <3>3, MaskParts DEF Tested
      <3> QED BY <3>1, <3>2, <3>3
    <2> QED BY <2>2, <2>3 DEF Grows
  <1> QED BY <1>1, <1>2

(* A node. *)
LEMMA NodeGrows ==
    ASSUME NEW see, Sighted(see), NEW do, NEW up, Under(do, up), NEW a \in Addr,
           NEW n \in Node \cup XenoNodes
    PROVE  Grows(OfNode(see, do, a, n), OfNode(see, up, a, n))
  <1>1. CASE n.type \in {"NUMBER", "STRING"}
    <2>1. n \in Value
      BY <1>1, NodeParts
    <2> QED BY <1>1, <2>1, ValueGrows DEF OfNode
  <1>2. CASE n.type = "CELL"
    BY <1>2, ReadIntoGrows DEF OfNode, Grows
  <1>3. CASE n.type = "XENO"
    <2>1. ErrorNode("FILE") \in Value
      BY OutcomeTypes DEF ExprError
    <2> QED BY <1>3, <2>1, ValueGrows, ReadIntoGrows DEF OfNode, Grows
  <1>4. CASE n.type = "RANGE"
    <2>1. CanonicalRange(Shape[a[1]], n, a) \in Value
      BY <1>4, NodeParts, AddrType, RangeType
    <2> QED BY <1>4, <2>1, OutcomeTypes DEF OfNode, Grows
  <1>5. CASE n.type = "MACRO"
    <2> DEFINE B == MacroBodies(a[1], n.name)
    <2>1. B \subseteq Node
      BY <1>5, NodeParts, AddrType, MacroBodyType
    <2>2. \A d : OfNode(see, d, a, n) = IF B = {} THEN {ErrorNode("IMPL")}
                                        ELSE UNION {d[<<a, Of(m)>>] : m \in B}
      BY <1>5 DEF OfNode
    <2> HIDE DEF B
    <2>3. CASE B = {}
      <3>1. ErrorNode("IMPL") \in Value
        BY OutcomeTypes DEF ExprError
      <3> QED BY <2>2, <2>3, <3>1, ValueGrows
    <2>4. CASE B # {}
      <3>1. \A m \in B : Of(m) \in Todo
        BY <2>1, TodoTypes
      <3>2. \A m \in B : Grows(do[<<a, Of(m)>>], up[<<a, Of(m)>>])
        BY <3>1, TodoGrows
      <3> DEFINE U(d) == UNION {d[<<a, Of(m)>>] : m \in B}
      <3>3. U(do) \subseteq U(up) /\ U(up) \subseteq Outcome
        BY <3>2 DEF Grows
      <3>4. OfNode(see, do, a, n) = U(do) /\ OfNode(see, up, a, n) = U(up)
        BY <2>2, <2>4
      <3> HIDE DEF U
      <3> QED BY <3>3, <3>4 DEF Grows
    <2> QED BY <2>3, <2>4
  <1>6. CASE n.type = "TERM"
    <2>1. Of(n.child) \in Todo
      BY <1>6, NodeParts, TodoTypes
    <2>2. Grows(do[<<a, Of(n.child)>>], up[<<a, Of(n.child)>>])
      BY <2>1, TodoGrows
    <2> QED BY <1>6, <2>2, NegationGrows DEF OfNode
  <1>7. CASE n.type = "SUM"
    <2> DEFINE r == <<[op |-> "SET", node |-> n.first]>> \o n.rest
    <2>1. [op |-> "SET", node |-> n.first] \in [op : MathOp, node : Node]
      BY <1>7, NodeParts DEF MathOp
    <2>2. n.rest \in Seq([op : MathOp, node : Node])
      BY <1>7, NodeParts, OperandsType
    <2>3. r \in Seq([op : MathOp, node : Node]) /\ 0 \in Num
      <3>1. 0 \in Num
        BY DEF Num
      <3>2. r \in Seq([op : MathOp, node : Node])
        BY ONLY <2>1, <2>2, Cons
      <3> QED BY <3>1, <3>2
    <2>4. \A d : OfNode(see, d, a, n) = d[<<a, SumOf(0, r)>>]
      BY <1>7 DEF OfNode
    <2> HIDE DEF r
    <2>5. SumOf(0, r) \in Todo
      BY <2>3, TodoTypes
    <2> QED BY <2>4, <2>5, TodoGrows
  <1>8. CASE n.type = "FUNC"
    <2> DEFINE t == FuncOf(n.func, << >>, n.args)
    <2>1. << >> \in Seq(Value)
      BY EmptySeq
    <2>2. t \in Todo
      BY <1>8, <2>1, NodeParts, TodoTypes
    <2>3. \A d : OfNode(see, d, a, n) = d[<<a, t>>]
      BY <1>8 DEF OfNode
    <2> HIDE DEF t
    <2> QED BY <2>2, <2>3, TodoGrows
  <1>9. n.type \in {"NUMBER", "STRING", "CELL", "XENO", "RANGE", "MACRO", "TERM", "SUM", "FUNC"}
    BY NodeAssumption DEF IsNode, NumberNodes, StringNodes, CellNodes, RangeNodes, XenoNodes
  <1> QED BY <1>1, <1>2, <1>3, <1>4, <1>5, <1>6, <1>7, <1>8, <1>9
LEMMA MeansGrows ==
    ASSUME NEW see, Sighted(see), NEW do, NEW up, Under(do, up), NEW a \in Addr, NEW t \in Todo
    PROVE  Grows(Means(see, do, a, t), Means(see, up, a, t))
  <1>1. CASE t.k = "NODE"
    <2>1. t.node \in Node \cup XenoNodes
      BY <1>1 DEF Todo
    <2> QED BY <1>1, <2>1, NodeGrows DEF Means
  <1>2. CASE t.k = "SUM"
    BY <1>2, SumGrows DEF Means
  <1>3. CASE t.k = "FUNC"
    BY <1>3, FuncGrows DEF Means
  <1>4. CASE t.k = "FOLD"
    BY <1>4, FoldGrows DEF Means
  <1>5. CASE t.k = "MASK"
    BY <1>5, MaskGrows DEF Means
  <1>6. t.k \in {"NODE", "SUM", "FUNC", "FOLD", "MASK"}
    BY DEF Todo
  <1> QED BY <1>1, <1>2, <1>3, <1>4, <1>5, <1>6

(* The least family of sets that is closed solves the recursion, and what  *)
(* solves it is closed.                                                    *)
LEMMA OutcomesClosed ==
    ASSUME NEW see, Sighted(see)
    PROVE  Closed(see, Outcomes(see))
  <1> DEFINE S == Addr \X Todo
             M(R, p) == Means(see, R, p[1], p[2])
             Shut(R) == \A p \in S : M(R, p) \subseteq R[p]
             L == [p \in S |-> {b \in Outcome :
                                   \A R \in [S -> SUBSET Outcome] : Shut(R) => b \in R[p]}]
             K == [p \in S |-> M(L, p)]
  <1>1. \A p \in S : L[p] \subseteq Outcome
    BY Zenon
  <1>2. \A R \in [S -> SUBSET Outcome], p \in S : Shut(R) => L[p] \subseteq R[p]
    BY Zenon
  <1>3. \A p \in S, b \in Outcome :
           (\A R \in [S -> SUBSET Outcome] : Shut(R) => b \in R[p]) => b \in L[p]
    BY Zenon
  <1>4. \A p \in S : p[1] \in Addr /\ p[2] \in Todo
    OBVIOUS
  <1>5. \A a \in Addr, t \in Todo : <<a, t>> \in S /\ <<a, t>>[1] = a /\ <<a, t>>[2] = t
    OBVIOUS
  <1> HIDE DEF S, L
  <1>6. ASSUME NEW X, NEW Y,
               \A p \in S : X[p] \subseteq Y[p], \A p \in S : Y[p] \subseteq Outcome
        PROVE  \A p \in S : M(X, p) \subseteq M(Y, p) /\ M(Y, p) \subseteq Outcome
    <2>1. Under(X, Y)
      BY <1>5, <1>6 DEF Under
    <2>2. \A p \in S : Grows(M(X, p), M(Y, p))
      BY <1>4, <2>1, MeansGrows
    <2> HIDE DEF M
    <2> QED BY <2>2 DEF Grows
  <1> HIDE DEF M
  <1>7. \A R \in [S -> SUBSET Outcome], p \in S : R[p] \subseteq Outcome
    OBVIOUS
  <1>8. ASSUME NEW p \in S
        PROVE  M(L, p) \subseteq L[p]
    <2> SUFFICES ASSUME NEW b \in M(L, p) PROVE b \in L[p]
      OBVIOUS
    <2>1. b \in Outcome
      BY <1>1, <1>6
    <2>2. ASSUME NEW R \in [S -> SUBSET Outcome], Shut(R)
          PROVE  b \in R[p]
      <3>1. \A q \in S : L[q] \subseteq R[q] /\ R[q] \subseteq Outcome
        BY <1>2, <1>7, <2>2
      <3>2. M(L, p) \subseteq M(R, p)
        BY <1>6, <3>1
      <3>3. M(R, p) \subseteq R[p]
        BY <2>2
      <3> QED BY <3>2, <3>3
    <2> HIDE DEF Shut
    <2> QED BY <1>3, <2>1, <2>2
  <1>9. DOMAIN K = S /\ \A p \in S : K[p] = M(L, p)
    OBVIOUS
  <1>10. K \in [S -> SUBSET Outcome]
    <2>1. \A p \in S : M(L, p) \subseteq Outcome
      BY <1>1, <1>6
    <2> QED BY <2>1
  <1> HIDE DEF K
  <1>11. Shut(K)
    <2>1. \A p \in S : K[p] \subseteq L[p] /\ L[p] \subseteq Outcome
      BY <1>1, <1>8, <1>9
    <2>2. \A p \in S : M(K, p) \subseteq M(L, p)
      BY <1>6, <2>1
    <2> QED BY <1>9, <2>2
  <1>12. \A p \in S : L[p] = M(L, p)
    <2>1. \A p \in S : L[p] \subseteq K[p]
      <3> HIDE DEF Shut
      <3> QED BY <1>2, <1>10, <1>11
    <2> QED BY <1>8, <1>9, <2>1
  <1>13. L = [p \in S |-> M(L, p)]
    <2>1. DOMAIN L = S /\ L = [p \in DOMAIN L |-> L[p]]
      BY Zenon DEF L
    <2> QED BY <1>12, <2>1
  <1> DEFINE Solves(f) == f = [p \in S |-> M(f, p)]
  <1>14. Outcomes(see) = CHOOSE f : Solves(f)
    BY Zenon DEF Outcomes, S, M
  <1>15. Solves(Outcomes(see))
    <2>1. \E f : Solves(f)
      BY <1>13
    <2> HIDE DEF Solves
    <2> QED BY <1>14, <2>1
  <1>16. ASSUME NEW a \in Addr, NEW t \in Todo
         PROVE  Means(see, Outcomes(see), a, t) = Outcomes(see)[<<a, t>>]
    <2>1. Outcomes(see)[<<a, t>>] = M(Outcomes(see), <<a, t>>)
      BY <1>5, <1>15
    <2>2. M(Outcomes(see), <<a, t>>) = Means(see, Outcomes(see), a, t)
      BY Zenon DEF M
    <2> QED BY <2>1, <2>2
  <1> QED BY <1>16 DEF Closed

-----------------------------------------------------------------------------
(* The cells of the open calls need one another.                           *)

(* EvaluateCell opens no cell whose expression did not parse. *)
ParsedInv == \A i \in 1..Len(calls) : files[calls[i].at].expr # Unparsable
LEMMA ParsedKeeps == IInv /\ ParsedInv /\ [Next]_vars => ParsedInv'
  <1> SUFFICES ASSUME IInv, ParsedInv, [Next]_vars PROVE ParsedInv'
    OBVIOUS
  <1>1. UNCHANGED files
    BY FilesStay
  <1>2. calls \in Seq(Call) /\ Len(calls) \in Nat
    BY Facts, LenProperties
  <1>3. CASE UNCHANGED calls
    BY <1>1, <1>3 DEF ParsedInv
  <1>4. CASE EvaluateEnter
    <2> DEFINE a == ctl.at
               new == [at |-> a, work |-> << >>]
    <2>1. a \in Addr /\ cell[a].type = "EXPR" /\ cell[a].expr # Unparsable
          /\ calls' = Append(calls, new)
      BY <1>4 DEF EvaluateEnter, EvaluatePending, CellExists
    <2>2. cell[a] = files[a]
      BY <1>4, <2>1, Facts DEF OnlyLoaded, EvaluateEnter, EvaluatePending, In
    <2>3. new.at = a /\ new \in Call
      BY <2>1, EmptySeq DEF Call
    <2> HIDE DEF a, new
    <2>4. /\ Len(calls') = Len(calls) + 1 /\ calls'[Len(calls) + 1] = new
          /\ \A i \in 1..Len(calls) : calls'[i] = calls[i]
      BY <1>2, <2>1, <2>3, AppendProperties
    <2> SUFFICES ASSUME NEW i \in 1..Len(calls')
                 PROVE  files[calls'[i].at].expr # Unparsable
      BY <1>1 DEF ParsedInv
    <2>5. i \in 1..Len(calls) \/ i = Len(calls) + 1
      BY <1>2, <2>4
    <2> QED BY <2>1, <2>2, <2>3, <2>4, <2>5 DEF ParsedInv
  <1>5. CASE EvaluateStore
    <2>1. calls' = SubSeq(calls, 1, Len(calls) - 1) /\ ctl.mode = "VALUE"
      BY <1>5 DEF EvaluateStore, In
    <2>2. Len(calls) >= 1
      BY <2>1, InExpression, Facts, TopType
    <2>3. /\ Len(calls') = Len(calls) - 1
          /\ \A i \in 1..(Len(calls) - 1) : calls'[i] = calls[i]
      BY <1>2, <2>1, <2>2, DropLast
    <2> QED BY <1>1, <1>2, <2>3 DEF ParsedInv
  <1>6. CASE ReduceStep \/ FuncStep \/ LoopStep
    <2>1. calls # << >> /\ (UNCHANGED calls \/ \E w : SetWork(w))
      BY <1>6, InnerStep
    <2>2. calls' \in Seq(Call)
      BY StepKeeps, Facts DEF IInv, TypeOK
    <2>3. Chain
      BY <1>2, <2>1, <2>2, WorkOfSet DEF Chain
    <2>4. Len(calls') = Len(calls) /\ \A i \in 1..Len(calls) : calls'[i].at = calls[i].at
      BY <1>2, <2>1, <2>3, ChainKeeps
    <2> QED BY <1>1, <2>4 DEF ParsedInv
  <1>7. CASE MainStep
    BY <1>3, <1>7 DEF MainStep, MainSkips, MainOpens, ScanCell, MainPrints, Exit
  <1>8. CASE EvaluateMissing \/ EvaluateFinal \/ EvaluateCycle \/ EvaluateUnparsable \/ ScanResumes
    BY <1>3, <1>8 DEF EvaluateMissing, EvaluateFinal, EvaluateCycle, EvaluateUnparsable,
                      ScanResumes, Stop
  <1>9. CASE Rest \/ UNCHANGED vars
    BY <1>3, <1>9 DEF Rest, vars
  <1> QED BY <1>4, <1>5, <1>6, <1>7, <1>8, <1>9 DEF Next, Step, CellStep

(* The cells of the documents, loaded or not. *)
LEMMA SheetTypes ==
    ASSUME IInv
    PROVE  /\ SheetCells \in [Addr -> Cell]
           /\ \A a \in Addr : a[1] \in loaded => SheetCells[a] = cell[a]
  <1>1. files \in [Addr -> Cell] /\ cell \in [Addr -> Cell]
    BY Facts DEF TypeOK
  <1> QED BY <1>1 DEF SheetCells
LEMMA OpenCell ==
    ASSUME IInv, NEW i \in 1..Len(calls)
    PROVE  /\ calls[i].at \in PendingIn(SheetCells)
           /\ SheetCells[calls[i].at] = files[calls[i].at]
  <1>1. calls[i].at \in Addr /\ calls[i].at[1] \in loaded
    BY Facts, CallAts DEF OnlyLoaded
  <1>2. cell[calls[i].at] = files[calls[i].at] /\ cell[calls[i].at].type = "EXPR"
    BY Facts DEF CallsInv
  <1> QED BY <1>1, <1>2, SheetTypes DEF PendingIn

(* What is seen of the cells is well typed. *)
LEMMA SeenTypes ==
    ASSUME NEW c \in [Addr -> Cell], NEW a
    PROVE  Sighted(Look(c)) /\ Sighted(Seen(c, a))
  <1>1. ASSUME NEW b \in Addr PROVE Look(c)[b] \subseteq Sight
    <2>1. c[b] \in Cell /\ Needs(b) \in Needed
      BY DEF Needs, Needed
    <2>2. b \notin PendingIn(c) => c[b] \in FinalCell
      BY <2>1, CellTypes DEF PendingIn
    <2>3. Look(c)[b] = IF b \in PendingIn(c) THEN {Needs(b), Circular} ELSE {c[b]}
      BY DEF Look
    <2> QED BY <2>1, <2>2, <2>3 DEF Sight
  <1>2. ASSUME NEW b \in Addr PROVE Seen(c, a)[b] \subseteq Sight
    <2>1. c[b] \in Cell
      OBVIOUS
    <2>2. b \notin PendingIn(c) => c[b] \in FinalCell
      BY <2>1, CellTypes DEF PendingIn
    <2>3. b \notin PendingIn(c) => Seen(c, a)[b] = {c[b]}
      BY DEF Seen
    <2>4. b \in PendingIn(c) => Seen(c, a)[b] \in {{Circular}, {}}
      BY DEF Seen
    <2> QED BY <2>2, <2>3, <2>4 DEF Sight
  <1> QED BY <1>1, <1>2 DEF Sighted

(* A call sees all of what may be asked for. *)
LEMMA LookSees ==
    ASSUME IInv, NEW n \in 1..Len(calls)
    PROVE  Sees(n, Look(SheetCells))
  <1> DEFINE c == SheetCells
  <1>1. \A b \in Addr : Look(c)[b] = IF b \in PendingIn(c) THEN {Needs(b), Circular} ELSE {c[b]}
    BY DEF Look
  <1>2. ASSUME NEW b \in Addr, b[1] \in loaded, cell[b].type # "EXPR"
        PROVE  cell[b] \in Look(c)[b]
    <2>1. c[b] = cell[b]
      BY <1>2, SheetTypes
    <2>2. b \notin PendingIn(c)
      BY <1>2, <2>1 DEF PendingIn
    <2> QED BY <1>1, <2>1, <2>2
  <1>3. ASSUME NEW i \in 1..n PROVE Circular \in Look(c)[calls[i].at]
    <2>1. i \in 1..Len(calls)
      BY Facts, LenProperties
    <2>2. calls[i].at \in PendingIn(c) /\ calls[i].at \in Addr
      BY <2>1, OpenCell DEF PendingIn
    <2> QED BY <1>1, <2>2
  <1> HIDE DEF c
  <1> QED BY <1>2, <1>3 DEF Sees, c

(* What a call is about to denote, if it is asked for what it needs: to    *)
(* need the cell that it waits for.                                        *)
LEMMA AheadNeeds ==
    ASSUME NEW do, NEW see, Closed(see, do), NEW a \in Addr, NEW f \in Frame, NEW c,
           MaskBounds(a, f, c), c.mode = "EVALUATE", NEW b \in Addr, Needs(b) \in see[b],
           \/ f.k = "INTO" /\ b = f.at
           \/ f.k = "FOLD" /\ f.todo # << >> /\ b = Located(a[1], Head(f.todo))
           \/ f.k = "MASK" /\ b = <<a[1], IF f.phase = "TEST" THEN f.test ELSE f.trgt, f.row>>
    PROVE  Needs(b) \in Ahead(see, do, a, f)
  <1>1. Needs(b).type = "NEEDS"
    BY DEF Needs
  <1>2. Needs(b) \in At(see, b)
    BY DEF At
  <1>3. CASE f.k = "INTO" /\ b = f.at
    <2>1. b[2] \in Nat /\ b[3] \in Nat
      BY AddrType
    <2>2. ReadInto(see, b) = {Read(x) : x \in see[b]}
      BY <2>1 DEF ReadInto
    <2>3. Read(Needs(b)) = Needs(b)
      BY <1>1 DEF Read
    <2>4. Ahead(see, do, a, f) = ReadInto(see, b)
      BY <1>3 DEF Ahead
    <2> QED BY <2>2, <2>3, <2>4
  <1>4. CASE f.k = "FOLD" /\ f.todo # << >> /\ b = Located(a[1], Head(f.todo))
    <2> DEFINE t == FoldOf(f.func, f.acc, f.args, f.todo)
    <2>1. f \in FoldFrame
      BY <1>4, FrameOf
    <2>2. Passed(do, a, t, Needs(b)) \subseteq Ahead(see, do, a, f)
      BY <1>2, <1>4, <2>1, FoldGoes
    <2>3. Passed(do, a, t, Needs(b)) = {Needs(b)}
      BY <1>1 DEF Passed
    <2> QED BY <2>2, <2>3
  <1>5. CASE f.k = "MASK" /\ f.phase = "TEST" /\ b = <<a[1], f.test, f.row>>
    <2>1. f \in MaskFrame
      BY <1>5, FrameOf
    <2>2. f.row \in Int /\ f.last \in Int /\ f.last = LastMasked(a[1]) /\ f.row < f.last
      BY <1>5, <2>1 DEF MaskBounds, MaskFrame
    <2>3. ~(f.row >= LastMasked(a[1]))
      BY <2>2
    <2>4. Tested(see, do, a, f, Needs(b)) \subseteq Ahead(see, do, a, f)
      BY <1>2, <1>5, <2>1, <2>3, MaskGoes
    <2>5. Tested(see, do, a, f, Needs(b)) = {Needs(b)}
      BY <1>1 DEF Tested
    <2> QED BY <2>4, <2>5
  <1>6. CASE f.k = "MASK" /\ f.phase # "TEST" /\ b = <<a[1], f.trgt, f.row>>
    <2>1. Ahead(see, do, a, f) = OfTarget(see, do, a, f)
      BY <1>6 DEF Ahead
    <2>2. Counted(do, a, f, Needs(b)) = {Needs(b)}
      BY <1>1 DEF Counted
    <2> QED BY <1>2, <1>6, <2>1, <2>2 DEF OfTarget
  <1> QED BY <1>3, <1>4, <1>5, <1>6
LEMMA NeedsNext ==
    ASSUME IInv, DInv, ParsedInv, ctl.mode # "ABORT", NEW j \in 1..(Len(calls) - 1)
    PROVE  calls[j + 1].at \in Successors(SheetCells, calls[j].at)
  <1> DEFINE see == Look(SheetCells)
             do  == Outcomes(see)
             a   == calls[j].at
             b   == calls[j + 1].at
             w   == calls[j].work
             c   == NextOf(j)
  <1>1. /\ Len(calls) \in Nat /\ j \in 1..Len(calls) /\ j + 1 \in 1..Len(calls) /\ j # Len(calls)
        /\ calls \in Seq(Call)
    BY Facts, LenProperties
  <1>2. /\ calls[j] \in Call /\ a \in Addr /\ b \in Addr /\ b \in PendingIn(SheetCells)
        /\ a \in PendingIn(SheetCells) /\ SheetCells[a] = files[a] /\ files[a].expr # Unparsable
    BY <1>1, CallAts, OpenCell DEF ParsedInv
  <1>3. Waiting(calls[j]) /\ b = Awaited(calls[j])
    BY <1>1, Facts DEF ReadsFinal
  <1>4. w \in Seq(Frame) /\ w # << >>
    BY <1>2, <1>3 DEF Call, Waiting
  <1>5. c = Plain("EVALUATE") /\ c.mode = "EVALUATE" /\ ~Busy(c)
    BY <1>1 DEF NextOf, Plain, Busy
  <1>6. Sees(j, see)
    BY <1>1, LookSees
  <1>7. Closed(see, do)
    BY SheetTypes, SeenTypes, OutcomesClosed
  <1>8. Needs(b) \in see[b]
    BY <1>2 DEF Look
  <1>9. Head(w) \in Frame /\ Tail(w) \in Seq(Frame)
    BY <1>4, HeadTail
  <1>10. \/ Head(w).k = "INTO" /\ b = Head(w).at
         \/ Head(w).k = "FOLD" /\ Head(w).todo # << >> /\ b = Located(a[1], Head(Head(w).todo))
         \/ Head(w).k = "MASK"
            /\ b = <<a[1], IF Head(w).phase = "TEST" THEN Head(w).test ELSE Head(w).trgt,
                     Head(w).row>>
    BY <1>3 DEF Waiting, Awaited
  <1> HIDE DEF see, do, a, b, w, c
  <1>11. Pursues(see, do, a, w, c)
    BY <1>1, <1>6, <1>7 DEF DInv, a, w, c
  <1>12. MaskBounds(a, Head(w), c) /\ Leads(do, a, Tail(w), Ahead(see, do, a, Head(w)),
                                            do[<<a, Of(files[a].expr)>>])
    BY <1>5, <1>11 DEF Pursues, Left, Ends
  <1>13. Needs(b) \in Ahead(see, do, a, Head(w))
    BY <1>2, <1>5, <1>7, <1>8, <1>9, <1>10, <1>12, AheadNeeds
  <1>14. Needs(b) \in do[<<a, Of(files[a].expr)>>]
    BY <1>9, <1>12, <1>13, LeadsToNeeds
  <1>15. b \in Successors(SheetCells, a)
    BY <1>2, <1>14 DEF Successors, do, see
  <1> QED BY <1>15 DEF a, b

(* The cell of every open call needs the innermost one. *)
LEMMA AllLead ==
    ASSUME IInv, DInv, ParsedInv, ctl.mode # "ABORT", NEW j \in 1..Len(calls)
    PROVE  LeadsTo(SheetCells, calls[j].at, Here)
  <1> DEFINE n == Len(calls)
  <1>1. n \in Nat /\ n \in 1..n /\ Here = calls[n].at
    BY Facts, LenProperties DEF Here, Top
  <1> SUFFICES ASSUME NEW S \in SUBSET PendingIn(SheetCells), calls[j].at \in S,
                      \A x \in S : Successors(SheetCells, x) \subseteq S
               PROVE  calls[n].at \in S
    BY <1>1 DEF LeadsTo
  <1> DEFINE Out == {k \in j..n : calls[k].at \notin S}
  <1>2. Out = {}
    <2> SUFFICES ASSUME Out # {} PROVE FALSE
      OBVIOUS
    <2>1. Out \in SUBSET Nat
      BY <1>1
    <2>2. PICK m \in Out : \A k \in Out : m <= k
      BY <2>1, LeastNumber
    <2>3. m \in j..n /\ calls[m].at \notin S
      OBVIOUS
    <2>4. m # j
      BY <2>3
    <2> DEFINE i == m - 1
    <2>5. i \in j..n /\ i \in 1..(n - 1) /\ i + 1 = m /\ ~(m <= i)
      BY <1>1, <2>3, <2>4
    <2> HIDE DEF i
    <2>6. calls[i].at \in S
      BY <2>2, <2>5
    <2>7. calls[i + 1].at \in Successors(SheetCells, calls[i].at)
      BY <2>5, NeedsNext
    <2> QED BY <2>3, <2>5, <2>6, <2>7
  <1>3. n \in j..n
    BY <1>1
  <1> QED BY <1>2, <1>3

(* What the innermost call may use is what Denotation says. *)
LEMMA SeenSees ==
    ASSUME IInv, DInv, ParsedInv, ctl.mode # "ABORT"
    PROVE  Sees(Len(calls), Seen(SheetCells, Here))
  <1> DEFINE c == SheetCells
             s == Seen(c, Here)
  <1>1. \A b \in Addr : /\ b \notin PendingIn(c) => s[b] = {c[b]}
                        /\ b \in PendingIn(c) /\ LeadsTo(c, b, Here) => s[b] = {Circular}
    BY DEF Seen
  <1>2. ASSUME NEW b \in Addr, b[1] \in loaded, cell[b].type # "EXPR"
        PROVE  cell[b] \in s[b]
    <2>1. c[b] = cell[b]
      BY <1>2, SheetTypes
    <2>2. b \notin PendingIn(c)
      BY <1>2, <2>1 DEF PendingIn
    <2> HIDE DEF s, c
    <2> QED BY <1>1, <2>1, <2>2
  <1>3. ASSUME NEW i \in 1..Len(calls) PROVE Circular \in s[calls[i].at]
    <2>1. calls[i].at \in PendingIn(c) /\ calls[i].at \in Addr
      BY OpenCell DEF PendingIn
    <2>2. LeadsTo(c, calls[i].at, Here)
      BY AllLead
    <2> HIDE DEF s, c
    <2> QED BY <1>1, <2>1, <2>2
  <1> HIDE DEF s
  <1> QED BY <1>2, <1>3 DEF Sees, s

-----------------------------------------------------------------------------
(* The evaluator implements Dataflow.                                      *)

(* The invariant of the refinement. *)
RefInv == ReturnedInv /\ DInv /\ ParsedInv
LEMMA RefInvariance == Spec => [](IInv /\ RefInv)
  <1>1. Init => IInv /\ RefInv
    <2> SUFFICES ASSUME Init PROVE ReturnedInv /\ ParsedInv
      BY InitKeeps, DStarts DEF RefInv
    <2>1. calls = << >> /\ Len(calls) = 0
      BY DEF Init
    <2> QED BY <2>1 DEF ReturnedInv, ParsedInv
  <1>2. IInv /\ RefInv /\ [Next]_vars => (IInv /\ RefInv)'
    BY StepKeeps, ReturnedKeeps, DKeeps, ParsedKeeps DEF RefInv
  <1> QED BY <1>1, <1>2, PTL DEF Spec

(* EvaluateCell stores what the expression of its cell denotes. *)
LEMMA StoreDenotes ==
    ASSUME IInv, RefInv, EvaluateStore
    PROVE  /\ Here \in Addr /\ Here[1] \in loaded
           /\ SetCellFromNode(ctl.value) \in Denoted(SheetCells, Here)
  <1> DEFINE c   == SheetCells
             see == Seen(c, Here)
             do  == Outcomes(see)
             t   == <<Here, Of(files[Here].expr)>>
  <1>1. ctl.mode = "VALUE" /\ ctl.mode # "ABORT" /\ Work = << >>
    BY DEF EvaluateStore, In
  <1>2. /\ Len(calls) \in 1..Len(calls)
        /\ Here = calls[Len(calls)].at /\ Work = calls[Len(calls)].work
    <2>1. calls # << >>
      BY <1>1, InExpression
    <2> QED BY <2>1, Facts, TopType DEF Here, Work, Top
  <1>3. Here \in Addr /\ Here[1] \in loaded
    BY <1>2, Facts, CallAts DEF OnlyLoaded
  <1>4. Here \in PendingIn(c) /\ c[Here] = files[Here] /\ files[Here].expr # Unparsable
    BY <1>2, OpenCell DEF RefInv, ParsedInv
  <1>5. Sees(Len(calls), see)
    BY <1>1, SeenSees DEF RefInv
  <1>6. Closed(see, do)
    BY SheetTypes, SeenTypes, OutcomesClosed
  <1> HIDE DEF see, do, c
  <1>7. Pursues(see, do, Here, << >>, ctl)
    BY <1>1, <1>2, <1>5, <1>6 DEF RefInv, DInv, NextOf
  <1>8. Busy(ctl) /\ Ends(see, do, Here, << >>, ctl) = {ctl.value}
    BY <1>1 DEF Busy, Ends
  <1>9. ctl.value \in do[t]
    BY <1>7, <1>8, LeadsNowhere DEF Pursues, Left
  <1>10. SetCellFromNode(ctl.value) \in Denoted(c, Here)
    BY <1>4, <1>9 DEF Denoted, do, see
  <1> QED BY <1>3, <1>10 DEF c

(* EvaluateCell stores an error where the expression does not parse. *)
LEMMA UnparsableDenotes ==
    ASSUME IInv, EvaluateUnparsable
    PROVE  /\ ctl.at \in Addr /\ ctl.at[1] \in loaded
           /\ ErrorNode("PARSE") \in Denoted(SheetCells, ctl.at)
  <1>1. /\ ctl.at \in Addr /\ ctl.mode = "EVALUATE"
        /\ cell[ctl.at].type = "EXPR" /\ cell[ctl.at].expr = Unparsable
    BY DEF EvaluateUnparsable, EvaluatePending, CellExists, In
  <1>2. ctl.at[1] \in loaded
    BY <1>1, Facts DEF OnlyLoaded, In
  <1> QED BY <1>1, <1>2, SheetTypes DEF Denoted, PendingIn

(* A cell of a loaded document gets a value. *)
LEMMA Finishes ==
    ASSUME IInv, UNCHANGED <<files, loaded>>, NEW a \in Addr, a[1] \in loaded,
           NEW v \in Denoted(SheetCells, a), cell' = [cell EXCEPT ![a] = v]
    PROVE  DF!Finish(a)
  <1>1. cell \in [Addr -> Cell]
    BY Facts
  <1>2. \A b \in Addr : cell'[b] = IF b = a THEN v ELSE cell[b]
    BY <1>1
  <1>3. SheetCells' = [SheetCells EXCEPT ![a] = v]
    BY <1>2 DEF SheetCells
  <1> QED BY <1>3 DEF DF!Finish

(* MakeDocument reads the cells of the file, which are what they were. *)
LEMMA LoadsNothingNew ==
    ASSUME UNCHANGED files, NEW d, MakeDocument(d)
    PROVE  UNCHANGED SheetCells
  <1>1. \A a \in Addr :
           /\ a[1] \in loaded' <=> a[1] \in loaded \/ a[1] = d
           /\ cell'[a] = IF a[1] = d /\ d \notin loaded THEN files[a] ELSE cell[a]
    BY DEF MakeDocument
  <1>2. \A a \in Addr : (IF a[1] \in loaded' THEN cell'[a] ELSE files'[a])
                        = (IF a[1] \in loaded THEN cell[a] ELSE files[a])
    BY <1>1
  <1> QED BY <1>2 DEF SheetCells

(* Every step is a step of Dataflow, or changes no value. *)
LEMMA StepRefines == IInv /\ RefInv /\ [Next]_vars => [DF!Next]_SheetCells
  <1> SUFFICES ASSUME IInv, RefInv, [Next]_vars
               PROVE  DF!Next \/ UNCHANGED SheetCells
    OBVIOUS
  <1>1. UNCHANGED files
    BY FilesStay
  <1>2. CASE UNCHANGED <<cell, loaded>>
    BY <1>1, <1>2 DEF SheetCells
  <1>3. CASE \E d : MakeDocument(d)
    BY <1>1, <1>3, LoadsNothingNew
  <1>4. CASE EvaluateUnparsable
    <2>1. cell' = [cell EXCEPT ![ctl.at] = ErrorNode("PARSE")] /\ UNCHANGED loaded
      BY <1>4 DEF EvaluateUnparsable
    <2>2. DF!Finish(ctl.at) /\ ctl.at \in Addr
      BY <1>1, <1>4, <2>1, UnparsableDenotes, Finishes
    <2> QED BY <2>2 DEF DF!Next
  <1>5. CASE EvaluateStore
    <2>1. cell' = [cell EXCEPT ![Here] = SetCellFromNode(ctl.value)] /\ UNCHANGED loaded
      BY <1>5 DEF EvaluateStore
    <2>2. DF!Finish(Here) /\ Here \in Addr
      BY <1>1, <1>5, <2>1, StoreDenotes, Finishes
    <2> QED BY <2>2 DEF DF!Next
  <1>6. Next \/ UNCHANGED <<cell, loaded>>
    BY DEF vars
  <1> QED BY <1>2, <1>3, <1>4, <1>5, <1>6, Writers

(* EvaluateCell replaces a cell by what its expression denotes over cells  *)
(* that are final, in whatever order the cells are asked for and documents *)
(* are loaded: ReduceNode's recursion, the loops over ranges and the State *)
(* of the cells leave no other trace than which circular references were   *)
(* read.                                                                   *)
THEOREM EvaluatorRefinesDataflow == Spec => ImplementsDataflow
  <1>1. Init => DF!Init
    BY InitKeeps, SheetTypes DEF DF!Init
  <1>2. IInv /\ RefInv /\ [Next]_vars => [DF!Next]_SheetCells
    BY StepRefines
  <1> QED BY <1>1, <1>2, RefInvariance, PTL DEF Spec, ImplementsDataflow, DF!Spec
=============================================================================
