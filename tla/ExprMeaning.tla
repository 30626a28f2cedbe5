----------------------------- MODULE ExprMeaning -----------------------------
(***************************************************************************)
(* What an expression is and what its tree is, told from its words without *)
(* reading them in order: the grammar as a set of texts, the tree by the   *)
(* operators that bind least.  An expression is parsed in one step.        *)
(***************************************************************************)
EXTENDS ExprParser, FiniteSets

CONSTANTS
    Words, MaxLen,  \* the texts of cells and macros: up to so many words,
    Longer          \* and some longer ones

ASSUME MaxLen \in Nat

VARIABLE result     \* what ParseExpr made of the text

vars == <<text, result>>
NotParsed == Parsed(Null, Start)

Init ==
    /\ \/ \E n \in 0..MaxLen : text \in [1..n -> Words]
       \/ text \in Longer
    /\ result = NotParsed
Parse == result = NotParsed /\ result' = ParseExpr /\ UNCHANGED text
Done  == result # NotParsed /\ UNCHANGED vars
Spec  == Init /\ [][Parse \/ Done]_vars

Stopped  == result.lx.stopped # "NO"
Accepted == ~Stopped /\ result.node # Null

-----------------------------------------------------------------------------
(* The grammar at main.c:741, of tokens.  ParseTerm also takes a string    *)
(* for a term, ParseXeno a reference to a file without a cell; only some   *)
(* tokens begin the argument of a function without parentheses (Sum? in    *)
(* the grammar, main.c:1003 in the code): a string does not.               *)
Tokens == [i \in 1..Len(text) |-> [type |-> TokenType(text[i]), word |-> text[i]]]
Types(s) == [i \in 1..Len(s) |-> s[i].type]
Mid(s)   == SubSeq(s, 2, Len(s) - 1)

BeginsBare  == {"CELL", "XENO", "NUMBER", "FUNC", "MACRO"}
InParens(s) == Len(s) > 2 /\ s[1].type = "(" /\ s[Len(s)].type = ")"
Is[rule \in {"LIST", "SUM", "PROD", "PRETERM", "TERM"}, s \in Seq(TokenRec)] ==
    LET splits(ops, left, right) ==
            \E k \in 2..(Len(s) - 1) :
                /\ s[k].type \in ops
                /\ Is[left, SubSeq(s, 1, k - 1)] /\ Is[right, SubSeq(s, k + 1, Len(s))]
    IN  CASE rule = "LIST" -> Is["SUM", s] \/ splits({";"}, "LIST", "SUM")
          [] rule = "SUM"  -> Is["PROD", s] \/ splits({"+", "-"}, "SUM", "PROD")
          [] rule = "PROD" -> Is["PRETERM", s] \/ splits({"*", "/"}, "PROD", "PRETERM")
          [] rule = "PRETERM" ->
                Is["TERM", s] \/ (Len(s) > 1 /\ s[1].type = "-" /\ Is["TERM", Tail(s)])
          [] rule = "TERM" ->
                \/ Types(s) \in
                    {<<"NUMBER">>, <<"STRING">>, <<"MACRO">>, <<"CELL">>, <<"CELL", ":">>,
                     <<"CELL", ":", "CELL">>, <<"XENO", "CELL", "}">>, <<"XENO", "}">>}
                \/ InParens(s) /\ Is["SUM", Mid(s)]
                \/ /\ s # << >> /\ s[1].type = "FUNC"
                   /\ \/ Len(s) = 1 \/ (s[2].type \in BeginsBare /\ Is["SUM", Tail(s)])
                      \/ InParens(Tail(s)) /\ Is["LIST", Mid(Tail(s))]

-----------------------------------------------------------------------------
(* The tree of a text in which every function has its arguments in         *)
(* parentheses: it is cut at the binary operators that bind least.         *)
EndsOperand == {"NUMBER", "STRING", "MACRO", "CELL", ":", ")", "}"}
Depth(s, i) == Cardinality({j \in 1..i : s[j].type = "("})
             - Cardinality({j \in 1..i : s[j].type = ")"})
Cuts(s, ops) == {i \in 2..Len(s) : /\ s[i].type \in ops /\ s[i - 1].type \in EndsOperand
                                   /\ Depth(s, i) = 0}
Nth(S, k) == CHOOSE i \in S : Cardinality({j \in S : j <= i}) = k
Binding == [LIST |-> {";"}, SUM |-> {"+", "-"}, PROD |-> {"*", "/"}]
Below   == [LIST |-> "SUM", SUM |-> "PROD", PROD |-> "TERM"]

Tree[level \in {"LIST", "SUM", "PROD", "TERM"}, s \in Seq(TokenRec)] ==
    IF level = "TERM"
    THEN CASE s[1].type = "-"    -> <<"TERM", Tree["TERM", Tail(s)]>>
           [] s[1].type = "("    -> Tree["SUM", Mid(s)]
           [] s[1].type = "FUNC" -> <<"FUNC", s[1].word, Tree["LIST", Mid(Tail(s))]>>
           [] s[1].type = "XENO" ->
                <<"XENO", s[1].word, IF Len(s) = 2 THEN "SUMMARY" ELSE s[2].word>>
           [] Len(s) > 1         -> <<"RANGE", s[1].word, s[IF Len(s) = 2 THEN 1 ELSE 3].word>>
           [] OTHER              -> <<s[1].type, s[1].word>>
    ELSE LET cuts    == Cuts(s, Binding[level])
             n       == Cardinality(cuts)
             part(k) == SubSeq(s, IF k = 0 THEN 1 ELSE Nth(cuts, k) + 1,
                                  IF k = n THEN Len(s) ELSE Nth(cuts, k + 1) - 1)
             tree(k) == Tree[Below[level], part(k)]
         IN  IF n = 0 THEN Tree[Below[level], s]
             ELSE <<level, tree(0), [k \in 1..n |-> <<s[Nth(cuts, k)].type, tree(k)>>]>>

-----------------------------------------------------------------------------
Functions == {i \in DOMAIN text : TokenType(text[i]) = "FUNC"}

(* Every expression of the grammar, as Is has it, is accepted by ParseExpr *)
(* (main.c:1266); without a function, whose arguments are dropped where    *)
(* they cannot be parsed, nothing else is.                                 *)
AcceptsAsMeant ==
    result # NotParsed =>
        /\ Is["SUM", Tokens] => Accepted
        /\ Accepted /\ Functions = {} => Is["SUM", Tokens]

(* The tree of an accepted expression has the operators where their        *)
(* precedence puts them, in their order, and nothing of the text is lost.  *)
TreeAsMeant ==
    Accepted /\ Is["SUM", Tokens]
        /\ (\A i \in Functions : i < Len(text) /\ text[i + 1] = "(")
    => result.node = Tree["SUM", Tokens]

(* The parser stops the program at an operator that no operand follows, or *)
(* a call that cannot be parsed (the uses of NotNull, main.c:938 to 1245). *)
(* Nothing else stops it: the lexer never has to hold two tokens, however  *)
(* the functions look ahead and hand back (the assertion at main.c:601).   *)
Binary == UNION {Binding[level] : level \in DOMAIN Binding}
OperandAt(i) == \E j \in i..Len(text) : Is["PROD", SubSeq(Tokens, i, j)]
CallAt(i)    == \E j \in i..Len(text) : LET args == SubSeq(Tokens, i + 1, j)
                                        IN  InParens(args) /\ Is["LIST", Mid(args)]
StopsAsMeant ==
    Stopped => result.lx.stopped = "NULL" /\ \E i \in DOMAIN text :
        /\ text[i] \in Binary
        /\ \/ ~OperandAt(i + 1)
           \/ \E k \in Functions : i < k /\ k < Len(text) /\ text[k + 1] = "(" /\ ~CallAt(k)
=============================================================================
