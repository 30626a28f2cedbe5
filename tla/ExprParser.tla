----------------------------- MODULE ExprParser -----------------------------
(***************************************************************************)
(* The recursive descent parser of src/main.c, on the text of an           *)
(* expression as a sequence of words.  NextExprToken tells the type of a   *)
(* word; one token may be handed back to the lexer.                        *)
(*                                                                         *)
(* A node is a tuple whose first part is its type; the links of a list are *)
(* a sequence.  Operators of one precedence share their code, as do the    *)
(* six functions of the source that they stand for.                        *)
(***************************************************************************)
EXTENDS Integers, Sequences

CONSTANTS
    ExprFuncMap,    \* the names of functions, in the order of the table
    CellRef,        \* the words that ParseCellRef reads to their end
    Number, Str, Xeno   \* numbers, strings, what opens a reference to a file

VARIABLE text       \* the words of the expression

(* MatchFunc: its loop begins at the second entry of the table.            *)
MatchFunc(word) == \E i \in 2..Len(ExprFuncMap) : ExprFuncMap[i] = word

Punctuation == {"(", ")", "+", "-", "*", "/", ":", ";", "}"}
TokenType(word) ==
    CASE word \in Punctuation -> word
      [] word \in Number      -> "NUMBER"
      [] word \in Str         -> "STRING"
      [] word \in Xeno        -> "XENO"
      [] word = "!m"          -> "MACRO"
      [] MatchFunc(word)      -> "FUNC"
      [] word \in CellRef     -> "CELL"
      [] OTHER                -> "UNKNOWN"

-----------------------------------------------------------------------------
(* The lexer: cur is the next word, held the tokens that were handed back. *)
(* stopped names the assertion that failed; what follows is void.          *)

TokenRec == [type : STRING, word : STRING]
Lexers   == [cur : Nat, held : Seq(TokenRec), stopped : STRING]
Start    == [cur |-> 1, held |-> << >>, stopped |-> "NO"]

Token(lx) ==
    CASE lx.held # << >>        -> lx.held[1]
      [] lx.cur > Len(text)     -> [type |-> "NULL", word |-> ""]
      [] OTHER                  -> [type |-> TokenType(text[lx.cur]), word |-> text[lx.cur]]
Type(lx) == Token(lx).type

(* Next slip: a token that was handed back is not taken from the lexer. *)
NextKeeps(lx) == IF lx.cur > Len(text) THEN lx ELSE [lx EXCEPT !.cur = @ + 1]
(* NextExprToken *)
Next(lx) ==
    CASE lx.held # << >>        -> [lx EXCEPT !.held = << >>]
      [] lx.cur > Len(text)     -> lx
      [] OTHER                  -> [lx EXCEPT !.cur = @ + 1]

UngetExprToken(lx, token) ==
    IF lx.held = << >> THEN [lx EXCEPT !.held = <<token>>] ELSE [lx EXCEPT !.stopped = "HELD"]

(* PeekExprToken leaves the token with the lexer. *)
Peek(lx) == UngetExprToken(Next(lx), Token(lx))

Null == << >>       \* no node, no links
Parsed(node, lx) == [node |-> node, lx |-> lx]
NotNull(p) == IF p.node = Null THEN [p EXCEPT !.lx.stopped = "NULL"] ELSE p
NodeFromToken(lx) == Parsed(<<Type(lx), Token(lx).word>>, Next(lx))

-----------------------------------------------------------------------------
(* Operators slip: the minus is taken with the products. *)
OperatorsMinus == [LIST |-> {";"}, SUM |-> {"+"}, PROD |-> {"*", "/", "-"}]
Operators == [LIST |-> {";"}, SUM |-> {"+", "-"}, PROD |-> {"*", "/"}]

Operand   == [LIST |-> "SUM", SUM |-> "PROD", PROD |-> "TERM"]
Cont      == [LIST |-> "LIST_CONT", SUM |-> "SUM_CONT", PROD |-> "PROD_CONT"]

(* The functions call each other through P: P[rule, lx] is what the one    *)
(* for the rule returns.                                                   *)

(* What ParseListCont, ParseSumCont and ParseProdCont have in common: the  *)
(* operator is there, an operand must follow.                              *)
ParseCont(P, level, lx) ==
    LET this == P[Operand[level], Next(lx)]
        link == <<<<Type(lx), this.node>>>>
    IN  CASE this.node = Null -> this
          [] Type(this.lx) \notin Operators[level] -> Parsed(link, Peek(this.lx))
          [] OTHER ->
                LET cont == NotNull(P[Cont[level], Peek(this.lx)])
                IN  Parsed(link \o cont.node, cont.lx)

(* What ParseList, ParseSum and ParseProd have in common. *)
ParseChain(P, level, lx) ==
    LET this == P[Operand[level], lx]
    IN  CASE this.node = Null -> this
          [] Type(this.lx) \notin Operators[level] -> Parsed(this.node, Peek(this.lx))
          [] OTHER ->
                LET cont == NotNull(P[Cont[level], Peek(this.lx)])
                IN  Parsed(<<level, this.node, cont.node>>, cont.lx)

(* Closed slip: what follows is read and not looked at. *)
ClosedAnyhow(node, lx, close) == Parsed(node, Next(lx))
(* The node, if the token that closes it follows; that is read anyhow. *)
Closed(node, lx, close) == Parsed(IF Type(lx) = close THEN node ELSE Null, Next(lx))

(* The arguments of a function without parentheses; if they cannot be      *)
(* parsed it has none.                                                     *)
BareArgs == {"CELL", "XENO", "NUMBER", "FUNC", "MACRO"}
ParseFunc(P, lx) ==
    LET word == Token(lx).word
        args == Next(lx)
    IN  CASE Type(args) = "(" ->
                LET list == P["LIST", Next(args)]
                IN  Closed(<<"FUNC", word, list.node>>, list.lx, ")")
          [] Type(args) \in BareArgs ->
                LET sum == P["SUM", Peek(args)]
                IN  Parsed(<<"FUNC", word, sum.node>>, sum.lx)
          [] OTHER -> Parsed(<<"FUNC", word, Null>>, Peek(args))

ParseRange(lx) ==
    LET first == Token(lx).word
        colon == Next(lx)
        last  == Next(colon)
    IN  CASE Type(colon) # ":"    -> Parsed(<<"CELL", first>>, Peek(colon))
          [] Type(last) # "CELL"  -> Parsed(<<"RANGE", first, first>>, Peek(last))
          [] OTHER                -> Parsed(<<"RANGE", first, Token(last).word>>, Next(last))

ParseXeno(lx) ==
    LET file == Token(lx).word
        cell == Next(lx)
    IN  IF Type(cell) = "CELL"
        THEN Closed(<<"XENO", file, Token(cell).word>>, Next(cell), "}")
        ELSE Closed(<<"XENO", file, "SUMMARY">>, Peek(cell), "}")

(* A token that begins no term is read nonetheless. *)
ParseTerm(P, lx) ==
    LET negate == Type(lx) = "-"
        this   == IF negate THEN Next(lx) ELSE lx
        back   == Peek(this)
        child  ==
            CASE Type(this) = "FUNC" -> ParseFunc(P, back)
              [] Type(this) = "CELL" -> ParseRange(back)
              [] Type(this) = "XENO" -> ParseXeno(back)
              [] Type(this) = "("    ->
                    LET sum == P["SUM", Next(this)] IN Closed(sum.node, sum.lx, ")")
              [] Type(this) \in {"NUMBER", "STRING", "MACRO"} -> NodeFromToken(this)
              [] OTHER -> Parsed(Null, Next(this))
    IN  IF negate /\ child.node # Null THEN [child EXCEPT !.node = <<"TERM", @>>] ELSE child

ParseList(P, lx)     == ParseChain(P, "LIST", lx)
ParseSum(P, lx)      == ParseChain(P, "SUM", lx)
ParseProd(P, lx)     == ParseChain(P, "PROD", lx)
ParseListCont(P, lx) == ParseCont(P, "LIST", lx)
ParseSumCont(P, lx)  == ParseCont(P, "SUM", lx)
ParseProdCont(P, lx) == ParseCont(P, "PROD", lx)

Rules == {"LIST", "SUM", "PROD", "TERM", "LIST_CONT", "SUM_CONT", "PROD_CONT"}
Parser[rule \in Rules, lx \in Lexers] ==
    CASE rule = "LIST"      -> ParseList(Parser, lx)
      [] rule = "SUM"       -> ParseSum(Parser, lx)
      [] rule = "PROD"      -> ParseProd(Parser, lx)
      [] rule = "TERM"      -> ParseTerm(Parser, lx)
      [] rule = "LIST_CONT" -> ParseListCont(Parser, lx)
      [] rule = "SUM_CONT"  -> ParseSumCont(Parser, lx)
      [] rule = "PROD_CONT" -> ParseProdCont(Parser, lx)

ParseExpr ==
    LET sum == Parser["SUM", Start] IN
    IF sum.node = Null THEN sum ELSE Closed(sum.node, sum.lx, "NULL")
=============================================================================
