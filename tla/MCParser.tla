------------------------------ MODULE MCParser ------------------------------
(***************************************************************************)
(* Instances of ExprMeaning for TLC: all texts of a few words, one or two  *)
(* for each case of ParseTerm, of ParseFunc and of the operators, and      *)
(* longer texts that are put together from terms.  The first function of   *)
(* the table, which MatchFunc does not look at, is among the words.        *)
(***************************************************************************)
EXTENDS ExprMeaning

MCFuncs == <<"abs", "sum">>
MCWords == {"abs", "sum", "A0", "1", "+", "-", "*", "(", ")", ";", ":", "{f:", "}", "x", "!m"}

Terms == {<<"1">>, <<"-", "A0">>, <<"A0", ":">>, <<"sum">>, <<"(", "1", ")">>,
          <<"sum", "(", "A0", ")">>, <<"sum", "(", "*", ")">>, <<"{f:", "}">>,
          <<"x">>, <<"!m">>, <<"sum", "x">>, <<"sum", "1">>, <<"(", "sum", "x", ")">>}
MCLonger ==
         UNION {{a \o <<o>> \o b \o <<p>> \o c : a, b, c \in Terms} : o, p \in {"+", "-", "*"}}
     \cup UNION {{<<"sum", "(">> \o a \o <<o>> \o b \o <<";">> \o c \o <<")">> : a, b, c \in Terms} :
                    o \in {"-", ";", ":"}}
     \cup UNION {{a \o <<"*", "(">> \o b \o <<"+">> \o c \o <<")", "-", "1">> : a, b, c \in Terms}}
=============================================================================
