---------------------------- MODULE ReaderMeaning ----------------------------
(***************************************************************************)
(* What the text of a file means, told from the file alone, and that the   *)
(* reader finds it: its lines, the cells of a row, the words of a command. *)
(***************************************************************************)
EXTENDS Reader

Least(S) == CHOOSE i \in S : \A j \in S : i <= j
Nth(S, k) == CHOOSE i \in S : Cardinality({j \in S : j <= i}) = k

-----------------------------------------------------------------------------
(* Lines are what newlines end, the last one perhaps the end of the file.  *)
Newlines == {i \in 1..Len(file) : file[i] = NL}
LineCount == Cardinality(Newlines) + IF file # << >> /\ Len(file) \notin Newlines THEN 1 ELSE 0
LineText(k) ==
    SubSeq(file, IF k = 1 THEN 1 ELSE Nth(Newlines, k - 1) + 1,
                 IF k > Cardinality(Newlines) THEN Len(file) ELSE Nth(Newlines, k) - 1)

MeantType(t) ==
    IF t = << >> THEN "EMPTY"
    ELSE IF t[1] # "#" THEN "ROW"
    ELSE IF CharAt(t, 2, EOF) = ":" THEN "COMMAND" ELSE "COMMENT"
MeantText(t) ==
    CASE MeantType(t) = "COMMAND" -> SubSeq(t, 3, Len(t))
      [] MeantType(t) = "COMMENT" -> Tail(t)
      [] OTHER                    -> t

(* What the characters before it make of a character of a row: it begins a *)
(* cell, is in a plain or a quoted one, behind a closed quote, or behind a *)
(* NUL that ends the row.                                                  *)
After(where, char) ==
    CASE where = "DONE"   -> "DONE"
      [] where = "QUOTED" -> IF char \in {QUOTE, NUL} THEN "CLOSED" ELSE "QUOTED"
      [] where = "CLOSED" -> IF char = TAB THEN "START" ELSE "CLOSED"
      [] where \in {"START", "PLAIN"} ->
            IF char = NUL THEN "DONE"
            ELSE IF char = TAB THEN "START"
            ELSE IF where = "START" /\ char = QUOTE THEN "QUOTED" ELSE "PLAIN"
Where(t) ==
    LET w[i \in 1..(Len(t) + 1)] == IF i = 1 THEN "START" ELSE After(w[i - 1], t[i - 1]) IN w

(* The cells of the row t: one for each tab outside quotes, and one more.  *)
MeantCells(t) ==
    LET w     == Where(t)
        done  == {i \in 1..Len(t) : w[i + 1] = "DONE"}
        end   == IF done = {} THEN Len(t) + 1 ELSE Least(done)
        tabs  == {i \in 1..(end - 1) : t[i] = TAB /\ w[i] # "QUOTED"}
        first(k) == IF k = 1 THEN 1 ELSE Nth(tabs, k - 1) + 1
        last(k)  == IF k > Cardinality(tabs) THEN end - 1 ELSE Nth(tabs, k) - 1
        count == Cardinality(tabs) + IF done # {} /\ w[end] = "START" THEN 0 ELSE 1
        quoted(k) == {i \in (first(k) + 1)..last(k) : w[i + 1] = "QUOTED"}
        mark(k)  == IF first(k) > last(k) THEN "" ELSE t[first(k)]
    IN  [k \in 1..count |->
            CASE mark(k) = QUOTE -> [type |-> "STRING",
                    text |-> Cut(SubSeq(t, first(k) + 1, first(k) + Cardinality(quoted(k))), CellSz - 1)]
              [] mark(k) = "=" -> [type |-> "EXPR",
                    text |-> Cut(SubSeq(t, first(k) + 1, last(k)), CellSz - 1)]
              [] OTHER -> [type |-> "PRETYPED", text |-> Cut(SubSeq(t, first(k), last(k)), CellSz - 1)]]

(* The words of the command t, up to a NUL: what spaces separate.          *)
MeantWords(t) ==
    LET text  == SubSeq(t, 1, Find(t, 1, {NUL}) - 1)
        black == {i \in 1..Len(text) : text[i] \notin Spaces}
        first == {i \in black : i - 1 \notin black}
        last  == {i \in black : i + 1 \notin black}
    IN  [k \in 1..Cardinality(first) |->
            [type |-> "WORD", text |-> Cut(SubSeq(text, Nth(first, k), Nth(last, k)), CellSz - 1)]]

-----------------------------------------------------------------------------
(* The lexers stay in the buffer, whose line always ends with a newline,   *)
(* though one loop of NextCell does not look for the NUL (main.c:398).     *)
TypeOK ==
    /\ cur \in 1..(Len(buf) + 1) /\ at \in 1..(Len(file) + 1)
    /\ Len(buf) <= Sz - 2
    /\ type \in {"ROW", "COMMAND"} => buf[Len(buf)] = NL
    /\ pc \in {"LINE", "ROW", "COMMAND", "EOF", "ABORTED"}

(* One call of ReadLine reads one line, whatever it holds, and tells its   *)
(* kind; none is passed over or read as two.  It stops at a line that      *)
(* leaves no room, and only there.                                         *)
LinesAsMeant ==
    /\ line <= LineCount /\ (pc = "EOF" => line = LineCount)
    /\ line > 0 /\ pc # "EOF" =>
        LET t == LineText(line) IN
        /\ type = MeantType(t)
        /\ buf = IF t = << >> THEN << >> ELSE Append(MeantText(t), NL)
    /\ pc = "ABORTED" => Len(MeantText(LineText(line + 1))) >= Sz - 2

(* A row gives its cells, a command its words, all of them and in order;   *)
(* tabs and equals signs in a quoted cell are text, a tab at the end of a  *)
(* row begins one more cell, a text too long for its buffer is cut.        *)
ItemsAsMeant ==
    type \in {"ROW", "COMMAND"} =>
        LET t     == MeantText(LineText(line))
            items == IF type = "ROW" THEN MeantCells(t) ELSE MeantWords(t)
        IN  /\ Len(read) <= Len(items) /\ read = SubSeq(items, 1, Len(read))
            /\ pc = "LINE" => read = items

(* The assertion of ReadLine (main.c:324): there was room for the line.    *)
LineFits == pc # "ABORTED"
=============================================================================
