------------------------------- MODULE Reader -------------------------------
(***************************************************************************)
(* How src/main.c reads a file: ReadLine takes a line into a buffer and    *)
(* tells its kind, NextCell and NextCmdWord take the cells of a row and    *)
(* the words of a command from it.  A file is a sequence of characters; a  *)
(* buffer is one too, and is followed by a NUL.                            *)
(***************************************************************************)
EXTENDS Integers, Sequences, FiniteSets

CONSTANTS
    Char,       \* the characters a file may have
    MaxLen,     \* and how many
    Sz,         \* the size of the line buffer
    CellSz      \* the size of the buffers of cells and words

ASSUME BufferAssumption == Sz \in Nat /\ Sz > 2 /\ CellSz \in Nat \ {0} /\ MaxLen \in Nat

NL == "\n"      TAB == "\t"     SPACE == " "    QUOTE == "\""
NUL == "NUL"    EOF == "EOF"
Spaces == {NL, TAB, SPACE}

(* What fgetc returns at the end of a file is no character. *)
ASSUME CharAssumption == EOF \notin Char

VARIABLES
    file,       \* the file
    at,         \* where the next fgetc reads
    line,       \* how many lines were read
    type, buf,  \* what the last ReadLine gave
    cur,        \* Lexer.Cur
    read,       \* the cells or the words of this line so far
    pc

vars == <<file, at, line, type, buf, cur, read, pc>>

Init ==
    /\ \E n \in 0..MaxLen : file \in [1..n -> Char]
    /\ at = 1 /\ line = 0 /\ type = "NULL" /\ buf = << >> /\ cur = 1 /\ read = << >>
    /\ pc = "LINE"

-----------------------------------------------------------------------------
CharAt(s, i, end) == IF i <= Len(s) THEN s[i] ELSE end

(* The first place of s from i on that holds one of the characters; the    *)
(* place after s if there is none.                                         *)
Find(s, i, chars) ==
    LET found == {j \in i..Len(s) : s[j] \in chars}
    IN  IF found = {} THEN Len(s) + 1 ELSE CHOOSE j \in found : \A k \in found : j <= k

Cut(s, n) == SubSeq(s, 1, IF Len(s) < n THEN Len(s) ELSE n)

(* RestFrom slip: a comment is read from its mark on. *)
RestFromMark(kind) == IF kind = "COMMAND" THEN at + 2 ELSE at
(* The first character of a line of that kind that may go to the buffer. *)
RestFrom(kind) ==
    CASE kind = "COMMAND" -> at + 2
      [] kind = "COMMENT" -> at + 1
      [] OTHER            -> at

(* Ended slip: the newline is taken to be read already. *)
EndedBefore(text) == text
(* The buffer's line ends with a newline even where the file does not.     *)
Ended(text) == Append(text, NL)

ReadLine ==
    LET char == CharAt(file, at, EOF)
        kind == CASE char = EOF -> "NULL"
                  [] char = NL  -> "EMPTY"
                  [] char = "#" -> IF CharAt(file, at + 1, EOF) = ":" THEN "COMMAND" ELSE "COMMENT"
                  [] OTHER      -> "ROW"
        rest == RestFrom(kind)
        end  == Find(file, rest, {NL})
        text == CASE kind \in {"NULL", "EMPTY"} -> << >>
                  [] OTHER -> Ended(Cut(SubSeq(file, rest, end - 1), Sz - 2))
    IN  /\ pc = "LINE"
        /\ IF Len(text) > Sz - 2
           THEN pc' = "ABORTED" /\ UNCHANGED <<file, at, line, type, buf, cur, read>>
           ELSE /\ type' = kind /\ buf' = text
                /\ at' = IF kind = "NULL" THEN at ELSE IF end > Len(file) THEN end ELSE end + 1
                /\ line' = IF kind = "NULL" THEN line ELSE line + 1
                /\ cur' = 1 /\ read' = << >>
                /\ pc' = CASE kind = "NULL"    -> "EOF"
                           [] kind = "ROW"     -> "ROW"
                           [] kind = "COMMAND" -> "COMMAND"
                           [] OTHER            -> "LINE"
                /\ UNCHANGED file

Took(item, next) ==
    /\ read' = Append(read, item) /\ cur' = next
    /\ UNCHANGED <<file, at, line, type, buf, pc>>
EndOfLine ==
    /\ pc' = "LINE" /\ UNCHANGED <<file, at, line, type, buf, cur, read>>

-----------------------------------------------------------------------------
(* NextCell.  After the quote that closes a string the rest of the cell is *)
(* passed over; this looks for the end of the line and not for the NUL.    *)

(* StringEnd slip: the next cell begins after the quote. *)
StringEndEarly(close) == close
StringEnd(close) ==
    Find(buf, IF CharAt(buf, close, NUL) = QUOTE THEN close + 1 ELSE close, {TAB, NL})

StringCell ==
    /\ pc = "ROW" /\ CharAt(buf, cur, NUL) = QUOTE
    /\ LET close == Find(buf, cur + 1, {QUOTE, NL, NUL}) IN
       Took([type |-> "STRING", text |-> Cut(SubSeq(buf, cur + 1, close - 1), CellSz - 1)],
            StringEnd(close) + 1)

PlainCell ==
    /\ pc = "ROW" /\ CharAt(buf, cur, NUL) \notin {QUOTE, NUL}
    /\ LET expr == buf[cur] = "="
           from == IF expr THEN cur + 1 ELSE cur
           end  == Find(buf, from, {TAB, NL, NUL})
       IN  Took([type |-> IF expr THEN "EXPR" ELSE "PRETYPED",
                 text |-> Cut(SubSeq(buf, from, end - 1), CellSz - 1)],
                IF CharAt(buf, end, NUL) = NUL THEN end ELSE end + 1)

EndRow == pc = "ROW" /\ CharAt(buf, cur, NUL) = NUL /\ EndOfLine

-----------------------------------------------------------------------------
(* NextCmdWord.                                                            *)
WordStart == Find(buf, cur, {buf[j] : j \in 1..Len(buf)} \ Spaces)

CommandWord ==
    /\ pc = "COMMAND" /\ CharAt(buf, WordStart, NUL) # NUL
    /\ LET end == Find(buf, WordStart, Spaces \cup {NUL})
       IN  Took([type |-> "WORD", text |-> Cut(SubSeq(buf, WordStart, end - 1), CellSz - 1)], end)

EndCommand == pc = "COMMAND" /\ CharAt(buf, WordStart, NUL) = NUL /\ EndOfLine

Stopped == pc \in {"EOF", "ABORTED"} /\ UNCHANGED vars

Next == ReadLine \/ StringCell \/ PlainCell \/ EndRow \/ CommandWord \/ EndCommand \/ Stopped

Spec == Init /\ [][Next]_vars
=============================================================================
