------------------------------ MODULE MCReader ------------------------------
(***************************************************************************)
(* Instances of ReaderMeaning for TLC: all files of up to six characters,  *)
(* of those that mean something to the reader and one that does not.       *)
(***************************************************************************)
EXTENDS ReaderMeaning

MCChar == {NL, TAB, SPACE, QUOTE, NUL, "=", "#", ":", "x"}
=============================================================================
