----------------------------- MODULE MCDocCache -----------------------------
(***************************************************************************)
(* Instances of DocCache for TLC: two names, one of them in the root       *)
(* directory, and four files, two of which have the same inode in turn.    *)
(***************************************************************************)
EXTENDS DocCacheProps

CONSTANTS f1, f2, f3, f4

MCPath == {"a", "/c"}
MCFile == {f1, f2, f3, f4}
MCInode(f) == CASE f \in {f1, f4} -> "1" [] f = f2 -> "2" [] f = f3 -> "3"
MCDirname(p) == IF p = "/c" THEN "" ELSE "."

(* NextPow2 of Pow2, as a table. *)
MCNextPow2(n) == <<1, 2, 4, 4>>[n]
=============================================================================
