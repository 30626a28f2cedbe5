------------------------------- MODULE MCArena -------------------------------
(***************************************************************************)
(* Instances of Arena for TLC: pages of 64 bytes with a header of 16, so   *)
(* that 48 are left; blocks that fill a page or leave it almost full.      *)
(***************************************************************************)
EXTENDS Arena

MCRequest(c) == IF c = "STRING_PAGE" THEN {1, 20, 30, 47, 48} ELSE {8, 17, 32}
=============================================================================
