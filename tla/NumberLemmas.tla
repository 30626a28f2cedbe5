---------------------------- MODULE NumberLemmas ----------------------------
(***************************************************************************)
(* Facts about natural numbers that the proofs of several components need. *)
(***************************************************************************)
EXTENDS Integers, WellFoundedInduction, TLAPS

LessThan == {p \in Nat \X Nat : p[1] < p[2]}

LEMMA LessThanWellFounded == IsWellFoundedOn(LessThan, Nat)
  <1>1. OpToRel(<, Nat) = LessThan
    BY DEF OpToRel, LessThan
  <1> QED BY <1>1, NatLessThanWellFounded

(* A set of natural numbers has a least one, if it has any. *)
LEMMA LeastNumber ==
    ASSUME NEW S \in SUBSET Nat, S # {}
    PROVE  \E m \in S : \A n \in S : m <= n
  <1>1. PICK m \in S : \A n \in S : ~(<<n, m>> \in LessThan)
    BY LessThanWellFounded, WFMin
  <1>2. \A n \in S : ~(n < m)
    BY <1>1 DEF LessThan
  <1> QED BY <1>2

(* Quotient and remainder of an index of a block. *)
LEMMA QuotientOfIndex ==
    ASSUME NEW rows \in Nat, NEW c \in Nat, NEW r \in Nat, r < rows
    PROVE  (c * rows + r) \div rows = c /\ (c * rows + r) % rows = r
  <1> DEFINE n == c * rows + r
             q == n \div rows
             m == n % rows
  <1>1. rows > 0 /\ n \in Nat
    OBVIOUS
  <1>2. q \in Int /\ m \in 0..(rows - 1) /\ n = rows * q + m
    <2> HIDE DEF n
    <2> QED BY <1>1
  <1>3. rows * (q - c) = r - m
    <2> HIDE DEF q, m
    <2> QED BY <1>2
  <1>4. q = c
    <2> HIDE DEF q, m
    <2>1. CASE q - c >= 1
      <3>1. rows * (q - c) >= rows
        BY <1>1, <1>2, <2>1
      <3> QED BY <3>1, <1>2, <1>3
    <2>2. CASE q - c <= -1
      <3>1. rows * (q - c) <= -rows
        BY <1>1, <1>2, <2>2
      <3> QED BY <3>1, <1>2, <1>3
    <2> QED BY <1>2, <2>1, <2>2
  <1>5. m = r
    <2> HIDE DEF q, m
    <2> QED BY <1>2, <1>3, <1>4
  <1> QED BY <1>4, <1>5

=============================================================================
