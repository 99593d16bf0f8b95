--------------------------- MODULE InductionProofs ---------------------------
(***************************************************************************)
(* Induction up to a number, for what the recursive functions of the models *)
(* compute.  A set A stands for the property.                              *)
(***************************************************************************)
EXTENDS Integers, WellFoundedInduction, TLAPS

\* A set of natural numbers that is not empty has a least element.
LEMMA LeastExists ==
    ASSUME NEW T, T \subseteq Nat, T # {}
    PROVE  \E n \in T : \A m \in T : n <= m
<1> DEFINE R == OpToRel(<, Nat)
<1>1. IsWellFoundedOn(R, Nat)
    BY NatLessThanWellFounded
<1>2. \A x, y \in Nat : y < x => <<y, x>> \in R
    BY DEF OpToRel
<1> HIDE DEF R
<1>3. \E x \in T : \A y \in T : ~ (<<y, x>> \in R)
    BY <1>1, WFMin, Zenon
<1>4. \E x \in T : \A y \in T : ~ (y < x)
    BY <1>2, <1>3, Zenon
<1> QED BY <1>4

\* A set that has 0 and with n the next number has all numbers up to N.
LEMMA SetInduction ==
    ASSUME NEW N \in Nat, NEW A, 0 \in A, \A n \in 0 .. N - 1 : n \in A => n + 1 \in A
    PROVE  \A n \in 0 .. N : n \in A
<1> DEFINE T == {n \in 0 .. N : n \notin A}
<1> SUFFICES ASSUME T # {} PROVE FALSE
    OBVIOUS
<1>1. PICK n \in T : \A m \in T : n <= m
    <2>1. T \subseteq Nat
        OBVIOUS
    <2> HIDE DEF T
    <2> QED BY <2>1, LeastExists, Zenon
<1>2. n # 0 /\ n - 1 \in 0 .. N - 1
    OBVIOUS
<1>3. n - 1 \in A
    BY <1>1, <1>2
<1>4. (n - 1) + 1 \in A
    BY <1>2, <1>3
<1> QED BY <1>1, <1>4

=============================================================================
