---------------------------- MODULE PowersOfTwo ----------------------------
(***************************************************************************)
(* Powers of two as a recursive function: shifts and bit masks of the code *)
(* are divisions and remainders by them.                                   *)
(***************************************************************************)
EXTENDS Integers

PowerOfTwo[e \in Nat] == IF e = 0 THEN 1 ELSE 2 * PowerOfTwo[e - 1]

=============================================================================
