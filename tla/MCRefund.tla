------------------------------ MODULE MCRefund ------------------------------
(* Instances of Refund for TLC. *)
EXTENDS Refund, TLC

CONSTANTS r1, r2, w1, w2

MCSymmetry == Permutations(Job) \union Permutations(Worker)
=============================================================================
