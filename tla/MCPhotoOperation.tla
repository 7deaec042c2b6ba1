-------------------------- MODULE MCPhotoOperation --------------------------
(* Instances of PhotoOperation for TLC. *)
EXTENDS PhotoOperationInv, TLC

CONSTANTS e1, e2, p1, p2, p3

\* Two processes on one machine, a third on another.
TwoHosts == [p \in Proc |-> IF p = p3 THEN 2 ELSE 1]

MCSymmetry == Permutations(Exec)
=============================================================================
