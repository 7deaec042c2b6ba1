--------------------------- MODULE MCIntakePhotos ---------------------------
(* Instances of IntakePhotos for TLC. *)
EXTENDS IntakePhotos

CONSTANTS p1, p2, f1, f2, c1, c2

\* The canonical root is shared with every other photo of the shop.
Caps == [private |-> 2, canonical |-> 1]
=============================================================================
