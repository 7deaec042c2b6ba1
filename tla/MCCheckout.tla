---------------------------- MODULE MCCheckout ----------------------------
(* Instances of Checkout for TLC. *)
EXTENDS Checkout, TLC

CONSTANTS p1, p2, d1, d2, r1, e1, e2

\* Two drafts that compete for one product.
MCLines == (d1 :> <<p1>>) @@ (d2 :> <<p1, p2>>)
=============================================================================
