-------------------------- MODULE MCInvoiceOutbox --------------------------
(* Instances of InvoiceOutbox for TLC. *)
EXTENDS InvoiceOutbox, TLC

CONSTANTS d1, d2, d3, a1, a2

MCSymmetry == Permutations(Run) \union Permutations(Admin)
=============================================================================
