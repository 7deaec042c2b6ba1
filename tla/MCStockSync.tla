---------------------------- MODULE MCStockSync ----------------------------
(* Instances of StockSync for TLC. *)
EXTENDS StockSync, TLC

CONSTANTS m1, m2, w1, w2
=============================================================================
