------------------------- MODULE MCScheduledPublish -------------------------
(* Instances of ScheduledPublish for TLC. *)
EXTENDS ScheduledPublish, TLC

CONSTANTS w1, w2, c1, c2
=============================================================================
