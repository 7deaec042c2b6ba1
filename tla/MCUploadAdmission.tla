------------------------- MODULE MCUploadAdmission -------------------------
(* Instances of UploadAdmission for TLC. *)
EXTENDS UploadAdmission

CONSTANTS l1, l2, l3, k1, k2
=============================================================================
