------------------------------ MODULE MCUpload ------------------------------
(* TLC instances of Upload. *)
EXTENDS Upload, TLC
=============================================================================
