--------------------------- MODULE MCSdkFragments ---------------------------
(* TLC instances of SdkFragments. *)
EXTENDS SdkFragments, TLC
=============================================================================
