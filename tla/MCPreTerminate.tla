--------------------------- MODULE MCPreTerminate ---------------------------
(* Instances of PreTerminate for TLC. *)
EXTENDS PreTerminate
=============================================================================
