------------------------------- MODULE Absence -------------------------------
(* What a field holds that holds nothing, a null of the code; the modules     *)
(* that are proved about together share it.                                   *)
CONSTANT None
=============================================================================
