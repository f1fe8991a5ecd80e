--------------------------- MODULE MCLocalRuntime ---------------------------
(***************************************************************************)
(* Small instances of LocalRuntime for TLC.                                *)
(***************************************************************************)
EXTENDS LocalRuntime, TLC

Symmetry == Permutations(Tasks) \cup Permutations(Engines)
=============================================================================
