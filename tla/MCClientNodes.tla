--------------------------- MODULE MCClientNodes ---------------------------
(***************************************************************************)
(* Small instances of ClientNodes for TLC.                                 *)
(***************************************************************************)
EXTENDS ClientNodes, TLC

Symmetry == Permutations(Task) \cup Permutations(Client)
=============================================================================
