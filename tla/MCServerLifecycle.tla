------------------------- MODULE MCServerLifecycle -------------------------
(***************************************************************************)
(* Small instances of ServerLifecycle for TLC.                             *)
(***************************************************************************)
EXTENDS ServerLifecycle, TLC

Symmetry == Permutations(Task)
=============================================================================
