------------------------- MODULE MCAsyncOperations -------------------------
(***************************************************************************)
(* Small instances of AsyncOperations for TLC.                             *)
(***************************************************************************)
EXTENDS AsyncOperations, TLC

Symmetry == Permutations(Op) \cup Permutations(Call)
=============================================================================
