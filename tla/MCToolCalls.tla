----------------------------- MODULE MCToolCalls -----------------------------
(***************************************************************************)
(* Small instances of ToolCalls for TLC.  The keys are those of the        *)
(* workspace and of a file, which the scheduler sorts before it.           *)
(***************************************************************************)
EXTENDS ToolCalls, TLC

CONSTANTS id1, id2

Req(lease, workspace, file, id) ==
  [modes |-> 0 :> lease @@ 1 :> file @@ 2 :> workspace, id |-> id]

(* A patch and a write under one request id, a write and a read of the     *)
(* same file, and a reset.                                                 *)
MCMenu == {Req("shared", "exclusive", "none", id1),
           Req("shared", "shared", "exclusive", id1),
           Req("shared", "shared", "exclusive", id2),
           Req("shared", "shared", "shared", NoId),
           Req("exclusive", "none", "none", NoId)}

(* A patch, a write and a read of one file, and a reset: readers and a     *)
(* writer at every lock.                                                   *)
MCReadersAndWriters == {Req("shared", "exclusive", "none", id1),
                        Req("shared", "shared", "exclusive", NoId),
                        Req("shared", "shared", "shared", NoId),
                        Req("exclusive", "none", "none", NoId)}

Symmetry == Permutations(Task)
=============================================================================
