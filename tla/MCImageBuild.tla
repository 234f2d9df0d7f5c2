---------------------------- MODULE MCImageBuild ----------------------------
(***************************************************************************)
(* A small instance of ImageBuild for TLC: one request with two images     *)
(* under one tag, the second in BuildKit's syntax, which only Cloud Build  *)
(* takes.                                                                  *)
(***************************************************************************)
EXTENDS ImageBuild

CONSTANTS b1, b2, r1, t1

Plain(buildkit) == [buildkit |-> buildkit, scheme |-> None, files |-> FALSE,
                    machine |-> None, tag |-> t1]
MCBuild == {b1, b2}
MCRequest == {r1}
MCTag == {t1}
MCImages == [r \in {r1} |-> <<b1, b2>>]
MCSpecOf == [b \in {b1, b2} |-> Plain(b = b2)]
=============================================================================
