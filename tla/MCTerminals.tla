---------------------------- MODULE MCTerminals ----------------------------
(***************************************************************************)
(* Small instances of Terminals for TLC: one-shot requests against the     *)
(* default terminal and those that the requests create.                    *)
(***************************************************************************)
EXTENDS Terminals, TLC

Symmetry == Permutations(Task)

(* Somebody can go on, as NoneStuck says it, exactly when a step of a task *)
(* or a thread is enabled (Step, Thread): NoneStuck states the guards, as  *)
(* nothing can be proved about ENABLED.                                    *)
GuardsExact ==
  (\E s \in Object : ThreadRuns(s)) \/ (\E t \in Task : CanGo(t)) <=>
    ENABLED (\E t \in Task, s \in Object : Step(t) \/ Thread(s))
=============================================================================
