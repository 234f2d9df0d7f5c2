------------------------------ MODULE Workspace ------------------------------
(***************************************************************************)
(* What the OpenHands runtime promises about the environment its tools     *)
(* work in, without its lease, its locks, its threads and its flights:     *)
(* tools whose requests clash take turns, and a reset has the environment  *)
(* to itself.  So every tool works in one environment from its first step  *)
(* to its last.  ToolCalls implements this (ToolCalls, Implements).        *)
(***************************************************************************)
EXTENDS Integers

CONSTANTS
  Task,
  Request,
  Clashes,   \* the pairs of requests that may not be at work together
  Resets     \* the requests that renew the environment

VARIABLES
  work,        \* who is at work, on what: pairs of a task and its request
  environment  \* how many times the environment was renewed

vars == <<work, environment>>

Begin(t, r) ==
  /\ \A w \in work : w[1] # t /\ <<r, w[2]>> \notin Clashes
  /\ work' = work \cup {<<t, r>>}
  /\ UNCHANGED environment

End(t, r) ==
  /\ <<t, r>> \in work
  /\ work' = work \ {<<t, r>>}
  /\ UNCHANGED environment

\* Whoever renews the environment is alone in it.
Renew(t, r) ==
  /\ work = {<<t, r>>} /\ r \in Resets
  /\ environment' = environment + 1
  /\ UNCHANGED work

Init == work = {} /\ environment = 0

Next == \E t \in Task, r \in Request : Begin(t, r) \/ End(t, r) \/ Renew(t, r)

Spec == Init /\ [][Next]_vars
=============================================================================
