---------------------------- MODULE MCOpenHands ----------------------------
(***************************************************************************)
(* The runtime of the OpenHands plugin, for TLC: its tool calls            *)
(* (MCToolCalls) and its terminals (Terminals), for the same tasks.  The   *)
(* two are side by side: a behaviour is one of either.                     *)
(***************************************************************************)
EXTENDS MCToolCalls

CONSTANTS Boot, Default, None, Kinds, MaxTerminals, MaxCancels

VARIABLES
  which, reqT, pcT, at, terminals, creating, state, session, holder, waiting, shell, cancels

T == INSTANCE Terminals WITH req <- reqT, pc <- pcT, queue <- waiting

ASSUME OpenHandsAssumption == T!TerminalsAssumption

terminalVars ==
  <<reqT, pcT, at, terminals, creating, state, session, holder, waiting, shell, cancels>>
bothVars == <<which, vars, terminalVars>>

\* What is not at work begins in one way.
BothInit ==
  /\ which \in {"calls", "terminals"}
  /\ Init /\ T!Init
  /\ which = "terminals" => \A t \in Task : req[t] = CHOOSE r \in Menu : TRUE
  /\ which = "calls" => \A i \in DOMAIN terminals : terminals[i] = None
CallsNext == which = "calls" /\ Next /\ UNCHANGED <<which, terminalVars>>
TerminalsNext == which = "terminals" /\ T!Next /\ UNCHANGED <<which, vars>>
BothNext == CallsNext \/ TerminalsNext
BothSpec == BothInit /\ [][BothNext]_bothVars

-----------------------------------------------------------------------------
\* No more terminals than the limit.
QuotaHeld == T!QuotaHeld
\* A session knows which of its commands has not ended.
CommandsTracked == T!CommandsTracked
\* Whoever closes a terminal is alone on it.
ClosedAlone == T!ClosedAlone
\* Every shell has an owner, or a cancellation lost it.
NoShellLost == T!NoShellLost
\* No operation on a terminal waits for something that will not come.
NoTerminalStuck == which = "terminals" => T!NoneStuck
=============================================================================
