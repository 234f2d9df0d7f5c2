---------------------------- MODULE MCAccounting ----------------------------
(***************************************************************************)
(* What the orchestrator's tables account for, side by side for TLC: the   *)
(* quota (MCResourceQuota), the nodes of the clients that share a name     *)
(* (ClientNodes) and the hold of a server (KeepaliveHold).  The three      *)
(* share no state, and a behaviour is one of one of them.                  *)
(***************************************************************************)
EXTENDS MCResourceQuota

CONSTANTS
  Client, NoClient, Task, MaxNodes, Beats, Faults, Alone,
  Owner, First, Holder, Durations, InactiveTimeout, FinishedTimeout, LastRequest, MaxTime

VARIABLES
  which,
  clients, holder, task, listed, left, troubled,
  row, now, hold, handover, pass, promised

N == INSTANCE ClientNodes
K == INSTANCE KeepaliveHold WITH Client <- Owner

ASSUME AccountingAssumption == N!NodesConstants /\ K!KeepaliveAssumption

nodeVars == <<clients, holder, task, listed, left, troubled>>
holdVars == <<row, now, hold, handover, pass, promised>>
allVars == <<which, vars, nodeVars, holdVars>>

AllInit == which \in {"quota", "nodes", "hold"} /\ Init /\ N!Init /\ K!Init
QuotaNext == which = "quota" /\ Next /\ UNCHANGED <<which, nodeVars, holdVars>>
NodesNext == which = "nodes" /\ N!Next /\ UNCHANGED <<which, vars, holdVars>>
HoldNext == which = "hold" /\ K!Next /\ UNCHANGED <<which, vars, nodeVars>>
AllNext == QuotaNext \/ NodesNext \/ HoldNext
AllSpec == AllInit /\ [][AllNext]_allVars

-----------------------------------------------------------------------------
\* A holder has the nodes that the clients on record ask for, or asked for who left by a heartbeat.
NodesMatchDemand == N!NodesMatchDemand
\* What it has more than they need is on record with a client that still counts.
ExcessOnRecord == N!ExcessOnRecord
\* A server is not reaped while it is held, as far as a pass could know.
PromisesKept == K!PromisesKept

\* What the documents say of holds, and the code does not do (see KeepaliveHold).
NoInheritedHold == K!NoInheritedHold
HeldNotReaped == K!HeldNotReaped

Slots == Symmetry \cup Permutations(Client) \cup Permutations(Task)
         \cup Permutations(Holder)
=============================================================================
