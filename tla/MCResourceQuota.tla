-------------------------- MODULE MCResourceQuota --------------------------
(***************************************************************************)
(* Small instances of ResourceQuota for TLC: the catch-all rule ".*" that  *)
(* init_db seeds, and a rule for one client name that an operator may      *)
(* create, reprioritise and delete while servers come and go.              *)
(***************************************************************************)
EXTENDS ResourceQuota, TLC

CONSTANTS all, vip   \* the two rules
CONSTANT alice       \* a client name that the rule vip matches

Limit(cpu, pods) == [cpu |-> cpu, pods |-> pods]
AllRow(limit) ==
    [stage |-> "present", match |-> Name, priority |-> -1, limit |-> limit]
VipRow(priority) ==
    [stage |-> "present", match |-> {alice}, priority |-> priority, limit |-> Limit(2, 1)]

MCFirstRules == [r \in Rule |-> IF r = all THEN AllRow(Limit(3, 2))
                                ELSE [VipRow(1) EXCEPT !.stage = "free"]]

\* Create the narrower rule, demote it below the catch-all, delete it, tighten
\* the catch-all's limits. The demotion has a set of its own.
CreateVip == [op |-> "create", rule |-> vip, row |-> VipRow(1)]
DemoteVip == [op |-> "update", rule |-> vip, row |-> VipRow(-2)]
DeleteVip == [op |-> "delete", rule |-> vip]
TightenAll == [op |-> "update", rule |-> all, row |-> AllRow(Limit(2, 2))]
MCEdits == {CreateVip, DeleteVip, TightenAll}
CreateThenDemote == {CreateVip, DemoteVip}
RecalculateOnly == {[op |-> "recalculate"]}

Symmetry == Permutations(Txn) \cup Permutations(Server)
=============================================================================
