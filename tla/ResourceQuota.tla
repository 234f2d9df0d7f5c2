--------------------------- MODULE ResourceQuota ---------------------------
(***************************************************************************)
(* Quota accounting in the orchestrator's database: the counters of the    *)
(* resource_limit_rules rows against the servers table, under concurrent   *)
(* PostgreSQL transactions (READ COMMITTED, sessions without autoflush).   *)
(*                                                                         *)
(* A transaction is a process.  Every statement that reads shared rows or  *)
(* may wait for a lock is a step of its own; what a transaction writes     *)
(* becomes visible at its commit, the last step.  Locks are held to the    *)
(* end of the transaction, so who holds which lock is read off the program *)
(* counters: the rule-set advisory lock (shared or exclusive), the row     *)
(* locks of rules, and the row lock of a server being settled.             *)
(*                                                                         *)
(* CPU and RAM are counted the same way, so cpu stands for both.           *)
(***************************************************************************)
EXTENDS Integers, FiniteSets, ServerStatus

CONSTANTS
    Txn,        \* transaction slots: how many run at once
    Server,     \* ids the servers table may hand out
    Name,       \* client names
    Rule,       \* ids the resource_limit_rules table may hand out
    NoRule,     \* "no rule matches"
    Cpu,        \* CPU requests a start may make
    Written,    \* statuses heartbeats write
    Edits,      \* rule edits an operator may submit
    FirstRules  \* the rules table at the start

VARIABLES
    rules,      \* [Rule -> row]: the committed rule rows, without counters
    used,       \* [Rule -> usage]: the committed counters of each rule
    servers,    \* [Server -> row]: the committed servers rows
    pc,         \* [Txn -> PC]: the next statement of each transaction
    req,        \* [Txn -> Request]: what the transaction was opened for
    mem         \* [Txn -> Memory]: what its session has loaded so far

vars == <<rules, used, servers, pc, req, mem>>
tables == <<rules, used, servers>>

Usage == [cpu : Nat, pods : Nat]
NoUsage == [cpu |-> 0, pods |-> 0]
\* match is what the regex of the rule matches.  An id is never handed out twice.
RuleRow == [stage : {"free", "present", "deleted"}, match : SUBSET Name,
            priority : Int, limit : Usage]
ServerRow == [status : AvailabilityStatus \cup {NoRow}, name : Name, cpu : Nat]

\* What the dashboard can ask of the rule set.
Edit == [op : {"create", "update"}, rule : Rule, row : RuleRow]
            \cup [op : {"delete"}, rule : Rule] \cup [op : {"recalculate"}]

ASSUME QuotaConstants ==
    /\ NoRule \notin Rule
    /\ IsFiniteSet(Server) /\ IsFiniteSet(Rule)
    /\ Name # {}
    /\ Cpu \subseteq Nat
    /\ Written \subseteq AvailabilityStatus \ {"REUSED"}
    /\ Edits \subseteq Edit
    /\ FirstRules \in [Rule -> RuleRow]

-----------------------------------------------------------------------------
(* Rules, and the servers counted against them.                            *)

Matching(rs, n) == {r \in Rule : rs[r].stage = "present" /\ n \in rs[r].match}

Best(rs, n) ==
    {r \in Matching(rs, n) : \A q \in Matching(rs, n) : rs[q].priority <= rs[r].priority}

\* find_matching_resource_limit_rule: the rule of highest priority whose regex
\* matches the client name.  Nothing orders rules of equal priority: the model
\* assumes that the database breaks such a tie the same way each time.
RuleOf(rs, n) ==
    IF Best(rs, n) = {} THEN NoRule ELSE CHOOSE r \in Best(rs, n) : TRUE

\* get_quota_holding_servers, attributed to a rule as recompute_rule_usage does.
Holding(rows, rs, r) ==
    {s \in Server : /\ rows[s].status \notin QuotaReleasing \cup {NoRow}
                    /\ RuleOf(rs, rows[s].name) = r}

\* The CPU that the servers in S asked for, counted unit by unit.
CpuUnits(rows, S) == UNION {{s} \X (1 .. rows[s].cpu) : s \in S}
CpuOf(rows, S) == Cardinality(CpuUnits(rows, S))

\* What a rule's counters ought to say of a servers table.
UsageOf(rows, rs, r) == [cpu |-> CpuOf(rows, Holding(rows, rs, r)),
                         pods |-> Cardinality(Holding(rows, rs, r))]

\* An update or delete finds its rule gone; a create that was submitted twice
\* hits the unique regex.
Void(e) ==
    \/ e.op \in {"update", "delete"} /\ rules[e.rule].stage # "present"
    \/ e.op = "create" /\ rules[e.rule].stage # "free"

\* What the UPDATE of an ORM object leaves in a column: one assigned the value
\* that the session loaded is no net change, and is not written at all.
NetChange(loaded, stored, new) == IF new = loaded THEN stored ELSE new

Saved(loaded, stored, new) ==
    [stage |-> stored.stage,
     match |-> NetChange(loaded.match, stored.match, new.match),
     priority |-> NetChange(loaded.priority, stored.priority, new.priority),
     limit |-> [cpu |-> NetChange(loaded.limit.cpu, stored.limit.cpu, new.limit.cpu),
                pods |-> NetChange(loaded.limit.pods, stored.limit.pods, new.limit.pods)]]

AtMost(u, v) == u.cpu <= v.cpu /\ u.pods <= v.pods

Fits(u, request, limit) ==
    /\ u.cpu + request <= limit.cpu
    /\ u.pods + 1 <= limit.pods

\* subtract_resources_from_rule: never below zero.  (LessUnclamped is faulty.)
LessUnclamped(a, b) == a - b
Less(a, b) == IF a >= b THEN a - b ELSE 0
Subtract(u, amount) ==
    [cpu |-> Less(u.cpu, amount), pods |-> Less(u.pods, 1)]

-----------------------------------------------------------------------------
(* Transactions and the locks they hold.                                   *)

PC == {"idle", "read", "share", "match", "lock", "relock", "write", "commit",
       "exclude", "count", "rebuild"}

Request ==
    [kind : {"reserve"}, name : Name, cpu : Cpu]
        \cup [kind : {"heartbeat"}, server : Server, status : Written]
        \cup [kind : {"settle"}, server : Server, status : {"STOPPED"}]
        \cup [kind : {"edit"}, edit : Edits]
        \cup [kind : {"none"}]

Memory == [loaded : AvailabilityStatus \cup {NoRow}, winner : Rule \cup {NoRule},
           row : RuleRow, seen : Usage, count : [Rule -> Usage]]

NoRequest == [kind |-> "none"]
NoRuleRow == [stage |-> "free", match |-> {}, priority |-> 0, limit |-> NoUsage]
Blank == [loaded |-> NoRow, winner |-> NoRule, row |-> NoRuleRow, seen |-> NoUsage,
          count |-> [r \in Rule |-> NoUsage]]

\* Faulty: the advisory lock is left out and only the row lock is relied on.
HoldsSharedLate(t) == pc[t] \in {"relock", "commit"}
HoldsShared(t) == pc[t] \in {"match", "lock", "relock", "commit"}
HoldsExclusive(t) == pc[t] \in {"count", "rebuild"}
HoldsRule(t, r) == pc[t] \in {"relock", "commit"} /\ mem[t].winner = r
\* Faulty: the settle locks the server row when it first reads it.
HoldsServerEarly(t, s) ==
    /\ pc[t] \in {"share", "match", "lock", "relock", "commit"}
    /\ req[t].kind = "settle" /\ req[t].server = s
HoldsServer(t, s) ==
    pc[t] = "commit" /\ req[t].kind = "settle" /\ req[t].server = s

\* Faulty: the matching SELECT does not say FOR UPDATE.
RuleAlwaysFree(t, r) == TRUE
RuleFree(t, r) == \A u \in Txn \ {t} : ~HoldsRule(u, r)
ServerFree(t, s) == \A u \in Txn \ {t} : ~HoldsServer(u, s)

\* The client name a quota transaction matches a rule for, and the CPU it
\* adds or takes off.  (CpuShareDefault is faulty: a release of unknown size.)
CpuShareDefault(q) == IF q.kind = "reserve" THEN q.cpu ELSE 0
NameOf(q) == IF q.kind = "reserve" THEN q.name ELSE servers[q.server].name
CpuShare(q) == IF q.kind = "reserve" THEN q.cpu ELSE servers[q.server].cpu

Open(t, start, request) ==
    /\ pc[t] = "idle"
    /\ pc' = [pc EXCEPT ![t] = start]
    /\ req' = [req EXCEPT ![t] = request]
    /\ UNCHANGED tables

Goto(t, next) == pc' = [pc EXCEPT ![t] = next] /\ UNCHANGED req

\* Commit or rollback: every lock is released and the session forgotten.
Close(t) ==
    /\ pc' = [pc EXCEPT ![t] = "idle"]
    /\ req' = [req EXCEPT ![t] = NoRequest]
    /\ mem' = [mem EXCEPT ![t] = Blank]

-----------------------------------------------------------------------------
(* Requests that open a transaction.                                       *)

\* check_resources_and_save_server is called for a start request.  The guard
\* on free ids only bounds the servers table.
BeginReserve(t, n, c) ==
    /\ Cardinality({s \in Server : servers[s].status = NoRow})
          > Cardinality({u \in Txn : req[u].kind = "reserve"})
    /\ Open(t, "share", [kind |-> "reserve", name |-> n, cpu |-> c])
    /\ UNCHANGED mem

\* update_idegym_server_heartbeat: a task, a forward or the watcher writes a
\* status to an existing row.
BeginHeartbeat(t, s, a) ==
    /\ servers[s].status # NoRow
    /\ Open(t, "read", [kind |-> "heartbeat", server |-> s, status |-> a])
    /\ UNCHANGED mem

\* settle_deletion_failed_server: the dashboard removed the Deployment of a
\* server it had read as DELETION_FAILED.
BeginSettle(t, s) ==
    /\ servers[s].status = "DELETION_FAILED"
    /\ Open(t, "read", [kind |-> "settle", server |-> s, status |-> "STOPPED"])
    /\ UNCHANGED mem

\* save_resource_limit_rule, delete_resource_limit_rule or
\* recalculate_rule_usage, from the dashboard.  It looks for the rule first,
\* without a lock, and an update keeps the row it found in its session.
BeginEdit(t, e) ==
    /\ ~Void(e)
    /\ Open(t, "exclude", [kind |-> "edit", edit |-> e])
    /\ mem' = IF e.op = "update"
              THEN [mem EXCEPT ![t].row = rules[e.rule], ![t].seen = used[e.rule]]
              ELSE mem

\* find_matching_finished_server: the row is locked (a locked one is skipped),
\* rewritten and committed in one transaction, so nobody sees it half done.
Claim(s) ==
    /\ servers[s].status = "FINISHED"
    /\ \A u \in Txn : ~HoldsServer(u, s)
    /\ servers' = [servers EXCEPT ![s].status = "REUSED"]
    /\ UNCHANGED <<rules, used, pc, req, mem>>

-----------------------------------------------------------------------------
(* Steps of the quota transactions.                                        *)

\* Which loaded statuses end the transaction at its first SELECT: a heartbeat
\* leaves a terminal row alone, a settle one that is not DELETION_FAILED.
LeavesAlone(q, status) ==
    IF q.kind = "settle" THEN status # "DELETION_FAILED" ELSE status \in Terminal

\* The first SELECT of the server row takes no lock.
ReadServer(t) ==
    /\ pc[t] = "read"
    /\ LET now == servers[req[t].server].status
       IN  \/ /\ LeavesAlone(req[t], now)
              /\ Close(t)
           \/ /\ ~LeavesAlone(req[t], now)
              /\ mem' = [mem EXCEPT ![t].loaded = now]
              /\ Goto(t, IF req[t].status \in QuotaReleasing THEN "share" ELSE "write")
    /\ UNCHANGED tables

\* A heartbeat that releases nothing commits its UPDATE, waiting for a row
\* lock; a status equal to the one loaded is not part of the UPDATE.
CommitHeartbeat(t) ==
    /\ pc[t] = "write"
    /\ ServerFree(t, req[t].server)
    /\ servers' = [servers EXCEPT ![req[t].server].status =
                      NetChange(mem[t].loaded, @, req[t].status)]
    /\ Close(t)
    /\ UNCHANGED <<rules, used>>

\* pg_advisory_xact_lock_shared, in a statement of its own.
ShareRuleSet(t) ==
    /\ pc[t] = "share"
    /\ \A u \in Txn : ~HoldsExclusive(u)
    /\ Goto(t, "match")
    /\ UNCHANGED <<tables, mem>>

\* The SELECT picks the winner from its snapshot.  A reservation without a
\* rule is refused; a release without one goes on to write the status.
MatchRule(t) ==
    /\ pc[t] = "match"
    /\ LET r == RuleOf(rules, NameOf(req[t]))
       IN  \/ /\ r # NoRule
              /\ mem' = [mem EXCEPT ![t].winner = r]
              /\ Goto(t, "lock")
           \/ /\ r = NoRule
              /\ req[t].kind = "reserve"
              /\ Close(t)
           \/ /\ r = NoRule
              /\ req[t].kind # "reserve"
              /\ Goto(t, IF req[t].kind = "settle" THEN "relock" ELSE "commit")
              /\ UNCHANGED mem
    /\ UNCHANGED tables

\* FOR UPDATE: the counters are read from the row once it is locked.
LockRule(t) ==
    /\ pc[t] = "lock"
    /\ RuleFree(t, mem[t].winner)
    /\ mem' = [mem EXCEPT ![t].seen = used[mem[t].winner]]
    /\ Goto(t, IF req[t].kind = "settle" THEN "relock" ELSE "commit")
    /\ UNCHANGED tables

\* The settle reads the server row again under its lock, after the rule's.
\* (UnsettledWhenRead is faulty: it trusts the first read.)
UnsettledWhenRead(s) == TRUE
Unsettled(s) == servers[s].status = "DELETION_FAILED"

RelockServer(t) ==
    /\ pc[t] = "relock"
    /\ ServerFree(t, req[t].server)
    /\ IF Unsettled(req[t].server)
       THEN Goto(t, "commit") /\ UNCHANGED mem
       ELSE Close(t)
    /\ UNCHANGED tables

\* check_resources_and_save_server: refuse, or count the request and insert
\* the row, which is ALIVE from the start.
CommitReserve(t, s) ==
    /\ pc[t] = "commit"
    /\ req[t].kind = "reserve"
    /\ servers[s].status = NoRow
    /\ LET r == mem[t].winner
           u == mem[t].seen
       IN  IF Fits(u, req[t].cpu, rules[r].limit)
           THEN /\ used' = [used EXCEPT ![r] =
                              [cpu |-> u.cpu + req[t].cpu, pods |-> u.pods + 1]]
                /\ servers' = [servers EXCEPT ![s] =
                     [status |-> "ALIVE", name |-> req[t].name, cpu |-> req[t].cpu]]
           ELSE UNCHANGED <<used, servers>>
    /\ Close(t)
    /\ UNCHANGED rules

\* The release of a heartbeat or of a settle: the counters less the server's
\* share, and the new status, in one commit.
CommitRelease(t) ==
    /\ pc[t] = "commit"
    /\ req[t].kind \in {"heartbeat", "settle"}
    /\ ServerFree(t, req[t].server)
    /\ used' = IF mem[t].winner = NoRule THEN used
               ELSE [used EXCEPT ![mem[t].winner] = Subtract(mem[t].seen, CpuShare(req[t]))]
    /\ servers' = [servers EXCEPT ![req[t].server].status = req[t].status]
    /\ Close(t)
    /\ UNCHANGED rules

-----------------------------------------------------------------------------
(* Steps of a rule edit.                                                   *)

\* lock_resource_limit_rules: the exclusive advisory lock, then every rule row
\* (free by then, since rows are locked under the shared lock).  The rows are
\* selected again, but a row the session has loaded already is not refreshed.
ExcludeQuota(t) ==
    /\ pc[t] = "exclude"
    /\ \A u \in Txn : ~HoldsShared(u) /\ ~HoldsExclusive(u)
    /\ IF Void(req[t].edit) THEN Close(t)
                            ELSE Goto(t, "count") /\ UNCHANGED mem
    /\ UNCHANGED tables

\* The rule rows as a transaction's edit leaves them.
EditedRules(t) ==
    LET e == req[t].edit
    IN  CASE e.op = "create" -> [rules EXCEPT ![e.rule] = e.row]
          [] e.op = "update" -> [rules EXCEPT ![e.rule] = Saved(mem[t].row, @, e.row)]
          [] e.op = "delete" -> [rules EXCEPT ![e.rule].stage = "deleted"]
          [] OTHER -> rules

\* recompute_rule_usage: the servers table as committed now, attributed under
\* the rules as this transaction leaves them.
CountUsage(t) ==
    /\ pc[t] = "count"
    /\ mem' = [mem EXCEPT ![t].count = [r \in Rule |->
                   UsageOf(servers, EditedRules(t), r)]]
    /\ Goto(t, "rebuild")
    /\ UNCHANGED tables

\* The counters a rebuild leaves in a row.  The rule of an update was loaded
\* before the lock, so a count equal to its stale counter is not written.
Rebuilt(t, r) ==
    IF req[t].edit.op = "update" /\ req[t].edit.rule = r
    THEN [cpu |-> NetChange(mem[t].seen.cpu, used[r].cpu, mem[t].count[r].cpu),
          pods |-> NetChange(mem[t].seen.pods, used[r].pods, mem[t].count[r].pods)]
    ELSE mem[t].count[r]

CommitEdit(t) ==
    /\ pc[t] = "rebuild"
    /\ rules' = EditedRules(t)
    /\ used' = [r \in Rule |-> Rebuilt(t, r)]
    /\ Close(t)
    /\ UNCHANGED servers

-----------------------------------------------------------------------------
Init ==
    /\ rules = FirstRules
    /\ used = [r \in Rule |-> NoUsage]
    /\ servers = [s \in Server |->
                    [status |-> NoRow, name |-> CHOOSE n \in Name : TRUE, cpu |-> 0]]
    /\ pc = [t \in Txn |-> "idle"]
    /\ req = [t \in Txn |-> NoRequest]
    /\ mem = [t \in Txn |-> Blank]

Begin(t) ==
    \/ \E n \in Name, c \in Cpu : BeginReserve(t, n, c)
    \/ \E s \in Server, a \in Written : BeginHeartbeat(t, s, a)
    \/ \E s \in Server : BeginSettle(t, s)
    \/ \E e \in Edits : BeginEdit(t, e)

Step(t) ==
    \/ ReadServer(t)
    \/ CommitHeartbeat(t)
    \/ ShareRuleSet(t)
    \/ MatchRule(t)
    \/ LockRule(t)
    \/ RelockServer(t)
    \/ \E s \in Server : CommitReserve(t, s)
    \/ CommitRelease(t)
    \/ ExcludeQuota(t)
    \/ CountUsage(t)
    \/ CommitEdit(t)

Next ==
    \/ \E t \in Txn : Begin(t) \/ Step(t)
    \/ \E s \in Server : Claim(s)

Spec == Init /\ [][Next]_vars

\* PostgreSQL queues lock waiters, so a transaction whose next step is
\* possible again and again takes it.  Nothing obliges a request to arrive.
FairSpec == Spec /\ \A t \in Txn : SF_vars(Step(t))

-----------------------------------------------------------------------------
TypeOK ==
    /\ rules \in [Rule -> RuleRow]
    /\ used \in [Rule -> Usage]
    /\ servers \in [Server -> ServerRow]
    /\ pc \in [Txn -> PC]
    /\ req \in [Txn -> Request]
    /\ mem \in [Txn -> Memory]

\* The rules that no create or update moves: their regex and priority stay as
\* they began, while their limits may change and other rules come and go.
Unmoved ==
    {r \in Rule : \A e \in Edits :
        e.op \in {"create", "update"} /\ e.rule = r =>
            e.row.match = FirstRules[r].match /\ e.row.priority = FirstRules[r].priority}

\* No pod slot leaks: whatever reservations, releases, settles and rule edits
\* interleave, an unmoved rule never counts more pods than there are servers
\* still charged to it, so capacity that was freed can be reserved again.  About the
\* shared/exclusive rule-set lock, the row locks and the clamped subtraction.
PodsNotLeaked ==
    \A r \in Unmoved : used[r].pods <= UsageOf(servers, rules, r).pods

\* Nor does CPU (or RAM): a rule never counts more than the servers still
\* charged to it asked for, even when releases of different sizes interleave
\* with a rebuild of the counters.
CpuNotLeaked ==
    \A r \in Unmoved : used[r].cpu <= UsageOf(servers, rules, r).cpu

\* Every row that appears is charged in full, to the rule that matches its
\* client under the rules in force at that moment, and within that rule's
\* limits: no two reservations spend the same headroom and none is charged to
\* a rule an edit has just superseded (check_resources_and_save_server).
AdmissionChargedWithinLimit ==
    [][\A s \in Server :
          servers[s].status = NoRow /\ servers'[s].status # NoRow =>
            \E r \in Rule :
               /\ r = RuleOf(rules', servers'[s].name)
               /\ used'[r] = [cpu |-> used[r].cpu + servers'[s].cpu,
                              pods |-> used[r].pods + 1]
               /\ used'[r].cpu <= rules'[r].limit.cpu
               /\ used'[r].pods <= rules'[r].limit.pods]_vars

\* Two dashboards that settle the same DELETION_FAILED server release its share
\* once: a settle lowers a counter only in the step that takes the row out of
\* DELETION_FAILED (settle_deletion_failed_server).
SettleReleasesOnce ==
    [][\A t \in Txn :
          req[t].kind = "settle" /\ pc'[t] = "idle" /\ used' # used =>
            /\ servers[req[t].server].status = "DELETION_FAILED"
            /\ servers'[req[t].server].status = "STOPPED"]_vars

\* Every transaction ends: with the rule locked before the server row, and the
\* advisory lock before both, no set of transactions waits in a circle.
TransactionsFinish == \A t \in Txn : pc[t] # "idle" ~> pc[t] = "idle"

-----------------------------------------------------------------------------
(* What the source says of this code, and the code does not do.            *)

\* "counted against its limit rule from the moment it is saved until it enters
\* one of these states" (database.py, QUOTA_RELEASING_STATUSES): a rule counts
\* no fewer pods than the servers still charged to it.
CountedUntilReleased ==
    \A r \in Rule : used[r].pods >= UsageOf(servers, rules, r).pods

\* "as a terminal status nothing moves it on" (settle_deletion_failed_server):
\* a terminal row stays terminal.
TerminalIsFinal ==
    [][\A s \in Server :
          servers[s].status \in Terminal => servers'[s].status \in Terminal]_vars

\* "so the result is exact" (recalculate_rule_usage): when an edit commits,
\* every counter is what the servers table says.
RebuildIsExact ==
    [][\A t \in Txn : HoldsExclusive(t) /\ pc'[t] = "idle" =>
          \A r \in Rule : used'[r] = UsageOf(servers', rules', r)]_vars

\* "then rebuild every rule's counters" (save_resource_limit_rule): once an
\* edit commits, no counter is above what the servers table says.
EditLeavesNoExcess ==
    [][\A t \in Txn : HoldsExclusive(t) /\ pc'[t] = "idle" =>
          \A r \in Rule : AtMost(used'[r], UsageOf(servers', rules', r))]_vars

-----------------------------------------------------------------------------
(* The inductive invariant behind PodsNotLeaked and the admission property. *)

\* What a transaction was opened for fits the statement it is about to run.
Coherent(t) ==
    /\ pc[t] = "idle" => req[t].kind = "none"
    /\ pc[t] = "read" => req[t].kind \in {"heartbeat", "settle"}
    /\ pc[t] = "write" => req[t].kind = "heartbeat" /\ req[t].status \notin QuotaReleasing
    /\ pc[t] = "relock" => req[t].kind = "settle"
    /\ pc[t] \in {"share", "match", "lock", "relock", "commit"} =>
          \/ req[t].kind = "reserve"
          \/ req[t].kind \in {"heartbeat", "settle"} /\ req[t].status \in QuotaReleasing
    /\ pc[t] \in {"exclude", "count", "rebuild"} => req[t].kind = "edit"
    /\ pc[t] = "lock" \/ (pc[t] = "commit" /\ req[t].kind = "reserve") =>
          mem[t].winner \in Rule
    /\ pc[t] \notin {"lock", "relock", "commit"} => mem[t].winner = NoRule

\* The row a request names exists, and stays DELETION_FAILED under a settle
\* that has found it so.
RowStands(t) ==
    /\ req[t].kind \in {"heartbeat", "settle"} => servers[req[t].server].status # NoRow
    /\ pc[t] = "commit" /\ req[t].kind = "settle" =>
          servers[req[t].server].status = "DELETION_FAILED"

\* An edit runs alone; a rule row has one holder.
LocksExclude ==
    \A t, u \in Txn : t # u =>
        /\ HoldsExclusive(t) => ~HoldsShared(u) /\ ~HoldsExclusive(u)
        /\ \A r \in Rule : ~(HoldsRule(t, r) /\ HoldsRule(u, r))

\* A matched rule is still the matching one, and its counters, once read under
\* the row lock, are still the committed ones.
MatchStands(t) ==
    /\ pc[t] \in {"lock", "relock", "commit"} =>
          mem[t].winner = RuleOf(rules, NameOf(req[t]))
    /\ pc[t] \in {"relock", "commit"} /\ mem[t].winner \in Rule =>
          mem[t].seen = used[mem[t].winner]

\* Counters about to be written by an edit do not overstate the servers table.
CountStands(t) ==
    pc[t] = "rebuild" => \A r \in Rule :
        AtMost(mem[t].count[r], UsageOf(servers, EditedRules(t), r))

\* An unmoved rule keeps its regex and priority, whatever happens to its limits.
RowsUnmoved ==
    \A r \in Unmoved :
        /\ rules[r].match = FirstRules[r].match
        /\ rules[r].priority = FirstRules[r].priority

QuotaInv ==
    /\ TypeOK
    /\ LocksExclude
    /\ RowsUnmoved
    /\ \A t \in Txn : Coherent(t) /\ RowStands(t) /\ MatchStands(t) /\ CountStands(t)
    /\ PodsNotLeaked /\ CpuNotLeaked
=============================================================================
