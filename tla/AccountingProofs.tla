------------------------- MODULE AccountingProofs -------------------------
(***************************************************************************)
(* Proofs about what MCAccounting puts together: ResourceQuota, for any    *)
(* number of transactions, servers, clients, rules and edits; ClientNodes  *)
(* and KeepaliveHold beside it, for any clients, numbers of nodes,         *)
(* holders, durations and timeouts.  A step is one of one module and       *)
(* leaves the variables of the others alone.                               *)
(***************************************************************************)
EXTENDS MCAccounting, FiniteSetTheorems, FunctionTheorems,
        WellFoundedInduction, TLAPS

-----------------------------------------------------------------------------
(* ResourceQuota: the operators the accounting is built from.              *)

\* Among finitely many rules that match a name one has the highest priority,
\* so the database query picks a rule: the one with the smallest set of rules
\* above it has none above it.
LEMMA RuleOfType ==
    ASSUME NEW rs \in [Rule -> RuleRow], NEW n \in Name
    PROVE  /\ RuleOf(rs, n) \in Rule \cup {NoRule}
           /\ RuleOf(rs, n) # NoRule => RuleOf(rs, n) \in Matching(rs, n)
<1> DEFINE M == Matching(rs, n)
           B == Best(rs, n)
           Above(r) == {q \in M : rs[q].priority > rs[r].priority}
           Aboves == {Above(r) : r \in M}
<1>1. M \subseteq Rule
    BY DEF Matching
<1>2. CASE M = {}
    BY <1>2 DEF RuleOf, Best
<1>3. CASE M # {}
    <2>1. Aboves \subseteq FiniteSubsetsOf(Rule)
        <3>1. \A S \in SUBSET Rule : IsFiniteSet(S)
            BY QuotaConstants, FS_Subset DEF QuotaConstants
        <3>2. \A r \in M : Above(r) \in SUBSET Rule
            BY <1>1
        <3> QED BY <3>1, <3>2 DEF FiniteSubsetsOf
    <2>2. Aboves # {}
        BY <1>3
    <2>3. PICK S \in Aboves : \A T \in Aboves :
                ~(<<T, S>> \in StrictSubsetOrdering(Rule))
        <3> HIDE DEF Aboves
        <3> QED BY <2>1, <2>2, WFMin, FS_StrictSubsetOrderingWellFounded
    <2>4. PICK r \in M : S = Above(r)
        BY <2>3
    <2>5. \A q \in M : rs[q].priority \in Int
        BY <1>1 DEF RuleRow
    <2>6. Above(r) = {}
        <3> SUFFICES ASSUME NEW q \in Above(r) PROVE FALSE
            OBVIOUS
        <3>1. Above(q) \subseteq Above(r) /\ q \notin Above(q)
            BY <2>5
        <3>2. Above(q) \in SUBSET Rule /\ Above(r) \in SUBSET Rule
            BY <1>1
        <3>3. <<Above(q), Above(r)>> \in StrictSubsetOrdering(Rule)
            BY <3>1, <3>2 DEF StrictSubsetOrdering
        <3>4. Above(q) \in Aboves
            OBVIOUS
        <3> QED BY <2>3, <2>4, <3>3, <3>4
    <2>7. \A q \in M : rs[q].priority <= rs[r].priority
        BY <2>5, <2>6
    <2>8. B # {} /\ B \subseteq M
        BY <2>4, <2>7 DEF Best
    <2>9. RuleOf(rs, n) \in M
        <3> HIDE DEF B, M
        <3>1. RuleOf(rs, n) = IF B = {} THEN NoRule ELSE CHOOSE q \in B : TRUE
            BY DEF RuleOf, B
        <3> QED BY <2>8, <3>1
    <2> QED BY <1>1, <2>9
<1> QED BY <1>2, <1>3

\* Rule sets that differ in limits only pick the same rules.
LEMMA RuleOfSame ==
    ASSUME NEW rs, NEW qs,
           \A r \in Rule : /\ rs[r].stage = qs[r].stage
                          /\ rs[r].match = qs[r].match
                          /\ rs[r].priority = qs[r].priority
    PROVE  \A n : RuleOf(rs, n) = RuleOf(qs, n)
<1> SUFFICES ASSUME NEW n PROVE RuleOf(rs, n) = RuleOf(qs, n)
    OBVIOUS
<1>1. Matching(rs, n) = Matching(qs, n) /\ Matching(qs, n) \subseteq Rule
    BY DEF Matching
<1>2. Best(rs, n) = Best(qs, n)
    BY <1>1 DEF Best
<1> QED BY <1>2 DEF RuleOf

\* What a request carries, by its kind.
LEMMA RequestFields ==
    ASSUME NEW q \in Request
    PROVE  /\ q.kind \in {"reserve", "heartbeat", "settle", "edit", "none"}
           /\ q.kind = "reserve" => q.name \in Name /\ q.cpu \in Nat
           /\ q.kind \in {"heartbeat", "settle"} =>
                 /\ q.server \in Server
                 /\ q.status \in AvailabilityStatus
           /\ q.kind = "settle" => q.status = "STOPPED"
           /\ q.kind = "edit" => q.edit \in Edits /\ q.edit \in Edit
BY QuotaConstants DEF QuotaConstants, Request, AvailabilityStatus

\* The name a quota transaction matches by is a client's.
LEMMA NameOfType ==
    ASSUME NEW q \in Request, servers \in [Server -> ServerRow],
           q.kind \in {"reserve", "heartbeat", "settle"}
    PROVE  NameOf(q) \in Name
BY RequestFields DEF NameOf, ServerRow

\* What an UPDATE leaves in a rule row is a rule row.
LEMMA SavedType ==
    ASSUME NEW loaded \in RuleRow, NEW stored \in RuleRow, NEW new \in RuleRow
    PROVE  Saved(loaded, stored, new) \in RuleRow
BY DEF Saved, NetChange, RuleRow, Usage

\* An edit turns a rule set into a rule set.
LEMMA EditedRulesType ==
    ASSUME TypeOK, NEW t \in Txn, req[t].kind = "edit"
    PROVE  EditedRules(t) \in [Rule -> RuleRow]
<1> DEFINE e == req[t].edit
<1>1. e \in Edit
    BY RequestFields DEF TypeOK
<1>2. rules \in [Rule -> RuleRow] /\ mem[t].row \in RuleRow
    BY DEF TypeOK, Memory
<1>3. e.op \in {"create", "update", "delete", "recalculate"}
    BY <1>1 DEF Edit
<1>4. e.op \in {"create", "update"} => e.rule \in Rule /\ e.row \in RuleRow
    BY <1>1 DEF Edit
<1>5. e.op = "delete" => e.rule \in Rule
    BY <1>1 DEF Edit
<1> HIDE DEF e
<1>6. CASE e.op = "create"
    BY <1>2, <1>4, <1>6 DEF EditedRules, e
<1>7. CASE e.op = "update"
    <2>1. Saved(mem[t].row, rules[e.rule], e.row) \in RuleRow
        BY <1>2, <1>4, <1>7, SavedType
    <2>2. EditedRules(t) = [rules EXCEPT ![e.rule] = Saved(mem[t].row, rules[e.rule], e.row)]
        BY <1>7 DEF EditedRules, e
    <2> QED BY <1>2, <2>1, <2>2
<1>8. CASE e.op = "delete"
    BY <1>2, <1>5, <1>8 DEF EditedRules, RuleRow, e
<1>9. CASE e.op = "recalculate"
    BY <1>2, <1>9 DEF EditedRules, e
<1> QED BY <1>3, <1>6, <1>7, <1>8, <1>9

\* The counters a rebuild leaves are counters.
LEMMA RebuiltType ==
    ASSUME TypeOK, NEW t \in Txn, NEW r \in Rule
    PROVE  Rebuilt(t, r) \in Usage
BY DEF TypeOK, Memory, Rebuilt, NetChange, Usage

\* Taking a share off a counter leaves a counter, one pod lower or at zero.
LEMMA SubtractType ==
    ASSUME NEW u \in Usage, NEW c \in Nat
    PROVE  /\ Subtract(u, c) \in Usage
           /\ Subtract(u, c).pods = IF u.pods = 0 THEN 0 ELSE u.pods - 1
BY DEF Subtract, Less, Usage

-----------------------------------------------------------------------------
(* What the servers table says a rule's counters should be.                 *)

\* One server's units are as many as it asked for.
LEMMA OwnUnits ==
    ASSUME NEW s, NEW c \in Nat
    PROVE  IsFiniteSet({s} \X (1 .. c)) /\ Cardinality({s} \X (1 .. c)) = c
<1>1. IsFiniteSet({s}) /\ Cardinality({s}) = 1
    BY FS_Singleton, Zenon
<1>2. 1 \in Int /\ c \in Int
    OBVIOUS
<1>3. IsFiniteSet(1 .. c) /\ Cardinality(1 .. c) = IF 1 > c THEN 0 ELSE c - 1 + 1
    BY <1>2, FS_Interval, Zenon
<1>4. Cardinality(1 .. c) = c
    BY <1>3
<1>5. /\ IsFiniteSet({s} \X (1 .. c))
      /\ Cardinality({s} \X (1 .. c)) = Cardinality({s}) * Cardinality(1 .. c)
    BY <1>1, <1>3, FS_Product, Zenon
<1>6. 1 * c = c
    OBVIOUS
<1> QED BY <1>1, <1>4, <1>5, <1>6, Zenon

\* The CPU of a set of servers is a number, and each server adds its own.
LEMMA UnitsFinite ==
    ASSUME NEW rows \in [Server -> ServerRow], NEW S \in SUBSET Server
    PROVE  IsFiniteSet(CpuUnits(rows, S))
<1> DEFINE units == [s \in S |-> {s} \X (1 .. rows[s].cpu)]
           Image == {{s} \X (1 .. rows[s].cpu) : s \in S}
<1>1. IsFiniteSet(S)
    BY QuotaConstants, FS_Subset DEF QuotaConstants
<1>2. units \in Surjection(S, Image)
    BY DEF Surjection
<1>3. IsFiniteSet(Image)
    <2> HIDE DEF units, Image
    <2> QED BY <1>1, <1>2, FS_Surjection
<1>4. \A s \in S : IsFiniteSet({s} \X (1 .. rows[s].cpu))
    <2> SUFFICES ASSUME NEW s \in S PROVE IsFiniteSet({s} \X (1 .. rows[s].cpu))
        OBVIOUS
    <2>1. rows[s].cpu \in Nat
        BY DEF ServerRow
    <2> QED BY <2>1, OwnUnits
<1>5. \A T \in Image : IsFiniteSet(T)
    BY <1>4
<1> HIDE DEF Image
<1>6. IsFiniteSet(UNION Image)
    BY <1>3, <1>5, FS_UNION
<1> QED BY <1>6 DEF CpuUnits, Image

LEMMA CpuOfWithout ==
    ASSUME NEW rows \in [Server -> ServerRow], NEW S \in SUBSET Server, NEW s \in S
    PROVE  /\ CpuOf(rows, S) \in Nat
           /\ CpuOf(rows, S \ {s}) \in Nat
           /\ CpuOf(rows, S \ {s}) = CpuOf(rows, S) - rows[s].cpu
<1> DEFINE Rest == CpuUnits(rows, S \ {s})
           Own == {s} \X (1 .. rows[s].cpu)
<1>1. CpuUnits(rows, S) = Rest \cup Own
    BY DEF CpuUnits
<1>2. Rest \cap Own = {}
    BY DEF CpuUnits
<1>3. rows[s].cpu \in Nat
    BY DEF ServerRow
<1>4. IsFiniteSet(Own) /\ Cardinality(Own) = rows[s].cpu
    BY <1>3, OwnUnits
<1>5. IsFiniteSet(Rest) /\ IsFiniteSet(CpuUnits(rows, S))
    BY UnitsFinite
<1> HIDE DEF Rest, Own
<1>6. Cardinality(Rest \cup Own)
         = Cardinality(Rest) + Cardinality(Own) - Cardinality(Rest \cap Own)
    BY <1>4, <1>5, FS_Union
<1>7. Cardinality(Rest \cap Own) = 0
    BY <1>2, FS_EmptySet
<1>8. Cardinality(Rest) \in Nat /\ Cardinality(CpuUnits(rows, S)) \in Nat
    BY <1>5, FS_CardinalityType
<1> QED BY <1>1, <1>3, <1>4, <1>6, <1>7, <1>8 DEF CpuOf, Rest

LEMMA CpuOfType ==
    ASSUME NEW rows \in [Server -> ServerRow], NEW S \in SUBSET Server
    PROVE  CpuOf(rows, S) \in Nat
BY UnitsFinite, FS_CardinalityType DEF CpuOf

LEMMA CpuOfMonotone ==
    ASSUME NEW rows \in [Server -> ServerRow],
           NEW T \in SUBSET Server, NEW S \in SUBSET T
    PROVE  CpuOf(rows, S) <= CpuOf(rows, T)
<1>1. CpuUnits(rows, S) \in SUBSET CpuUnits(rows, T)
    BY DEF CpuUnits
<1>2. IsFiniteSet(CpuUnits(rows, T))
    BY UnitsFinite
<1> QED BY <1>1, <1>2, FS_Subset DEF CpuOf

\* The CPU of a set depends on the requests of its members alone.
LEMMA CpuOfSame ==
    ASSUME NEW rows, NEW after, NEW S,
           \A s \in S : after[s].cpu = rows[s].cpu
    PROVE  CpuOf(after, S) = CpuOf(rows, S)
BY DEF CpuOf, CpuUnits

LEMMA HoldingFinite ==
    ASSUME NEW rows, NEW rs, NEW r
    PROVE  /\ Holding(rows, rs, r) \in SUBSET Server
           /\ IsFiniteSet(Holding(rows, rs, r))
           /\ Cardinality(Holding(rows, rs, r)) \in Nat
<1>1. Holding(rows, rs, r) \in SUBSET Server
    BY DEF Holding
<1> QED BY <1>1, QuotaConstants, FS_Subset, FS_CardinalityType DEF QuotaConstants

LEMMA UsageOfType ==
    ASSUME NEW rows \in [Server -> ServerRow], NEW rs, NEW r
    PROVE  UsageOf(rows, rs, r) \in Usage
BY HoldingFinite, CpuOfType DEF UsageOf, Usage

\* A counter at most as high as the table says stays so when a row is written
\* with a status that keeps its share.
LEMMA RowKept ==
    ASSUME NEW rows \in [Server -> ServerRow], NEW s \in Server,
           NEW a \in AvailabilityStatus, a \notin QuotaReleasing,
           rows[s].status # NoRow,
           NEW rs, NEW r, NEW u \in Usage, AtMost(u, UsageOf(rows, rs, r))
    PROVE  AtMost(u, UsageOf([rows EXCEPT ![s].status = a], rs, r))
<1> DEFINE after == [rows EXCEPT ![s].status = a]
           H == Holding(rows, rs, r)
           G == Holding(after, rs, r)
<1>1. after \in [Server -> ServerRow]
    BY DEF ServerRow
<1>2. \A x \in Server : after[x].cpu = rows[x].cpu /\ after[x].name = rows[x].name
    BY DEF ServerRow
<1>3. H \subseteq G
    <2>1. a # NoRow
        BY DEF AvailabilityStatus, NoRow
    <2> QED BY <1>2, <2>1 DEF Holding, ServerRow
<1>4. H \in SUBSET Server /\ G \in SUBSET Server
    BY DEF Holding
<1>5. IsFiniteSet(G) /\ Cardinality(G) \in Nat /\ Cardinality(H) \in Nat
    BY HoldingFinite
<1> HIDE DEF after, H, G
<1>6. Cardinality(H) <= Cardinality(G)
    BY <1>3, <1>5, FS_Subset
<1>7. CpuOf(rows, H) <= CpuOf(after, G)
    <2>1. CpuOf(after, H) <= CpuOf(after, G)
        BY <1>1, <1>3, <1>4, CpuOfMonotone
    <2>2. CpuOf(after, H) = CpuOf(rows, H)
        BY <1>2, <1>4, CpuOfSame
    <2> QED BY <2>1, <2>2
<1>8. CpuOf(rows, H) \in Nat /\ CpuOf(after, G) \in Nat
    BY <1>1, <1>4, CpuOfType
<1>9. AtMost(u, UsageOf(after, rs, r))
    BY <1>5, <1>6, <1>7, <1>8 DEF AtMost, UsageOf, Usage, H, G
<1> QED BY <1>9 DEF after

\* Writing a status that gives the share up lowers what the table says of the
\* row's rule by no more than Subtract takes off its counters, and says the
\* same of every other rule.
LEMMA RowReleased ==
    ASSUME NEW rows \in [Server -> ServerRow], NEW s \in Server,
           NEW a \in QuotaReleasing,
           NEW rs, NEW r, NEW u \in Usage, AtMost(u, UsageOf(rows, rs, r))
    PROVE  LET after == [rows EXCEPT ![s].status = a]
           IN  /\ AtMost(Subtract(u, rows[s].cpu), UsageOf(after, rs, r))
               /\ r # RuleOf(rs, rows[s].name) => AtMost(u, UsageOf(after, rs, r))
<1> DEFINE after == [rows EXCEPT ![s].status = a]
           H == Holding(rows, rs, r)
           G == Holding(after, rs, r)
<1>1. after \in [Server -> ServerRow]
    BY DEF ServerRow, QuotaReleasing, AvailabilityStatus
<1>2. \A x \in Server : after[x].cpu = rows[x].cpu /\ after[x].name = rows[x].name
    BY DEF ServerRow
<1>3. G = H \ {s}
    BY <1>2 DEF Holding, ServerRow
<1>4. r # RuleOf(rs, rows[s].name) => s \notin H
    BY DEF Holding
<1>5. H \in SUBSET Server /\ IsFiniteSet(H) /\ Cardinality(H) \in Nat
    BY HoldingFinite
<1>6. rows[s].cpu \in Nat
    BY DEF ServerRow
<1>7. G \in SUBSET Server /\ Cardinality(G) \in Nat
    BY HoldingFinite
<1> HIDE DEF after, H, G
<1>8. CpuOf(after, G) = CpuOf(rows, G)
    BY <1>2, <1>7, CpuOfSame
<1>9. CpuOf(rows, H) \in Nat /\ CpuOf(rows, G) \in Nat
    BY <1>5, <1>7, CpuOfType
<1>10. /\ u.cpu \in Nat /\ u.pods \in Nat
       /\ u.cpu <= CpuOf(rows, H) /\ u.pods <= Cardinality(H)
    BY DEF AtMost, UsageOf, Usage, H
<1>11. CASE s \in H
    <2>1. CpuOf(rows, G) = CpuOf(rows, H) - rows[s].cpu
        BY <1>3, <1>5, <1>11, CpuOfWithout
    <2>2. Cardinality(G) = Cardinality(H) - 1
        BY <1>3, <1>5, <1>11, FS_RemoveElement
    <2>3. AtMost(Subtract(u, rows[s].cpu), UsageOf(after, rs, r))
        BY <1>5, <1>6, <1>7, <1>8, <1>9, <1>10, <2>1, <2>2
        DEF AtMost, Subtract, Less, UsageOf, G
    <2> QED BY <1>4, <1>11, <2>3 DEF after
<1>12. CASE s \notin H
    <2>1. G = H
        BY <1>3, <1>12
    <2>2. AtMost(u, UsageOf(after, rs, r))
        BY <1>8, <1>10, <2>1 DEF AtMost, UsageOf, G
    <2>3. AtMost(Subtract(u, rows[s].cpu), UsageOf(after, rs, r))
        BY <1>5, <1>6, <1>8, <1>9, <1>10, <2>1
        DEF AtMost, Subtract, Less, UsageOf, G
    <2> QED BY <2>2, <2>3 DEF after
<1> QED BY <1>11, <1>12

\* A new row raises what the table says of its own rule by what the counters
\* are raised, and says the same of every other rule.
LEMMA RowAdded ==
    ASSUME NEW rows \in [Server -> ServerRow], NEW s \in Server,
           rows[s].status = NoRow, NEW new \in ServerRow, new.status = "ALIVE",
           NEW rs, NEW r, NEW u \in Usage, AtMost(u, UsageOf(rows, rs, r))
    PROVE  LET after == [rows EXCEPT ![s] = new]
           IN  /\ AtMost(u, UsageOf(after, rs, r))
               /\ r = RuleOf(rs, new.name) =>
                     AtMost([cpu |-> u.cpu + new.cpu, pods |-> u.pods + 1],
                            UsageOf(after, rs, r))
<1> DEFINE after == [rows EXCEPT ![s] = new]
           H == Holding(rows, rs, r)
           G == Holding(after, rs, r)
<1>1. after \in [Server -> ServerRow]
    OBVIOUS
<1>2. s \notin H
    BY DEF Holding
<1>3. G = IF r = RuleOf(rs, new.name) THEN H \cup {s} ELSE H
    BY DEF Holding, NoRow, QuotaReleasing
<1>4. H \in SUBSET Server /\ IsFiniteSet(H) /\ Cardinality(H) \in Nat
    BY HoldingFinite
<1>5. new.cpu \in Nat /\ after[s].cpu = new.cpu
    BY DEF ServerRow
<1>6. \A x \in H : after[x].cpu = rows[x].cpu
    BY <1>2, <1>4
<1>7. /\ u.cpu \in Nat /\ u.pods \in Nat
      /\ u.cpu <= CpuOf(rows, H) /\ u.pods <= Cardinality(H)
    BY DEF AtMost, UsageOf, Usage, H
<1> HIDE DEF after, H, G
<1>8. CpuOf(after, H) = CpuOf(rows, H) /\ CpuOf(after, H) \in Nat
    BY <1>1, <1>4, <1>6, CpuOfSame, CpuOfType
<1>9. CASE r = RuleOf(rs, new.name)
    <2>1. G = H \cup {s} /\ G \in SUBSET Server /\ s \in G /\ G \ {s} = H
        BY <1>2, <1>3, <1>4, <1>9
    <2>2. CpuOf(after, G) \in Nat /\ CpuOf(after, H) = CpuOf(after, G) - new.cpu
        <3>1. CpuOf(after, G) \in Nat
            BY <1>1, <2>1, CpuOfType
        <3>2. CpuOf(after, G \ {s}) = CpuOf(after, G) - after[s].cpu
            BY <1>1, <2>1, CpuOfWithout
        <3> QED BY <1>5, <2>1, <3>1, <3>2
    <2>3. Cardinality(G) = Cardinality(H) + 1
        BY <1>2, <1>4, <2>1, FS_AddElement
    <2> QED BY <1>4, <1>5, <1>7, <1>8, <2>2, <2>3 DEF AtMost, UsageOf, G, after
<1>10. CASE r # RuleOf(rs, new.name)
    <2>1. G = H
        BY <1>3, <1>10
    <2> QED BY <1>7, <1>8, <1>10, <2>1 DEF AtMost, UsageOf, G, after
<1> QED BY <1>9, <1>10

-----------------------------------------------------------------------------
(* Steps keep the types.                                                   *)

\* Which fields a request has follows from the statement its transaction is at.
LEMMA RequestAt ==
    ASSUME TypeOK, NEW t \in Txn, Coherent(t)
    PROVE  /\ pc[t] \in {"read", "write", "relock"} => req[t].server \in Server
           /\ pc[t] \in {"share", "match", "lock", "relock", "commit"} =>
                 req[t].kind = "reserve" \/ req[t].server \in Server
           /\ pc[t] \in {"share", "match", "lock", "relock", "commit"} =>
                 req[t].kind \in {"reserve", "heartbeat", "settle"}
           /\ pc[t] \in {"exclude", "count", "rebuild"} => req[t].edit \in Edit
           /\ pc[t] = "write" => req[t].status \in AvailabilityStatus \ QuotaReleasing
           /\ pc[t] = "commit" /\ req[t].kind # "reserve" =>
                 req[t].status \in QuotaReleasing
<1>1. req[t] \in Request
    BY DEF TypeOK
<1> QED BY <1>1, RequestFields DEF Coherent

LEMMA BlankType == Blank \in Memory /\ NoRequest \in Request
BY DEF Blank, Memory, NoRequest, Request, NoUsage, Usage, NoRuleRow, RuleRow

\* Types are kept by every step of a transaction, and by a claim.
LEMMA TypeStep ==
    ASSUME TypeOK, \A t \in Txn : Coherent(t), [Next]_vars
    PROVE  TypeOK'
<1>1. ASSUME NEW t \in Txn, NEW start \in PC, NEW request \in Request,
             Open(t, start, request), mem' \in [Txn -> Memory]
      PROVE  TypeOK'
    BY <1>1 DEF Open, TypeOK, tables
<1>2. ASSUME NEW t \in Txn, Close(t)
      PROVE  pc' \in [Txn -> PC] /\ req' \in [Txn -> Request] /\ mem' \in [Txn -> Memory]
    BY <1>2, BlankType DEF Close, TypeOK, PC
<1>3. ASSUME NEW t \in Txn, NEW next \in PC, Goto(t, next)
      PROVE  pc' \in [Txn -> PC] /\ req' \in [Txn -> Request]
    BY <1>3 DEF Goto, TypeOK
<1>4. ASSUME NEW t \in Txn, Begin(t) PROVE TypeOK'
    <2>1. ASSUME NEW n \in Name, NEW c \in Cpu, BeginReserve(t, n, c) PROVE TypeOK'
        <3>1. [kind |-> "reserve", name |-> n, cpu |-> c] \in Request
            BY DEF Request
        <3> QED BY <1>1, <2>1, <3>1 DEF BeginReserve, PC, TypeOK
    <2>2. ASSUME NEW s \in Server, NEW a \in Written, BeginHeartbeat(t, s, a) PROVE TypeOK'
        <3>1. [kind |-> "heartbeat", server |-> s, status |-> a] \in Request
            BY DEF Request
        <3> QED BY <1>1, <2>2, <3>1 DEF BeginHeartbeat, PC, TypeOK
    <2>3. ASSUME NEW s \in Server, BeginSettle(t, s) PROVE TypeOK'
        <3>1. [kind |-> "settle", server |-> s, status |-> "STOPPED"] \in Request
            BY DEF Request
        <3> QED BY <1>1, <2>3, <3>1 DEF BeginSettle, PC, TypeOK
    <2>4. ASSUME NEW e \in Edits, BeginEdit(t, e) PROVE TypeOK'
        <3>1. [kind |-> "edit", edit |-> e] \in Request
            BY DEF Request
        <3>2. e \in Edit
            BY QuotaConstants DEF QuotaConstants
        <3>3. mem' \in [Txn -> Memory]
            <4>1. CASE e.op = "update"
                <5>1. rules[e.rule] \in RuleRow /\ used[e.rule] \in Usage
                    BY <3>2, <4>1 DEF Edit, TypeOK
                <5> QED BY <2>4, <4>1, <5>1 DEF BeginEdit, TypeOK, Memory
            <4>2. CASE e.op # "update"
                BY <2>4, <4>2 DEF BeginEdit, TypeOK
            <4> QED BY <4>1, <4>2
        <3> QED BY <1>1, <2>4, <3>1, <3>3 DEF BeginEdit, PC
    <2> QED BY <1>4, <2>1, <2>2, <2>3, <2>4 DEF Begin
<1>5. ASSUME NEW t \in Txn, Step(t) PROVE TypeOK'
    <2>1. CASE ReadServer(t)
        <3>1. CASE Close(t)
            BY <1>2, <2>1, <3>1 DEF ReadServer, TypeOK, tables
        <3>2. CASE ~Close(t)
            <4>1. req[t].server \in Server
                BY <2>1, RequestAt DEF ReadServer
            <4>2. servers[req[t].server].status \in AvailabilityStatus \cup {NoRow}
                BY <4>1 DEF TypeOK, ServerRow
            <4>3. mem' = [mem EXCEPT ![t].loaded = servers[req[t].server].status]
                BY <2>1, <3>2 DEF ReadServer
            <4>4. mem' \in [Txn -> Memory]
                BY <4>2, <4>3 DEF TypeOK, Memory
            <4> QED BY <1>3, <2>1, <3>2, <4>4 DEF ReadServer, TypeOK, tables, PC
        <3> QED BY <3>1, <3>2
    <2>2. CASE CommitHeartbeat(t)
        <3>1. req[t].server \in Server /\ req[t].status \in AvailabilityStatus
            BY <2>2, RequestAt DEF CommitHeartbeat
        <3>2. servers' \in [Server -> ServerRow]
            BY <2>2, <3>1 DEF CommitHeartbeat, TypeOK, ServerRow, NetChange
        <3> QED BY <1>2, <2>2, <3>2 DEF CommitHeartbeat, TypeOK
    <2>3. CASE ShareRuleSet(t)
        BY <1>3, <2>3 DEF ShareRuleSet, TypeOK, tables, PC
    <2>4. CASE MatchRule(t)
        <3>1. req[t] \in Request /\ NameOf(req[t]) \in Name
            BY <2>4, RequestAt, NameOfType DEF MatchRule, TypeOK
        <3>2. RuleOf(rules, NameOf(req[t])) \in Rule \cup {NoRule}
            BY <3>1, RuleOfType DEF TypeOK
        <3>3. CASE Close(t)
            BY <1>2, <2>4, <3>3 DEF MatchRule, TypeOK, tables
        <3>4. CASE ~Close(t)
            <4>1. mem' \in [Txn -> Memory]
                BY <2>4, <3>2, <3>4 DEF MatchRule, TypeOK, Memory
            <4> QED BY <1>3, <2>4, <3>4, <4>1 DEF MatchRule, TypeOK, tables, PC
        <3> QED BY <3>3, <3>4
    <2>5. CASE LockRule(t)
        <3>1. used[mem[t].winner] \in Usage
            BY <2>5 DEF LockRule, Coherent, TypeOK
        <3>2. mem' \in [Txn -> Memory]
            BY <2>5, <3>1 DEF LockRule, TypeOK, Memory
        <3> QED BY <1>3, <2>5, <3>2 DEF LockRule, TypeOK, tables, PC
    <2>6. CASE RelockServer(t)
        BY <1>2, <1>3, <2>6 DEF RelockServer, TypeOK, tables, PC
    <2>7. ASSUME NEW s \in Server, CommitReserve(t, s) PROVE TypeOK'
        <3>1. req[t].name \in Name /\ req[t].cpu \in Nat
            BY <2>7, RequestFields DEF CommitReserve, TypeOK
        <3>2. [status |-> "ALIVE", name |-> req[t].name, cpu |-> req[t].cpu] \in ServerRow
            BY <3>1 DEF ServerRow, AvailabilityStatus
        <3>3. [cpu |-> mem[t].seen.cpu + req[t].cpu, pods |-> mem[t].seen.pods + 1] \in Usage
            BY <3>1 DEF TypeOK, Memory, Usage
        <3>4. used' \in [Rule -> Usage] /\ servers' \in [Server -> ServerRow]
            BY <2>7, <3>2, <3>3 DEF CommitReserve, TypeOK
        <3> QED BY <1>2, <2>7, <3>4 DEF CommitReserve, TypeOK
    <2>8. CASE CommitRelease(t)
        <3>1. /\ req[t].server \in Server
              /\ req[t].status \in AvailabilityStatus
              /\ CpuShare(req[t]) \in Nat
            BY <2>8, RequestFields DEF CommitRelease, TypeOK, CpuShare, ServerRow
        <3>2. Subtract(mem[t].seen, CpuShare(req[t])) \in Usage
            BY <3>1, SubtractType DEF TypeOK, Memory
        <3>3. used' \in [Rule -> Usage] /\ servers' \in [Server -> ServerRow]
            BY <2>8, <3>1, <3>2 DEF CommitRelease, TypeOK, ServerRow
        <3> QED BY <1>2, <2>8, <3>3 DEF CommitRelease, TypeOK
    <2>9. CASE ExcludeQuota(t)
        BY <1>2, <1>3, <2>9 DEF ExcludeQuota, TypeOK, tables, PC
    <2>10. CASE CountUsage(t)
        <3>1. [r \in Rule |-> UsageOf(servers, EditedRules(t), r)] \in [Rule -> Usage]
            BY UsageOfType DEF TypeOK
        <3>2. mem' \in [Txn -> Memory]
            BY <2>10, <3>1 DEF CountUsage, TypeOK, Memory
        <3> QED BY <1>3, <2>10, <3>2 DEF CountUsage, TypeOK, tables, PC
    <2>11. CASE CommitEdit(t)
        <3>1. rules' \in [Rule -> RuleRow]
            BY <2>11, EditedRulesType DEF CommitEdit, Coherent
        <3>2. used' \in [Rule -> Usage]
            BY <2>11, RebuiltType DEF CommitEdit
        <3> QED BY <1>2, <2>11, <3>1, <3>2 DEF CommitEdit, TypeOK
    <2> QED BY <1>5, <2>1, <2>2, <2>3, <2>4, <2>5, <2>6, <2>7, <2>8, <2>9, <2>10, <2>11
            DEF Step
<1>6. ASSUME NEW s \in Server, Claim(s) PROVE TypeOK'
    BY <1>6 DEF Claim, TypeOK, ServerRow, AvailabilityStatus
<1>7. CASE UNCHANGED vars
    BY <1>7 DEF vars, TypeOK
<1> QED BY <1>4, <1>5, <1>6, <1>7 DEF Next

-----------------------------------------------------------------------------
(* Steps keep locks exclusive and transactions coherent.                   *)

\* A transaction's step leaves the other transactions where they are.
LEMMA OtherSlots ==
    ASSUME TypeOK, NEW t \in Txn, Begin(t) \/ Step(t), NEW u \in Txn, u # t
    PROVE  pc'[u] = pc[u] /\ req'[u] = req[u] /\ mem'[u] = mem[u]
<1>1. CASE Begin(t)
    BY <1>1 DEF Begin, BeginReserve, BeginHeartbeat, BeginSettle, BeginEdit, Open, TypeOK
<1>2. CASE Step(t)
    <2> USE DEF Goto, Close, TypeOK
    <2>1. CASE ReadServer(t)
        BY <2>1 DEF ReadServer
    <2>2. CASE CommitHeartbeat(t)
        BY <2>2 DEF CommitHeartbeat
    <2>3. CASE ShareRuleSet(t)
        BY <2>3 DEF ShareRuleSet
    <2>4. CASE MatchRule(t)
        BY <2>4 DEF MatchRule
    <2>5. CASE LockRule(t)
        BY <2>5 DEF LockRule
    <2>6. CASE RelockServer(t)
        BY <2>6 DEF RelockServer
    <2>7. ASSUME NEW s \in Server, CommitReserve(t, s)
          PROVE  pc'[u] = pc[u] /\ req'[u] = req[u] /\ mem'[u] = mem[u]
        BY <2>7 DEF CommitReserve
    <2>8. CASE CommitRelease(t)
        BY <2>8 DEF CommitRelease
    <2>9. CASE ExcludeQuota(t)
        BY <2>9 DEF ExcludeQuota
    <2>10. CASE CountUsage(t)
        BY <2>10 DEF CountUsage
    <2>11. CASE CommitEdit(t)
        BY <2>11 DEF CommitEdit
    <2> QED BY <1>2, <2>1, <2>2, <2>3, <2>4, <2>5, <2>6, <2>7, <2>8, <2>9, <2>10, <2>11
            DEF Step
<1> QED BY <1>1, <1>2

\* Where a transaction's own step leaves it, and which locks it then holds.
LEMMA OwnSlot ==
    ASSUME TypeOK, NEW t \in Txn, Coherent(t), Begin(t) \/ Step(t)
    PROVE  /\ Coherent(t)'
           /\ HoldsShared(t)' => HoldsShared(t) \/ \A u \in Txn : ~HoldsExclusive(u)
           /\ HoldsExclusive(t)' => HoldsExclusive(t)
                                       \/ \A u \in Txn : ~HoldsShared(u) /\ ~HoldsExclusive(u)
           /\ \A r \in Rule : HoldsRule(t, r)' => HoldsRule(t, r) \/ RuleFree(t, r)
<1> DEFINE Goal ==
           /\ Coherent(t)'
           /\ HoldsShared(t)' => HoldsShared(t) \/ \A u \in Txn : ~HoldsExclusive(u)
           /\ HoldsExclusive(t)' => HoldsExclusive(t)
                                       \/ \A u \in Txn : ~HoldsShared(u) /\ ~HoldsExclusive(u)
           /\ \A r \in Rule : HoldsRule(t, r)' => HoldsRule(t, r) \/ RuleFree(t, r)
<1> USE DEF HoldsShared, HoldsExclusive, HoldsRule, Coherent, TypeOK
<1>1. CASE pc'[t] = "idle" /\ req'[t] = NoRequest /\ mem'[t] = Blank
    BY <1>1 DEF NoRequest, Blank
<1>2. CASE Begin(t)
    <2>1. pc[t] = "idle" /\ mem'[t].winner = mem[t].winner
        <3>1. ASSUME NEW e \in Edits, BeginEdit(t, e) PROVE mem'[t].winner = mem[t].winner
            <4>1. CASE mem' = mem
                BY <4>1
            <4>2. CASE mem' = [mem EXCEPT ![t].row = rules[e.rule], ![t].seen = used[e.rule]]
                <5>1. mem \in [Txn -> Memory]
                    OBVIOUS
                <5>2. mem'[t] = [mem[t] EXCEPT !.row = rules[e.rule], !.seen = used[e.rule]]
                    BY ONLY <4>2, <5>1
                <5> QED BY ONLY <5>1, <5>2 DEF Memory
            <4> QED BY <3>1, <4>1, <4>2 DEF BeginEdit
        <3> QED BY <1>2, <3>1
                DEF Begin, BeginReserve, BeginHeartbeat, BeginSettle, BeginEdit, Open
    <2>2. ASSUME NEW n \in Name, NEW c \in Cpu, BeginReserve(t, n, c) PROVE Goal
        <3>1. pc'[t] = "share" /\ req'[t].kind = "reserve"
            BY <2>2 DEF BeginReserve, Open
        <3> QED BY <2>1, <3>1
    <2>3. ASSUME NEW s \in Server, NEW a \in Written, BeginHeartbeat(t, s, a) PROVE Goal
        <3>1. pc'[t] = "read" /\ req'[t].kind = "heartbeat"
            BY <2>3 DEF BeginHeartbeat, Open
        <3> QED BY <2>1, <3>1
    <2>4. ASSUME NEW s \in Server, BeginSettle(t, s) PROVE Goal
        <3>1. pc'[t] = "read" /\ req'[t].kind = "settle"
            BY <2>4 DEF BeginSettle, Open
        <3> QED BY <2>1, <3>1
    <2>5. ASSUME NEW e \in Edits, BeginEdit(t, e) PROVE Goal
        <3>1. pc'[t] = "exclude" /\ req'[t].kind = "edit"
            BY <2>5 DEF BeginEdit, Open
        <3> QED BY <2>1, <3>1
    <2> QED BY <1>2, <2>2, <2>3, <2>4, <2>5 DEF Begin
<1>3. CASE Step(t)
    <2>0. Close(t) => Goal
        BY <1>1 DEF Close
    <2> USE DEF Goto
    <2>1. CASE ReadServer(t)
        <3>1. CASE ~Close(t)
            <4>1. req[t].kind = "settle" => req[t].status = "STOPPED"
                BY RequestFields
            <4>2. /\ pc[t] = "read"
                  /\ mem'[t].winner = mem[t].winner
                  /\ req'[t] = req[t]
                  /\ pc'[t] = IF req[t].status \in QuotaReleasing THEN "share" ELSE "write"
                BY <2>1, <3>1 DEF ReadServer, Memory
            <4> QED BY <4>1, <4>2 DEF QuotaReleasing
        <3> QED BY <2>0, <3>1
    <2>2. CASE CommitHeartbeat(t)
        BY <2>0, <2>2 DEF CommitHeartbeat
    <2>3. CASE ShareRuleSet(t)
        BY <2>3 DEF ShareRuleSet
    <2>4. CASE MatchRule(t)
        <3>1. CASE ~Close(t)
            <4>1. RuleOf(rules, NameOf(req[t])) \in Rule \cup {NoRule}
                BY <2>4, RequestAt, NameOfType, RuleOfType DEF MatchRule
            <4>2. NoRule \notin Rule
                BY QuotaConstants DEF QuotaConstants
            <4>3. CASE RuleOf(rules, NameOf(req[t])) = NoRule
                BY <2>4, <3>1, <4>2, <4>3 DEF MatchRule
            <4>4. CASE RuleOf(rules, NameOf(req[t])) \in Rule
                <5>1. /\ pc[t] = "match" /\ pc'[t] = "lock" /\ req'[t] = req[t]
                      /\ mem'[t].winner = RuleOf(rules, NameOf(req[t]))
                    BY <2>4, <3>1, <4>2, <4>4 DEF MatchRule, Memory
                <5> QED BY <4>4, <5>1
            <4> QED BY <4>1, <4>3, <4>4
        <3> QED BY <2>0, <3>1
    <2>5. CASE LockRule(t)
        <3>1. mem'[t].winner = mem[t].winner
            BY <2>5 DEF LockRule
        <3>2. req[t].kind \in {"reserve", "heartbeat", "settle"}
            BY <2>5 DEF LockRule
        <3> QED BY <2>5, <3>1, <3>2 DEF LockRule
    <2>6. CASE RelockServer(t)
        BY <2>0, <2>6 DEF RelockServer
    <2>7. ASSUME NEW s \in Server, CommitReserve(t, s) PROVE Goal
        BY <2>0, <2>7 DEF CommitReserve
    <2>8. CASE CommitRelease(t)
        BY <2>0, <2>8 DEF CommitRelease
    <2>9. CASE ExcludeQuota(t)
        BY <2>0, <2>9 DEF ExcludeQuota
    <2>10. CASE CountUsage(t)
        BY <2>10 DEF CountUsage
    <2>11. CASE CommitEdit(t)
        BY <2>0, <2>11 DEF CommitEdit
    <2> QED BY <1>3, <2>1, <2>2, <2>3, <2>4, <2>5, <2>6, <2>7, <2>8, <2>9, <2>10, <2>11
            DEF Step
<1> QED BY <1>2, <1>3

\* A claim, and a step that stutters, move no transaction.
LEMMA NoSlot ==
    ASSUME UNCHANGED vars \/ \E s \in Server : Claim(s)
    PROVE  pc' = pc /\ req' = req /\ mem' = mem /\ rules' = rules /\ used' = used
BY DEF vars, Claim

LEMMA LocksStep ==
    ASSUME TypeOK, \A t \in Txn : Coherent(t), LocksExclude, [Next]_vars
    PROVE  LocksExclude' /\ \A t \in Txn : Coherent(t)'
<1>1. CASE UNCHANGED vars \/ \E s \in Server : Claim(s)
    BY <1>1, NoSlot
    DEF LocksExclude, Coherent, HoldsShared, HoldsExclusive, HoldsRule
<1>2. ASSUME NEW t \in Txn, Begin(t) \/ Step(t)
      PROVE  LocksExclude' /\ \A u \in Txn : Coherent(u)'
    <2>1. \A u \in Txn \ {t} : pc'[u] = pc[u] /\ req'[u] = req[u] /\ mem'[u] = mem[u]
        BY <1>2, OtherSlots
    <2>2. \A u \in Txn \ {t} :
              /\ Coherent(u)'
              /\ HoldsShared(u)' = HoldsShared(u)
              /\ HoldsExclusive(u)' = HoldsExclusive(u)
              /\ \A r \in Rule : HoldsRule(u, r)' = HoldsRule(u, r)
        BY <2>1 DEF Coherent, HoldsShared, HoldsExclusive, HoldsRule
    <2>3. /\ Coherent(t)'
          /\ HoldsShared(t)' => HoldsShared(t) \/ \A u \in Txn : ~HoldsExclusive(u)
          /\ HoldsExclusive(t)' => HoldsExclusive(t)
                                      \/ \A u \in Txn : ~HoldsShared(u) /\ ~HoldsExclusive(u)
          /\ \A r \in Rule : HoldsRule(t, r)' => HoldsRule(t, r) \/ RuleFree(t, r)
        BY <1>2, OwnSlot
    <2> HIDE DEF Coherent, HoldsShared, HoldsExclusive, HoldsRule
    <2>4. LocksExclude'
        BY <2>2, <2>3 DEF LocksExclude, RuleFree
    <2> QED BY <2>2, <2>3, <2>4
<1> QED BY <1>1, <1>2 DEF Next

-----------------------------------------------------------------------------
(* Which step may write which row.                                         *)

\* Every step of a transaction but the four commits leaves the tables alone.
LEMMA TablesStep ==
    ASSUME NEW t \in Txn, Begin(t) \/ Step(t)
    PROVE  \/ UNCHANGED tables
           \/ CommitHeartbeat(t)
           \/ \E s \in Server : CommitReserve(t, s)
           \/ CommitRelease(t)
           \/ CommitEdit(t)
BY DEF Begin, BeginReserve, BeginHeartbeat, BeginSettle, BeginEdit, Open, Step,
       ReadServer, ShareRuleSet, MatchRule, LockRule, RelockServer, ExcludeQuota,
       CountUsage

\* A row, once inserted, keeps its name and request, and is never taken out.
RowPersists(s) ==
    servers[s].status # NoRow =>
        /\ servers'[s].status # NoRow
        /\ servers'[s].name = servers[s].name
        /\ servers'[s].cpu = servers[s].cpu

LEMMA RowsStep ==
    ASSUME TypeOK, \A t \in Txn : Coherent(t), [Next]_vars, NEW s \in Server
    PROVE  RowPersists(s)
<1> USE DEF RowPersists
<1>1. ASSUME NEW t \in Txn, Begin(t) \/ Step(t) PROVE RowPersists(s)
    <2>1. CASE UNCHANGED tables
        BY <2>1 DEF tables
    <2>2. CASE CommitHeartbeat(t)
        <3>1. req[t].server \in Server /\ req[t].status \in AvailabilityStatus
            BY <2>2, RequestAt DEF CommitHeartbeat
        <3>2. req[t].status # NoRow
            BY <3>1 DEF AvailabilityStatus, NoRow
        <3> QED BY <2>2, <3>1, <3>2 DEF CommitHeartbeat, TypeOK, ServerRow, NetChange
    <2>3. ASSUME NEW x \in Server, CommitReserve(t, x) PROVE RowPersists(s)
        BY <2>3 DEF CommitReserve, TypeOK
    <2>4. CASE CommitRelease(t)
        <3>1. req[t].server \in Server /\ req[t].status \in QuotaReleasing
            BY <2>4, RequestAt DEF CommitRelease
        <3>2. req[t].status # NoRow
            BY <3>1 DEF QuotaReleasing, NoRow
        <3> QED BY <2>4, <3>1, <3>2 DEF CommitRelease, TypeOK, ServerRow
    <2>5. CASE CommitEdit(t)
        BY <2>5 DEF CommitEdit
    <2> QED BY <1>1, <2>1, <2>2, <2>3, <2>4, <2>5, TablesStep
<1>2. ASSUME NEW x \in Server, Claim(x) PROVE RowPersists(s)
    BY <1>2 DEF Claim, TypeOK, ServerRow, NoRow
<1>3. CASE UNCHANGED vars
    BY <1>3 DEF vars
<1> QED BY <1>1, <1>2, <1>3 DEF Next

\* A rule set is replaced under the exclusive lock, a counter written under it
\* or under its row lock, a row locked by a settle only by that settle.
LEMMA WritesStep ==
    ASSUME TypeOK, \A t \in Txn : Coherent(t), NEW t \in Txn, Begin(t) \/ Step(t)
    PROVE  /\ rules' # rules => HoldsExclusive(t)
           /\ \A r \in Rule : used'[r] # used[r] => HoldsExclusive(t) \/ HoldsRule(t, r)
           /\ \A s \in Server : servers'[s] # servers[s] =>
                 \A u \in Txn \ {t} : ~HoldsServer(u, s) \/ servers[s].status = NoRow
<1> DEFINE Goal ==
           /\ rules' # rules => HoldsExclusive(t)
           /\ \A r \in Rule : used'[r] # used[r] => HoldsExclusive(t) \/ HoldsRule(t, r)
           /\ \A s \in Server : servers'[s] # servers[s] =>
                 \A u \in Txn \ {t} : ~HoldsServer(u, s) \/ servers[s].status = NoRow
<1>1. CASE UNCHANGED tables
    BY <1>1 DEF tables
<1>2. CASE CommitHeartbeat(t)
    BY <1>2 DEF CommitHeartbeat, ServerFree, TypeOK
<1>3. ASSUME NEW s \in Server, CommitReserve(t, s) PROVE Goal
    BY <1>3 DEF CommitReserve, HoldsRule, TypeOK
<1>4. CASE CommitRelease(t)
    <2>1. mem[t].winner \in Rule \cup {NoRule}
        BY DEF TypeOK, Memory
    <2>2. \A r \in Rule : used'[r] # used[r] => HoldsRule(t, r)
        BY <1>4, <2>1 DEF CommitRelease, HoldsRule, TypeOK
    <2> QED BY <1>4, <2>2 DEF CommitRelease, ServerFree, TypeOK
<1>5. CASE CommitEdit(t)
    BY <1>5 DEF CommitEdit, HoldsExclusive
<1> QED BY <1>1, <1>2, <1>3, <1>4, <1>5, TablesStep

-----------------------------------------------------------------------------
(* Steps keep what a transaction has read true.                            *)

LEMMA RowStandsStep ==
    ASSUME TypeOK, \A t \in Txn : Coherent(t) /\ RowStands(t), [Next]_vars
    PROVE  \A u \in Txn : RowStands(u)'
<1> SUFFICES ASSUME NEW u \in Txn PROVE RowStands(u)'
    OBVIOUS
<1>0. req[u].kind \in {"heartbeat", "settle"} => req[u].server \in Server
    BY RequestFields DEF TypeOK
<1>1. CASE UNCHANGED vars
    BY <1>1 DEF vars, RowStands
<1>2. ASSUME NEW s \in Server, Claim(s) PROVE RowStands(u)'
    BY <1>0, <1>2 DEF Claim, RowStands, HoldsServer, TypeOK, ServerRow, NoRow
<1>3. ASSUME NEW t \in Txn, Begin(t) \/ Step(t), u # t PROVE RowStands(u)'
    <2>1. pc'[u] = pc[u] /\ req'[u] = req[u]
        BY <1>3, OtherSlots
    <2>2. \A s \in Server : RowPersists(s)
        BY <1>3, RowsStep DEF Next
    <2>3. \A s \in Server : HoldsServer(u, s) /\ servers[s].status # NoRow =>
              servers'[s] = servers[s]
        BY <1>3, WritesStep
    <2> QED BY <1>0, <2>1, <2>2, <2>3 DEF RowStands, RowPersists, HoldsServer
<1>4. ASSUME Begin(u) PROVE RowStands(u)'
    <2>1. ASSUME NEW n \in Name, NEW c \in Cpu, BeginReserve(u, n, c) PROVE RowStands(u)'
        BY <2>1 DEF BeginReserve, Open, RowStands, TypeOK
    <2>2. ASSUME NEW s \in Server, NEW a \in Written, BeginHeartbeat(u, s, a)
          PROVE  RowStands(u)'
        BY <2>2 DEF BeginHeartbeat, Open, RowStands, TypeOK, tables
    <2>3. ASSUME NEW s \in Server, BeginSettle(u, s) PROVE RowStands(u)'
        BY <2>3 DEF BeginSettle, Open, RowStands, TypeOK, tables, NoRow
    <2>4. ASSUME NEW e \in Edits, BeginEdit(u, e) PROVE RowStands(u)'
        BY <2>4 DEF BeginEdit, Open, RowStands, TypeOK
    <2> QED BY <1>4, <2>1, <2>2, <2>3, <2>4 DEF Begin
<1>5. ASSUME Step(u) PROVE RowStands(u)'
    <2>1. ASSUME Close(u) PROVE RowStands(u)'
        BY <2>1 DEF Close, NoRequest, RowStands, TypeOK
    <2>2. ASSUME NEW next, Goto(u, next), UNCHANGED tables,
                 next = "commit" /\ req[u].kind = "settle" => Unsettled(req[u].server)
          PROVE  RowStands(u)'
        BY <2>2 DEF Goto, RowStands, TypeOK, tables, Unsettled
    <2>3. CASE ReadServer(u)
        BY <2>1, <2>2, <2>3 DEF ReadServer
    <2>4. CASE MatchRule(u)
        BY <2>1, <2>2, <2>4 DEF MatchRule
    <2>5. CASE RelockServer(u)
        BY <2>1, <2>2, <2>5 DEF RelockServer
    <2>6. CASE ShareRuleSet(u) \/ LockRule(u) \/ ExcludeQuota(u) \/ CountUsage(u)
        BY <2>1, <2>2, <2>6 DEF ShareRuleSet, LockRule, ExcludeQuota, CountUsage
    <2>7. CASE \/ CommitHeartbeat(u) \/ (\E s \in Server : CommitReserve(u, s))
               \/ CommitRelease(u) \/ CommitEdit(u)
        BY <2>1, <2>7 DEF CommitHeartbeat, CommitReserve, CommitRelease, CommitEdit
    <2> QED BY <1>5, <2>3, <2>4, <2>5, <2>6, <2>7 DEF Step
<1> QED BY <1>1, <1>2, <1>3, <1>4, <1>5 DEF Next

LEMMA MatchStandsStep ==
    ASSUME TypeOK, LocksExclude, [Next]_vars,
           \A t \in Txn : Coherent(t) /\ RowStands(t) /\ MatchStands(t)
    PROVE  \A u \in Txn : MatchStands(u)'
<1> SUFFICES ASSUME NEW u \in Txn PROVE MatchStands(u)'
    OBVIOUS
\* The name a request is matched by cannot change under it.
<1>0. ASSUME pc[u] \in {"share", "match", "lock", "relock", "commit"}, req'[u] = req[u]
      PROVE  NameOf(req[u])' = NameOf(req[u])
    <2>1. req[u].kind # "reserve" =>
              req[u].server \in Server /\ servers[req[u].server].status # NoRow
        BY <1>0, RequestAt DEF RowStands
    <2>2. \A s \in Server : RowPersists(s)
        BY RowsStep
    <2> QED BY <1>0, <2>1, <2>2 DEF NameOf, RowPersists
<1>1. CASE UNCHANGED vars
    BY <1>1 DEF vars, MatchStands, RuleOf, Matching, NameOf
<1>2. ASSUME NEW s \in Server, Claim(s) PROVE MatchStands(u)'
    BY <1>0, <1>2, NoSlot DEF MatchStands
<1>3. ASSUME NEW t \in Txn, Begin(t) \/ Step(t), u # t PROVE MatchStands(u)'
    <2>1. pc'[u] = pc[u] /\ req'[u] = req[u] /\ mem'[u] = mem[u]
        BY <1>3, OtherSlots
    <2>2. CASE pc[u] \notin {"lock", "relock", "commit"}
        BY <2>1, <2>2 DEF MatchStands
    <2>3. CASE pc[u] \in {"lock", "relock", "commit"}
        <3>1. ~HoldsExclusive(t) /\ \A r \in Rule : ~(HoldsRule(t, r) /\ HoldsRule(u, r))
            BY <1>3, <2>3 DEF LocksExclude, HoldsShared
        <3>2. rules' = rules /\ \A r \in Rule : HoldsRule(u, r) => used'[r] = used[r]
            BY <1>3, <3>1, WritesStep
        <3> QED BY <1>0, <2>1, <2>3, <3>2 DEF MatchStands, HoldsRule
    <2> QED BY <2>2, <2>3
<1>4. CASE Begin(u)
    BY <1>4 DEF Begin, BeginReserve, BeginHeartbeat, BeginSettle, BeginEdit, Open,
                MatchStands, TypeOK
<1>5. CASE Step(u)
    <2>1. ASSUME Close(u) PROVE MatchStands(u)'
        BY <2>1 DEF Close, MatchStands, TypeOK
    <2>2. CASE ReadServer(u) \/ ShareRuleSet(u) \/ ExcludeQuota(u) \/ CountUsage(u)
        BY <2>1, <2>2
        DEF ReadServer, ShareRuleSet, ExcludeQuota, CountUsage, Goto, MatchStands, TypeOK
    <2>3. CASE MatchRule(u) /\ ~Close(u)
        <3>1. /\ pc[u] = "match" /\ req'[u] = req[u]
              /\ rules' = rules /\ servers' = servers /\ used' = used
            BY <2>3 DEF MatchRule, Goto, tables
        <3>2. mem[u].winner = NoRule
            BY <3>1 DEF Coherent
        <3>3. mem'[u].winner = RuleOf(rules, NameOf(req[u]))
            BY <2>3, <3>2 DEF MatchRule, TypeOK, Memory
        <3>4. pc'[u] \in {"relock", "commit"} => mem'[u].winner = NoRule
            BY <2>3, <3>2 DEF MatchRule, Goto, TypeOK
        <3> QED BY <1>0, <3>1, <3>3, <3>4, QuotaConstants DEF MatchStands, QuotaConstants
    <2>4. CASE LockRule(u)
        <3>1. /\ pc[u] = "lock" /\ req'[u] = req[u]
              /\ rules' = rules /\ servers' = servers /\ used' = used
              /\ mem'[u].winner = mem[u].winner
              /\ mem'[u].seen = used[mem[u].winner]
            BY <2>4 DEF LockRule, Goto, tables, TypeOK, Memory
        <3> QED BY <1>0, <3>1 DEF MatchStands
    <2>5. CASE RelockServer(u) /\ ~Close(u)
        <3>1. /\ pc[u] = "relock" /\ req'[u] = req[u] /\ mem' = mem
              /\ rules' = rules /\ servers' = servers /\ used' = used
            BY <2>5 DEF RelockServer, Goto, tables
        <3> QED BY <1>0, <3>1 DEF MatchStands
    <2>6. CASE \/ CommitHeartbeat(u) \/ (\E s \in Server : CommitReserve(u, s))
               \/ CommitRelease(u) \/ CommitEdit(u)
        BY <2>1, <2>6 DEF CommitHeartbeat, CommitReserve, CommitRelease, CommitEdit
    <2> QED BY <1>5, <2>1, <2>2, <2>3, <2>4, <2>5, <2>6 DEF Step
<1> QED BY <1>1, <1>2, <1>3, <1>4, <1>5 DEF Next

\* Without the rule-set lock no step lowers what the servers table says.
LEMMA UsageKept ==
    ASSUME TypeOK, \A t \in Txn : Coherent(t) /\ RowStands(t),
           \/ \E t \in Txn : (Begin(t) \/ Step(t)) /\ ~HoldsShared(t)
           \/ \E s \in Server : Claim(s),
           NEW rs, NEW r, NEW v \in Usage, AtMost(v, UsageOf(servers, rs, r))
    PROVE  AtMost(v, UsageOf(servers', rs, r))
<1>0. servers \in [Server -> ServerRow]
    BY DEF TypeOK
<1>1. ASSUME NEW t \in Txn, CommitHeartbeat(t)
      PROVE  AtMost(v, UsageOf(servers', rs, r))
    <2>1. /\ req[t].server \in Server
          /\ req[t].status \in AvailabilityStatus /\ req[t].status \notin QuotaReleasing
          /\ servers[req[t].server].status # NoRow
        BY <1>1, RequestAt DEF CommitHeartbeat, Coherent, RowStands
    <2>2. AtMost(v, UsageOf([servers EXCEPT ![req[t].server].status = req[t].status], rs, r))
        BY <1>0, <2>1, RowKept
    <2>3. /\ servers[req[t].server] \in ServerRow
          /\ servers' = [servers EXCEPT ![req[t].server].status =
                             NetChange(mem[t].loaded, @, req[t].status)]
        BY <1>0, <1>1, <2>1 DEF CommitHeartbeat
    <2>4. CASE req[t].status = mem[t].loaded
        <3>1. servers' = servers
            BY <1>0, <2>1, <2>3, <2>4 DEF NetChange, ServerRow
        <3> QED BY <3>1
    <2>5. CASE req[t].status # mem[t].loaded
        BY <2>2, <2>3, <2>5 DEF NetChange
    <2> QED BY <2>4, <2>5
<1>2. ASSUME NEW s \in Server, Claim(s)
      PROVE  AtMost(v, UsageOf(servers', rs, r))
    <2>1. /\ "REUSED" \in AvailabilityStatus /\ "REUSED" \notin QuotaReleasing
          /\ servers[s].status # NoRow
        BY <1>2 DEF Claim, AvailabilityStatus, QuotaReleasing, NoRow
    <2>2. AtMost(v, UsageOf([servers EXCEPT ![s].status = "REUSED"], rs, r))
        BY <1>0, <2>1, RowKept
    <2> QED BY <1>2, <2>2 DEF Claim
<1>3. ASSUME NEW t \in Txn, Begin(t) \/ Step(t), ~HoldsShared(t)
      PROVE  AtMost(v, UsageOf(servers', rs, r))
    <2>1. servers' = servers \/ CommitHeartbeat(t)
        BY <1>3, TablesStep
        DEF tables, HoldsShared, CommitReserve, CommitRelease, CommitEdit
    <2> QED BY <1>1, <2>1
<1> QED BY <1>2, <1>3

LEMMA CountStandsStep ==
    ASSUME TypeOK, LocksExclude, [Next]_vars,
           \A t \in Txn : Coherent(t) /\ RowStands(t) /\ CountStands(t)
    PROVE  \A u \in Txn : CountStands(u)'
<1> SUFFICES ASSUME NEW u \in Txn, pc'[u] = "rebuild", NEW r \in Rule
             PROVE  AtMost(mem'[u].count[r],
                           UsageOf(servers', EditedRules(u)', r))
    BY DEF CountStands
<1>1. CASE UNCHANGED vars
    BY <1>1 DEF vars, CountStands, EditedRules
<1>2. ASSUME pc[u] = "rebuild", req'[u] = req[u], mem'[u] = mem[u], rules' = rules,
             \/ \E t \in Txn : (Begin(t) \/ Step(t)) /\ ~HoldsShared(t)
             \/ \E s \in Server : Claim(s)
      PROVE  AtMost(mem'[u].count[r], UsageOf(servers', EditedRules(u)', r))
    <2>1. EditedRules(u)' = EditedRules(u)
        BY <1>2 DEF EditedRules
    <2>2. mem[u].count[r] \in Usage
        BY DEF TypeOK, Memory
    <2>3. AtMost(mem[u].count[r], UsageOf(servers, EditedRules(u), r))
        BY <1>2 DEF CountStands
    <2>4. AtMost(mem[u].count[r], UsageOf(servers', EditedRules(u), r))
        BY <1>2, <2>2, <2>3, UsageKept
    <2> QED BY <1>2, <2>1, <2>4
<1>3. CASE \E s \in Server : Claim(s)
    BY <1>2, <1>3, NoSlot
<1>4. ASSUME NEW t \in Txn, Begin(t) \/ Step(t), u # t
      PROVE  AtMost(mem'[u].count[r], UsageOf(servers', EditedRules(u)', r))
    <2>1. pc[u] = "rebuild" /\ req'[u] = req[u] /\ mem'[u] = mem[u]
        BY <1>4, OtherSlots
    <2>2. ~HoldsShared(t) /\ ~HoldsExclusive(t)
        BY <1>4, <2>1 DEF LocksExclude, HoldsExclusive
    <2>3. rules' = rules
        BY <1>4, <2>2, WritesStep
    <2> QED BY <1>2, <1>4, <2>1, <2>2, <2>3
<1>5. CASE Begin(u)
    BY <1>5 DEF Begin, BeginReserve, BeginHeartbeat, BeginSettle, BeginEdit, Open, TypeOK
<1>6. CASE Step(u)
    <2>1. pc[u] = "count" /\ CountUsage(u)
        BY <1>6
        DEF Step, ReadServer, CommitHeartbeat, ShareRuleSet, MatchRule, LockRule,
            RelockServer, CommitReserve, CommitRelease, ExcludeQuota, CountUsage,
            CommitEdit, Goto, Close, TypeOK
    <2>2. /\ mem'[u].count = [x \in Rule |-> UsageOf(servers, EditedRules(u), x)]
          /\ mem'[u].row = mem[u].row
          /\ req' = req /\ servers' = servers /\ rules' = rules
        BY <2>1 DEF CountUsage, Goto, tables, TypeOK, Memory
    <2>3. EditedRules(u)' = EditedRules(u)
        BY <2>2 DEF EditedRules
    <2>4. UsageOf(servers, EditedRules(u), r) \in Usage
        BY UsageOfType DEF TypeOK
    <2> QED BY <2>2, <2>3, <2>4 DEF AtMost, Usage
<1> QED BY <1>1, <1>3, <1>4, <1>5, <1>6 DEF Next

\* Neither an unmoved rule nor what the other rules leave to it is touched by
\* the update of its limits, so the servers charged to it are the same.
LEMMA UpdateMovesNothing ==
    ASSUME TypeOK, RowsUnmoved, NEW t \in Txn, pc[t] = "rebuild", Coherent(t),
           NEW r \in Unmoved, req[t].edit.op = "update", req[t].edit.rule = r
    PROVE  UsageOf(servers, EditedRules(t), r) = UsageOf(servers, rules, r)
<1> DEFINE e == req[t].edit
<1>1. e \in Edits /\ r \in Rule
    BY RequestFields DEF TypeOK, Coherent, Unmoved
<1>2. e.row.match = FirstRules[r].match /\ e.row.priority = FirstRules[r].priority
    BY <1>1 DEF Unmoved
<1>3. rules[r].match = FirstRules[r].match /\ rules[r].priority = FirstRules[r].priority
    BY DEF RowsUnmoved
<1>4. EditedRules(t) = [rules EXCEPT ![r] = Saved(mem[t].row, rules[r], e.row)]
    BY DEF EditedRules
<1>5. /\ Saved(mem[t].row, rules[r], e.row).stage = rules[r].stage
      /\ Saved(mem[t].row, rules[r], e.row).match = rules[r].match
      /\ Saved(mem[t].row, rules[r], e.row).priority = rules[r].priority
    BY <1>2, <1>3 DEF Saved, NetChange
<1> HIDE DEF e
<1>6. \A q \in Rule : /\ EditedRules(t)[q].stage = rules[q].stage
                     /\ EditedRules(t)[q].match = rules[q].match
                     /\ EditedRules(t)[q].priority = rules[q].priority
    BY <1>1, <1>4, <1>5 DEF TypeOK
<1>7. \A n : RuleOf(EditedRules(t), n) = RuleOf(rules, n)
    BY <1>6, RuleOfSame
<1>8. Holding(servers, EditedRules(t), r) = Holding(servers, rules, r)
    BY <1>7 DEF Holding
<1> QED BY <1>8 DEF UsageOf

\* No edit gives an unmoved rule another regex or priority.
LEMMA RowsUnmovedStep ==
    ASSUME TypeOK, \A t \in Txn : Coherent(t), RowsUnmoved, [Next]_vars
    PROVE  RowsUnmoved'
<1>1. CASE UNCHANGED vars \/ \E s \in Server : Claim(s)
    BY <1>1, NoSlot DEF RowsUnmoved, Unmoved
<1>2. ASSUME NEW t \in Txn, Begin(t) \/ Step(t) PROVE RowsUnmoved'
    <2>1. CASE ~CommitEdit(t)
        <3>1. rules' = rules
            BY <1>2, <2>1, TablesStep
            DEF tables, CommitHeartbeat, CommitReserve, CommitRelease
        <3> QED BY <3>1 DEF RowsUnmoved, Unmoved
    <2>2. CASE CommitEdit(t)
        <3> DEFINE e == req[t].edit
        <3>1. e \in Edits /\ e \in Edit /\ rules' = EditedRules(t)
            BY <2>2, RequestFields DEF CommitEdit, TypeOK, Coherent
        <3> SUFFICES ASSUME NEW r \in Unmoved
                     PROVE  /\ EditedRules(t)[r].match = FirstRules[r].match
                            /\ EditedRules(t)[r].priority = FirstRules[r].priority
            BY <3>1 DEF RowsUnmoved, Unmoved
        <3>2. /\ r \in Rule /\ rules \in [Rule -> RuleRow]
              /\ rules[r].match = FirstRules[r].match
              /\ rules[r].priority = FirstRules[r].priority
            BY DEF RowsUnmoved, Unmoved, TypeOK
        <3>3. e.op \in {"create", "update"} /\ e.rule = r =>
                  e.row.match = FirstRules[r].match /\ e.row.priority = FirstRules[r].priority
            BY <3>1 DEF Unmoved
        <3>4. e.op \in {"create", "update", "delete", "recalculate"}
            BY <3>1 DEF Edit
        <3> HIDE DEF e
        <3>5. CASE e.op = "create"
            BY <3>2, <3>3, <3>5 DEF EditedRules, e
        <3>6. CASE e.op = "update"
            BY <3>2, <3>3, <3>6 DEF EditedRules, e, Saved, NetChange
        <3>7. CASE e.op = "delete"
            BY <3>2, <3>7 DEF EditedRules, e, RuleRow
        <3>8. CASE e.op = "recalculate"
            BY <3>2, <3>8 DEF EditedRules, e
        <3> QED BY <3>4, <3>5, <3>6, <3>7, <3>8
    <2> QED BY <2>1, <2>2
<1> QED BY <1>1, <1>2 DEF Next

LEMMA NotLeakedStep ==
    ASSUME QuotaInv, [Next]_vars
    PROVE  (PodsNotLeaked /\ CpuNotLeaked)'
<1> SUFFICES ASSUME NEW r \in Unmoved
             PROVE  AtMost(used'[r], UsageOf(servers', rules', r))
    BY DEF PodsNotLeaked, CpuNotLeaked, AtMost, Unmoved
<1>0. /\ AtMost(used[r], UsageOf(servers, rules, r))
      /\ r \in Rule /\ used[r] \in Usage
      /\ TypeOK /\ \A t \in Txn : Coherent(t) /\ RowStands(t)
    BY DEF QuotaInv, PodsNotLeaked, CpuNotLeaked, AtMost, TypeOK, Unmoved
<1>1. CASE UNCHANGED vars
    BY <1>0, <1>1 DEF vars
<1>2. CASE \E s \in Server : Claim(s)
    BY <1>0, <1>2, NoSlot, UsageKept
<1>3. ASSUME NEW t \in Txn, Begin(t) \/ Step(t)
      PROVE  AtMost(used'[r], UsageOf(servers', rules', r))
    <2>1. CASE UNCHANGED tables
        BY <1>0, <2>1 DEF tables
    <2>2. CASE CommitHeartbeat(t)
        <3>1. ~HoldsShared(t) /\ used' = used /\ rules' = rules
            BY <2>2 DEF CommitHeartbeat, HoldsShared
        <3> QED BY <1>0, <1>3, <3>1, UsageKept
    <2>3. ASSUME NEW s \in Server, CommitReserve(t, s)
          PROVE  AtMost(used'[r], UsageOf(servers', rules', r))
        <3> DEFINE new == [status |-> "ALIVE", name |-> req[t].name, cpu |-> req[t].cpu]
                   w == mem[t].winner
        <3>1. req[t].name \in Name /\ req[t].cpu \in Nat
            BY <1>0, <2>3, RequestFields DEF CommitReserve, TypeOK
        <3>2. new \in ServerRow
            BY <3>1 DEF ServerRow, AvailabilityStatus
        <3>3. w \in Rule /\ w = RuleOf(rules, req[t].name) /\ mem[t].seen = used[w]
            BY <2>3 DEF QuotaInv, Coherent, MatchStands, CommitReserve, NameOf
        <3>4. CASE used' = used /\ servers' = servers
            BY <1>0, <2>3, <3>4 DEF CommitReserve
        <3>5. CASE /\ used' = [used EXCEPT ![w] = [cpu |-> used[w].cpu + req[t].cpu,
                                                   pods |-> used[w].pods + 1]]
                   /\ servers' = [servers EXCEPT ![s] = new]
            <4>1. rules' = rules /\ servers[s].status = NoRow
                BY <2>3 DEF CommitReserve
            <4>2. servers \in [Server -> ServerRow] /\ used \in [Rule -> Usage]
                BY <1>0 DEF TypeOK
            <4>3. new.status = "ALIVE" /\ new.name = req[t].name /\ new.cpu = req[t].cpu
                OBVIOUS
            <4> HIDE DEF new, w
            <4>4. /\ AtMost(used[r], UsageOf([servers EXCEPT ![s] = new], rules, r))
                  /\ r = RuleOf(rules, new.name) =>
                        AtMost([cpu |-> used[r].cpu + new.cpu, pods |-> used[r].pods + 1],
                               UsageOf([servers EXCEPT ![s] = new], rules, r))
                BY <1>0, <3>2, <4>1, <4>2, <4>3, RowAdded
            <4>5. CASE r = w
                BY <3>3, <3>5, <4>1, <4>2, <4>3, <4>4, <4>5
            <4>6. CASE r # w
                BY <3>5, <4>1, <4>2, <4>4, <4>6
            <4> QED BY <4>5, <4>6
        <3> QED BY <2>3, <3>3, <3>4, <3>5 DEF CommitReserve
    <2>4. CASE CommitRelease(t)
        <3> DEFINE s == req[t].server
                   a == req[t].status
                   w == mem[t].winner
                   after == [servers EXCEPT ![s].status = a]
        <3>1. s \in Server /\ a \in QuotaReleasing /\ req[t].kind # "reserve"
            BY <1>0, <2>4, RequestAt DEF CommitRelease
        <3>2. /\ w = RuleOf(rules, servers[s].name)
              /\ w \in Rule => mem[t].seen = used[w]
            BY <2>4, <3>1 DEF QuotaInv, MatchStands, CommitRelease, NameOf
        <3>3. /\ servers' = after /\ rules' = rules
              /\ used' = IF w = NoRule THEN used
                         ELSE [used EXCEPT ![w] = Subtract(mem[t].seen, servers[s].cpu)]
            BY <2>4, <3>1 DEF CommitRelease, CpuShare
        <3>4. w \in Rule \cup {NoRule} /\ NoRule \notin Rule
            BY <1>0, QuotaConstants DEF TypeOK, Memory, QuotaConstants
        <3>5. servers \in [Server -> ServerRow] /\ used \in [Rule -> Usage]
            BY <1>0 DEF TypeOK
        <3> HIDE DEF s, a, w
        <3>6. /\ AtMost(Subtract(used[r], servers[s].cpu), UsageOf(after, rules, r))
              /\ r # w => AtMost(used[r], UsageOf(after, rules, r))
            BY <1>0, <3>1, <3>2, <3>5, RowReleased
        <3> HIDE DEF after
        <3>7. CASE r = w
            BY <1>0, <3>2, <3>3, <3>4, <3>5, <3>6, <3>7
        <3>8. CASE r # w
            BY <1>0, <3>3, <3>4, <3>5, <3>6, <3>8
        <3> QED BY <3>7, <3>8
    <2>5. CASE CommitEdit(t)
        <3> DEFINE e == req[t].edit
                   u == UsageOf(servers, EditedRules(t), r)
        <3>1. /\ used'[r] = Rebuilt(t, r)
              /\ UsageOf(servers', rules', r) = u
              /\ AtMost(mem[t].count[r], u)
            BY <1>0, <2>5 DEF CommitEdit, QuotaInv, CountStands
        <3>2. CASE e.op = "update" /\ e.rule = r
            <4>1. UsageOf(servers, rules, r) = u
                BY <1>0, <2>5, <3>2, UpdateMovesNothing DEF CommitEdit, QuotaInv
            <4>2. AtMost(used[r], u)
                BY <1>0, <4>1
            <4> HIDE DEF u
            <4> QED BY <3>1, <4>2 DEF Rebuilt, NetChange, AtMost
        <3>3. CASE ~(e.op = "update" /\ e.rule = r)
            BY <3>1, <3>3 DEF Rebuilt
        <3> QED BY <3>2, <3>3
    <2> QED BY <1>3, <2>1, <2>2, <2>3, <2>4, <2>5, TablesStep
<1> QED BY <1>1, <1>2, <1>3 DEF Next

-----------------------------------------------------------------------------
(* The theorems.                                                           *)

\* The database as an orchestrator finds it at its first start satisfies the
\* inductive invariant.
LEMMA QuotaInit == Init => QuotaInv
<1> SUFFICES ASSUME Init PROVE QuotaInv
    OBVIOUS
<1>1. (CHOOSE n \in Name : TRUE) \in Name
    BY QuotaConstants DEF QuotaConstants
<1>2. TypeOK
    BY <1>1, BlankType, QuotaConstants
    DEF QuotaConstants, Init, TypeOK, NoUsage, Usage, ServerRow, PC
<1>3. LocksExclude
    BY DEF Init, LocksExclude, HoldsShared, HoldsExclusive, HoldsRule
<1>4. \A t \in Txn : Coherent(t) /\ RowStands(t) /\ MatchStands(t) /\ CountStands(t)
    BY DEF Init, Coherent, RowStands, MatchStands, CountStands, NoRequest, Blank
<1>5. PodsNotLeaked /\ CpuNotLeaked
    <2> SUFFICES ASSUME NEW r \in Rule PROVE AtMost(used[r], UsageOf(servers, rules, r))
        BY DEF PodsNotLeaked, CpuNotLeaked, AtMost, Unmoved
    <2>1. UsageOf(servers, rules, r) \in Usage
        BY <1>2, UsageOfType DEF TypeOK
    <2> QED BY <2>1 DEF Init, AtMost, NoUsage, Usage
<1>6. RowsUnmoved
    BY DEF Init, RowsUnmoved, Unmoved
<1> QED BY <1>2, <1>3, <1>4, <1>5, <1>6 DEF QuotaInv

LEMMA QuotaStep == QuotaInv /\ [Next]_vars => QuotaInv'
<1> SUFFICES ASSUME QuotaInv, [Next]_vars PROVE QuotaInv'
    OBVIOUS
<1> USE DEF QuotaInv
<1>1. TypeOK'
    BY TypeStep
<1>2. LocksExclude' /\ \A t \in Txn : Coherent(t)'
    BY LocksStep
<1>3. \A t \in Txn : RowStands(t)'
    BY RowStandsStep
<1>4. \A t \in Txn : MatchStands(t)'
    BY MatchStandsStep
<1>5. \A t \in Txn : CountStands(t)'
    BY CountStandsStep
<1>6. (PodsNotLeaked /\ CpuNotLeaked)'
    BY NotLeakedStep
<1>7. RowsUnmoved'
    BY RowsUnmovedStep
<1> QED BY <1>1, <1>2, <1>3, <1>4, <1>5, <1>6, <1>7

\* Any number of transactions, servers, clients and rule edits, in any order:
\* locks exclude each other, a matched rule and its counters stand while a
\* transaction relies on them, and a rebuild does not overstate.
THEOREM QuotaInvariant == Spec => []QuotaInv
<1>1. Init => QuotaInv
    BY QuotaInit
<1>2. QuotaInv /\ [Next]_vars => QuotaInv'
    BY QuotaStep
<1> QED BY <1>1, <1>2, PTL DEF Spec

\* Rows, counters, locks and sessions keep their types; counters never go
\* below zero.
THEOREM TypeCorrect == Spec => []TypeOK
<1>1. QuotaInv => TypeOK
    BY DEF QuotaInv
<1> QED BY <1>1, QuotaInvariant, PTL

\* No pod slot leaks: a rule whose regex and priority stay never counts more pods than there are servers
\* charged to it.
THEOREM NoPodLeaks == Spec => []PodsNotLeaked
<1>1. QuotaInv => PodsNotLeaked
    BY DEF QuotaInv
<1> QED BY <1>1, QuotaInvariant, PTL

\* No CPU leaks: a rule whose regex and priority stay never counts more than its servers asked for.
THEOREM NoCpuLeaks == Spec => []CpuNotLeaked
<1>1. QuotaInv => CpuNotLeaked
    BY DEF QuotaInv
<1> QED BY <1>1, QuotaInvariant, PTL

\* A step inserts a row only as the reservation of one transaction, which
\* charges it in full, within the limits, to the rule now matching its client.
LEMMA AdmissionStep ==
    ASSUME QuotaInv, [Next]_vars, NEW s \in Server,
           servers[s].status = NoRow, servers'[s].status # NoRow
    PROVE  \E r \in Rule :
               /\ r = RuleOf(rules', servers'[s].name)
               /\ used'[r] = [cpu |-> used[r].cpu + servers'[s].cpu,
                              pods |-> used[r].pods + 1]
               /\ used'[r].cpu <= rules'[r].limit.cpu
               /\ used'[r].pods <= rules'[r].limit.pods
<1>1. TypeOK /\ \A t \in Txn : Coherent(t) /\ RowStands(t)
    BY DEF QuotaInv
<1>2. ~UNCHANGED vars /\ ~\E x \in Server : Claim(x)
    BY <1>1 DEF vars, Claim, TypeOK, ServerRow, NoRow
<1>3. PICK t \in Txn : Begin(t) \/ Step(t)
    BY <1>2 DEF Next
<1>4. ~UNCHANGED tables /\ ~CommitEdit(t)
    BY DEF tables, CommitEdit
<1>5. ~CommitHeartbeat(t) /\ ~CommitRelease(t)
    <2>1. CommitHeartbeat(t) \/ CommitRelease(t) =>
              req[t].server \in Server /\ servers[req[t].server].status # NoRow
        <3>1. CommitHeartbeat(t) \/ CommitRelease(t) =>
                  req[t].kind \in {"heartbeat", "settle"}
            BY <1>1 DEF CommitHeartbeat, CommitRelease, Coherent
        <3>2. req[t] \in Request
            BY <1>1 DEF TypeOK
        <3> QED BY <1>1, <3>1, <3>2, RequestFields DEF RowStands
    <2> QED BY <1>1, <2>1 DEF CommitHeartbeat, CommitRelease, TypeOK
<1>6. PICK x \in Server : CommitReserve(t, x)
    BY <1>3, <1>4, <1>5, TablesStep
<1> DEFINE w == mem[t].winner
<1>7. w \in Rule /\ w = RuleOf(rules, req[t].name) /\ mem[t].seen = used[w]
    BY <1>6 DEF QuotaInv, Coherent, MatchStands, CommitReserve, NameOf
<1>8. /\ x = s /\ rules' = rules
      /\ Fits(used[w], req[t].cpu, rules[w].limit)
      /\ used'[w] = [cpu |-> used[w].cpu + req[t].cpu, pods |-> used[w].pods + 1]
      /\ servers'[s].name = req[t].name /\ servers'[s].cpu = req[t].cpu
    BY <1>1, <1>6, <1>7 DEF CommitReserve, TypeOK
<1> HIDE DEF w
<1> QED BY <1>7, <1>8 DEF Fits

\* No two reservations spend the same headroom and none is charged to a rule
\* an edit has superseded, however many run at once.
THEOREM AdmissionWithinLimit == Spec => AdmissionChargedWithinLimit
<1>1. QuotaInv /\ [Next]_vars =>
         [\A s \in Server :
            servers[s].status = NoRow /\ servers'[s].status # NoRow =>
              \E r \in Rule :
                 /\ r = RuleOf(rules', servers'[s].name)
                 /\ used'[r] = [cpu |-> used[r].cpu + servers'[s].cpu,
                                pods |-> used[r].pods + 1]
                 /\ used'[r].cpu <= rules'[r].limit.cpu
                 /\ used'[r].pods <= rules'[r].limit.pods]_vars
    BY AdmissionStep
<1> QED BY <1>1, QuotaInvariant, PTL DEF Spec, AdmissionChargedWithinLimit

\* A server whose deletion failed releases its share in the one settle that
\* finds it so, however many settles race.
THEOREM SettlesReleaseOnce == Spec => SettleReleasesOnce
<1>1. ASSUME QuotaInv, [Next]_vars, NEW t \in Txn,
             req[t].kind = "settle", pc'[t] = "idle", used' # used
      PROVE  /\ servers[req[t].server].status = "DELETION_FAILED"
             /\ servers'[req[t].server].status = "STOPPED"
    <2>1. TypeOK /\ \A u \in Txn : Coherent(u) /\ RowStands(u)
        BY <1>1 DEF QuotaInv
    <2>2. pc[t] # "idle"
        BY <1>1, <2>1 DEF Coherent
    <2>3. ~UNCHANGED vars /\ ~\E s \in Server : Claim(s)
        BY <1>1, <2>2 DEF vars, Claim
    <2>4. Begin(t) \/ Step(t)
        BY <1>1, <2>1, <2>2, <2>3, OtherSlots DEF Next
    <2>5. CommitRelease(t)
        <3>1. ~UNCHANGED tables /\ ~CommitHeartbeat(t)
              /\ ~(\E s \in Server : CommitReserve(t, s)) /\ ~CommitEdit(t)
            BY <1>1, <2>1
            DEF tables, CommitHeartbeat, CommitReserve, CommitEdit, Coherent
        <3> QED BY <2>4, <3>1, TablesStep
    <2>6. req[t].server \in Server /\ req[t].status = "STOPPED"
        BY <1>1, <2>1, RequestFields DEF TypeOK
    <2> QED BY <1>1, <2>1, <2>5, <2>6 DEF CommitRelease, RowStands, TypeOK, ServerRow
<1>2. QuotaInv /\ [Next]_vars =>
         [\A t \in Txn :
            req[t].kind = "settle" /\ pc'[t] = "idle" /\ used' # used =>
              /\ servers[req[t].server].status = "DELETION_FAILED"
              /\ servers'[req[t].server].status = "STOPPED"]_vars
    BY <1>1
<1> QED BY <1>2, QuotaInvariant, PTL DEF Spec, SettleReleasesOnce

-----------------------------------------------------------------------------
(* KeepaliveHold: what a pass could know.                                  *)

\* The times that are compared are numbers.
Times ==
  /\ now \in Nat /\ promised \in Nat
  /\ row \in [status : K!Statuses, owner : Owner, beat : Nat, until : Nat]
  /\ hold \in [Holder -> [at : {"idle", "update", "load"}, client : Owner, until : Nat]]
  /\ handover \in [at : {"idle", "restart", "own", "report"}, to : Owner, loaded : Nat]
  /\ pass \in [at : {"idle", "list", "write"}, time : Nat, promised : Nat]

HoldInv == Times /\ K!PromisesKept

LEMMA HoldStart == K!Init => HoldInv
  BY AccountingAssumption DEF K!KeepaliveAssumption, K!Init, HoldInv, Times, K!PromisesKept, K!Statuses, K!NoHold,
     K!NoRequest, K!NoHandover, K!NoPass

LEMMA HoldStep ==
  ASSUME HoldInv, K!Next
  PROVE  HoldInv'
<1> USE AccountingAssumption DEF K!KeepaliveAssumption, K!NoHold, K!NoRequest, K!NoHandover, K!NoPass, K!Later,
      HoldInv, Times, K!PromisesKept
<1>1. ASSUME NEW h \in Holder, NEW c \in Owner, K!Ask(h, c)
      PROVE  HoldInv'
  BY <1>1 DEF K!Ask
<1>2. ASSUME NEW h \in Holder, K!Update(h)
      PROVE  HoldInv'
  BY <1>2 DEF K!Update, K!Longest
<1>3. ASSUME NEW h \in Holder, K!Load(h)
      PROVE  HoldInv'
  BY <1>3 DEF K!Load
<1>4. CASE K!Beat
  BY <1>4 DEF K!Beat, K!Writes, K!Statuses
<1>5. ASSUME NEW c \in Owner, K!Claim(c)
      PROVE  HoldInv'
  BY <1>5 DEF K!Claim, K!Writes, K!Statuses
<1>6. CASE K!ReadOwner
  BY <1>6 DEF K!ReadOwner
<1>7. CASE K!WriteOwner
  <2>1. /\ row' = K!Owned(row) /\ handover' = [handover EXCEPT !.at = "report"]
        /\ promised' \in {row'.until, 0} /\ UNCHANGED <<now, hold, pass>>
    BY <1>7 DEF K!WriteOwner
  <2>2. row' \in [status : K!Statuses, owner : Owner, beat : Nat, until : Nat]
    BY <2>1 DEF K!Owned
  <2>3. promised' \in Nat /\ promised' <= row'.until
    BY <2>1, <2>2
  <2>4. handover' \in [at : {"idle", "restart", "own", "report"}, to : Owner, loaded : Nat]
    BY <2>1
  <2>5. QED
    BY <2>1, <2>2, <2>3, <2>4
<1>8. CASE K!Report
  BY <1>8 DEF K!Report, K!Writes, K!Statuses
<1>9. CASE K!PassBegins
  BY <1>9 DEF K!PassBegins
<1>10. CASE K!PassLists
  <2>1. /\ UNCHANGED <<row, now, hold, handover, promised>>
        /\ \/ pass' = K!NoPass
           \/ /\ ~(row.until > pass.time)
              /\ pass' = [pass EXCEPT !.at = "write", !.promised = promised]
    BY <1>10 DEF K!PassLists, K!Held
  <2>2. CASE pass' = K!NoPass
    BY <2>1, <2>2
  <2>3. CASE /\ ~(row.until > pass.time)
             /\ pass' = [pass EXCEPT !.at = "write", !.promised = promised]
    <3>1. promised <= pass.time
      BY <2>3
    <3>2. /\ pass' \in [at : {"idle", "list", "write"}, time : Nat, promised : Nat]
          /\ pass'.promised = promised /\ pass'.time = pass.time
      BY <2>3
    <3>3. QED
      BY <2>1, <3>1, <3>2
  <2>4. QED
    BY <2>1, <2>2, <2>3
<1>11. CASE K!PassWrites
  BY <1>11 DEF K!PassWrites, K!Writes, K!Statuses
<1>12. CASE K!Tick
  BY <1>12 DEF K!Tick
<1>13. QED
  BY <1>1, <1>2, <1>3, <1>4, <1>5, <1>6, <1>7, <1>8, <1>9, <1>10, <1>11, <1>12 DEF K!Next, K!Start, K!Watcher

LEMMA HoldInductive == AllSpec => []HoldInv
<1>1. AllInit => HoldInv
  BY HoldStart DEF AllInit
<1>2. HoldInv /\ [AllNext]_allVars => HoldInv'
  <2>1. HoldInv /\ UNCHANGED holdVars => HoldInv'
    BY DEF holdVars, HoldInv, Times, K!PromisesKept
  <2>2. QED
    BY <2>1, HoldStep DEF AllNext, QuotaNext, NodesNext, HoldNext, allVars
<1>3. QED
  BY <1>1, <1>2, PTL DEF AllSpec

(* For any holders, owners, durations and timeouts: a pass of the watcher  *)
(* reaps no server whose owner had been told, before the pass listed the   *)
(* server, of a hold that still lasts, and the row has the longest of the  *)
(* holds its owner was told of (extend_idegym_server_keepalive,            *)
(* cleanup_servers).                                                       *)
THEOREM PromisesKeptHolds == AllSpec => []PromisesKept
<1>1. HoldInv => PromisesKept
  BY DEF HoldInv, PromisesKept
<1>2. QED
  BY <1>1, HoldInductive, PTL

\* No time passes the last one.
UpToMaxTime == now <= MaxTime /\ pass.time <= MaxTime

\* Holds, the start that reuses the server and the watcher's pass keep their types, and no pass has a
\* time to come (extend_idegym_server_keepalive, cleanup_servers).
THEOREM HoldTypes == AllSpec => []K!TypeOK
<1>1. AllInit => UpToMaxTime
  BY AccountingAssumption DEF AllInit, K!Init, K!NoPass, K!KeepaliveAssumption, UpToMaxTime
<1>2. HoldInv /\ UpToMaxTime /\ [AllNext]_allVars => UpToMaxTime'
  <2> SUFFICES ASSUME HoldInv, UpToMaxTime, [AllNext]_allVars PROVE UpToMaxTime'
    OBVIOUS
  <2>1. now \in Nat /\ pass.time \in Nat /\ MaxTime \in Nat
    BY AccountingAssumption DEF HoldInv, Times, K!KeepaliveAssumption
  <2>2. CASE UNCHANGED holdVars
    BY <2>2 DEF holdVars, UpToMaxTime
  <2>3. CASE K!Next
    <3>1. ASSUME UNCHANGED <<now, pass>> PROVE UpToMaxTime'
      BY <3>1 DEF UpToMaxTime
    <3>2. ASSUME NEW h \in Holder, K!Update(h) \/ K!Load(h) PROVE UpToMaxTime'
      BY <3>1, <3>2 DEF K!Update, K!Load
    <3>3. ASSUME NEW h \in Holder, NEW c \in Owner, K!Ask(h, c) PROVE UpToMaxTime'
      BY <3>1, <3>3 DEF K!Ask
    <3>4. CASE K!Beat \/ K!Start
      BY <3>1, <3>4 DEF K!Beat, K!Start, K!ReadOwner, K!WriteOwner, K!Report
    <3>5. CASE K!PassBegins
      BY <2>1, <3>5 DEF K!PassBegins, K!NoPass, UpToMaxTime
    <3>6. CASE K!PassLists \/ K!PassWrites
      <4>1. now' = now /\ pass'.time \in {pass.time, 0}
        <5>1. /\ now' = now
              /\ pass' = K!NoPass \/ pass' = [pass EXCEPT !.at = "write", !.promised = promised]
          BY <3>6 DEF K!PassLists, K!PassWrites
        <5>2. [pass EXCEPT !.at = "write", !.promised = promised].time = pass.time
          BY DEF HoldInv, Times
        <5>3. K!NoPass.time = 0
          BY DEF K!NoPass
        <5>4. pass'.time \in {pass.time, 0}
          BY ONLY <5>1, <5>2, <5>3, Zenon
        <5> QED BY <5>1, <5>4
      <4> QED BY <2>1, <4>1 DEF UpToMaxTime
    <3>7. CASE K!Tick
      BY <2>1, <3>7 DEF K!Tick, UpToMaxTime
    <3>8. ASSUME NEW c \in Owner, K!Claim(c) PROVE UpToMaxTime'
      BY <3>1, <3>8 DEF K!Claim
    <3> QED
      BY <2>3, <3>2, <3>3, <3>4, <3>5, <3>6, <3>7, <3>8 DEF K!Next, K!Watcher
  <2> QED BY <2>2, <2>3 DEF AllNext, QuotaNext, NodesNext, HoldNext, allVars
<1>3. HoldInv /\ UpToMaxTime => K!TypeOK
  BY AccountingAssumption DEF HoldInv, Times, UpToMaxTime, K!TypeOK, K!KeepaliveAssumption
<1> QED BY <1>1, <1>2, <1>3, HoldInductive, PTL DEF AllSpec

-----------------------------------------------------------------------------
(* ClientNodes: what the holder owes to the clients, request by request.   *)

AllLive == {c \in Client : N!Live(c)}
\* A client whose nodes may be there: it counts, or their release has failed, or a
\* heartbeat took it out of the count.
Kept(c) == N!Live(c) \/ clients[c].status = "DELETION_FAILED" \/ c \in left
\* The holder is as large as the largest request of these, and no larger than the
\* request of one of them or of a client that left.
Match(set) ==
  /\ \A c \in set : clients[c].nodes <= holder
  /\ holder > 0 => \E c \in set \cup left : clients[c].nodes = holder
\* One of these answers for the holder.
Backed(set) == holder > 0 => \E c \in set : Kept(c) /\ clients[c].nodes >= holder

\* Who left has a row, and does not count.
Outside == \A c \in left : ~N!Live(c) /\ clients[c].status # "NO_ROW"

\* Where a request may be, and what it is going to write.
Shaped(t) ==
  /\ task[t].pc = "idle" <=> task[t].kind = "none"
  /\ task[t].pc # "idle" => task[t].client \in Client
  /\ task[t].kind = "register" => task[t].pc \in {"check", "create", "patch"}
  /\ task[t].kind = "stop" =>
       /\ task[t].pc \in {"need", "create", "patch", "delete", "read", "write"}
       /\ task[t].write \in {"STOPPED", "DELETION_FAILED"}
  /\ task[t].kind = "reap" =>
       /\ task[t].pc \in {"need", "create", "patch", "delete", "write"}
       /\ task[t].write \in {"STOPPED", "KILLED", "DELETION_FAILED"}
       /\ task[t].loaded = "NO_ROW"
  /\ task[t].kind \in {"finish", "beat"} =>
       /\ task[t].pc \in {"read", "write"}
       /\ task[t].kind = "finish" => task[t].write = "FINISHED"
       /\ clients[task[t].client].status # "NO_ROW"
       /\ task[t].pc = "write" => task[t].loaded = clients[task[t].client].status
  /\ task[t].kind = "stop" /\ task[t].pc = "write" => task[t].loaded \notin N!Terminal

\* The request knows what it is about to do to the holder.
Grounds(t) ==
  LET others == N!LiveOthers(task[t].client)
      n == task[t].nodes
  IN /\ task[t].kind = "register" => N!Live(task[t].client) /\ n = clients[task[t].client].nodes
     /\ task[t].pc \in {"create", "patch"} =>
          /\ n > 0
          /\ task[t].kind = "register" => \A d \in others : clients[d].nodes < n
          /\ task[t].kind # "register" =>
               /\ \A d \in others : clients[d].nodes <= n
               /\ \E d \in others : clients[d].nodes = n
     /\ task[t].pc = "delete" => \A d \in others : clients[d].nodes = 0

\* A client that is about to end leaves the holder to others.
Leaves(t) == task[t].kind \in {"stop", "reap"} /\ task[t].pc \in {"read", "write"}
LeftToOthers(t) ==
  Leaves(t) /\ task[t].write # "DELETION_FAILED" => Backed(Client \ {task[t].client})

\* Until something fails, the holder matches those whom the request is not about, or all.
Matched(t) ==
  troubled = FALSE =>
    /\ task[t].kind = "register" \/ Leaves(t) => Match(N!LiveOthers(task[t].client))
    /\ task[t].pc = "need" \/ task[t].kind \in {"none", "finish", "beat"} => Match(AllLive)

Single(t) == Shaped(t) /\ Grounds(t) /\ LeftToOthers(t) /\ Matched(t)

\* Requests come one at a time, and the watcher's pass is one of them.
OneAtATime ==
  /\ \A t, u \in Task : task[t].pc # "idle" /\ task[u].pc # "idle" => t = u
  /\ ~N!Unlisted => \A t \in Task : task[t].kind \in {"none", "reap"}

\* Nobody is at work.
Rest == (\A t \in Task : task[t].pc = "idle") /\ troubled = FALSE => Match(AllLive)

NodesInv ==
  /\ N!TypeOK /\ Outside /\ OneAtATime /\ Rest /\ Backed(Client)
  /\ \A t \in Task : Shaped(t) /\ Grounds(t) /\ LeftToOthers(t)
  /\ \A t \in Task : task[t].pc # "idle" => Matched(t)

\* How the helpers of ClientNodes move a task.
LEMMA EndStep ==
  ASSUME N!TypeOK, NEW t \in Task, N!End(t)
  PROVE  /\ task' \in [Task -> N!TaskState] /\ task'[t] = N!NoTask
         /\ \A u \in Task \ {t} : task'[u] = task[u]
<1>1. N!NoTask \in N!TaskState
  BY AccountingAssumption DEF N!NodesConstants, N!NoTask, N!TaskState, N!Nodes, N!Status, N!AvailabilityStatus, N!NoRow
<1>2. QED
  BY <1>1 DEF N!End, N!TypeOK

LEMMA GotoStep ==
  ASSUME N!TypeOK, NEW t \in Task, NEW to \in {"create", "delete", "patch"}, N!Goto(t, to)
  PROVE  /\ task' \in [Task -> N!TaskState] /\ task'[t].pc = to
         /\ task'[t].kind = task[t].kind /\ task'[t].client = task[t].client
         /\ task'[t].nodes = task[t].nodes /\ task'[t].write = task[t].write
         /\ task'[t].loaded = task[t].loaded
         /\ \A u \in Task \ {t} : task'[u] = task[u]
  BY DEF N!Goto, N!TypeOK, N!TaskState

LEMMA AfterStep ==
  ASSUME N!TypeOK, NEW t \in Task, NEW ok \in BOOLEAN, N!After(t, ok)
  PROVE  /\ task' \in [Task -> N!TaskState] /\ troubled' \in BOOLEAN
         /\ troubled' = FALSE => troubled = FALSE /\ ok = TRUE
         /\ left' = IF ok = TRUE /\ task[t].kind # "register" THEN left \ {task[t].client} ELSE left
         /\ \A u \in Task \ {t} : task'[u] = task[u]
         /\ task[t].kind = "register" => task'[t] = N!NoTask
         /\ task[t].kind # "register" =>
              /\ task'[t].kind = task[t].kind /\ task'[t].client = task[t].client
              /\ task'[t].nodes = task[t].nodes /\ task'[t].loaded = task[t].loaded
              /\ task'[t].pc = IF task[t].kind = "reap" THEN "write" ELSE "read"
              /\ task'[t].write = IF ok = TRUE THEN task[t].write ELSE "DELETION_FAILED"
<1>0. left' = IF ok = TRUE /\ task[t].kind # "register" THEN left \ {task[t].client} ELSE left
  BY DEF N!After
<1>1. troubled' = (troubled \/ ~ok) /\ troubled \in BOOLEAN
  BY DEF N!After, N!TypeOK
<1>2. troubled' \in BOOLEAN /\ (troubled' = FALSE => troubled = FALSE /\ ok = TRUE)
  BY <1>1
<1>3. CASE task[t].kind = "register"
  BY <1>0, <1>2, <1>3, EndStep DEF N!After
<1>4. CASE task[t].kind # "register"
  <2> DEFINE to == IF task[t].kind = "reap" THEN "write" ELSE "read"
             w == IF ok THEN task[t].write ELSE "DELETION_FAILED"
             new == [task[t] EXCEPT !.pc = to, !.write = w]
  <2>1. task[t] \in N!TaskState
    BY DEF N!TypeOK
  <2>2. w \in N!AvailabilityStatus /\ to \in {"read", "write"}
    BY <2>1 DEF N!TaskState, N!AvailabilityStatus
  <2>3. /\ w = IF ok = TRUE THEN task[t].write ELSE "DELETION_FAILED"
        /\ to = IF task[t].kind = "reap" THEN "write" ELSE "read"
    OBVIOUS
  <2>4. task' = [task EXCEPT ![t] = new]
    BY <1>4 DEF N!After
  <2> HIDE DEF to, w
  <2>5. /\ new \in N!TaskState /\ new.pc = to /\ new.write = w /\ new.kind = task[t].kind
        /\ new.client = task[t].client /\ new.nodes = task[t].nodes /\ new.loaded = task[t].loaded
    BY <2>1, <2>2 DEF N!TaskState
  <2> HIDE DEF new
  <2>6. task' \in [Task -> N!TaskState] /\ task'[t] = new /\ \A u \in Task \ {t} : task'[u] = task[u]
    BY <2>4, <2>5 DEF N!TypeOK
  <2>7. QED
    BY <1>0, <1>2, <1>4, <2>3, <2>5, <2>6
<1>5. QED
  BY <1>3, <1>4

\* A task at work is the only one.
LEMMA Busy ==
  ASSUME NodesInv, NEW t \in Task, task[t].pc # "idle"
  PROVE  /\ \A u \in Task \ {t} : task[u].pc = "idle" /\ task[u].kind = "none"
         /\ Single(t) /\ task[t].client \in Client
         /\ task[t].kind # "reap" => N!Unlisted
         /\ task[t].kind \in {"register", "stop", "finish", "beat", "reap"}
<1>1. task[t].kind \in {"register", "stop", "finish", "beat", "reap", "none"}
  BY DEF NodesInv, N!TypeOK, N!TaskState, N!Kinds
<1>2. QED
  BY <1>1 DEF NodesInv, OneAtATime, Single, Shaped

\* What is left to show of a step of the only task, or of one that begins.
LEMMA OfOne ==
  ASSUME NodesInv, NEW t \in Task, N!TypeOK', Outside',
         \A u \in Task \ {t} : task'[u] = task[u] /\ task[u].pc = "idle" /\ task[u].kind = "none",
         Single(t)', Backed(Client)',
         N!Unlisted' \/ task'[t].kind \in {"none", "reap"}
  PROVE  NodesInv'
<1>1. OneAtATime'
  BY DEF OneAtATime
<1>2. Rest'
  <2>1. task'[t].pc = "idle" => task'[t].kind = "none"
    BY DEF Single, Shaped
  <2>2. QED
    BY <2>1 DEF Rest, Single, Matched
<1>3. ASSUME NEW u \in Task \ {t}
      PROVE  (Shaped(u) /\ Grounds(u) /\ LeftToOthers(u))' /\ task'[u].pc = "idle"
  BY <1>3 DEF Shaped, Grounds, LeftToOthers, Leaves
<1>4. QED
  BY <1>1, <1>2, <1>3 DEF NodesInv, Single

\* What a step that leaves the clients' rows alone leaves alone.
LEMMA SameClients ==
  ASSUME clients' = clients
  PROVE  /\ AllLive' = AllLive
         /\ \A c \in Client : N!Live(c)' = N!Live(c)
         /\ \A c \in Client : (c \in left <=> c \in left') => Kept(c)' = Kept(c)
         /\ \A c \in Client : N!LiveOthers(c)' = N!LiveOthers(c)
  BY DEF AllLive, Kept, N!Live, N!LiveOthers

\* A request has dealt with the holder, or need not: what it must have seen to.
LEMMA DealtWith ==
  ASSUME NodesInv, NEW t \in Task, NEW c \in Client, c = task[t].client,
         task[t].kind \in {"register", "stop", "reap"}, task[t].pc # "idle",
         NEW ok \in BOOLEAN, N!After(t, ok), UNCHANGED <<clients, listed>>,
         holder' \in N!Nodes, Backed(Client)',
         ok = TRUE /\ task[t].kind # "register" => Backed(Client \ {c})',
         ok = TRUE /\ troubled = FALSE =>
           IF task[t].kind = "register" THEN Match(AllLive)' ELSE Match(N!LiveOthers(c))'
  PROVE  NodesInv'
<1>1. /\ task' \in [Task -> N!TaskState] /\ troubled' \in BOOLEAN
      /\ troubled' = FALSE => troubled = FALSE /\ ok = TRUE
      /\ left' \subseteq left
      /\ \A u \in Task \ {t} : task'[u] = task[u]
      /\ task[t].kind = "register" => task'[t] = N!NoTask
      /\ task[t].kind # "register" =>
           /\ task'[t].kind = task[t].kind /\ task'[t].client = task[t].client
           /\ task'[t].nodes = task[t].nodes /\ task'[t].loaded = task[t].loaded
           /\ task'[t].pc = IF task[t].kind = "reap" THEN "write" ELSE "read"
           /\ task'[t].write = IF ok = TRUE THEN task[t].write ELSE "DELETION_FAILED"
  BY AfterStep DEF NodesInv
<1>2. /\ \A u \in Task \ {t} : task[u].pc = "idle" /\ task[u].kind = "none"
      /\ Single(t) /\ (task[t].kind # "reap" => N!Unlisted)
  BY Busy
<1>3. N!TypeOK' /\ Outside' /\ N!Unlisted' = N!Unlisted
  BY <1>1 DEF NodesInv, N!TypeOK, Outside, N!Unlisted, N!Live
<1>4. Single(t)'
  <2>1. CASE task[t].kind = "register"
    <3>1. task'[t].kind = "none" /\ task'[t].pc = "idle"
      BY <1>1, <2>1 DEF N!NoTask
    <3>2. Shaped(t)' /\ Grounds(t)' /\ LeftToOthers(t)'
      BY <3>1 DEF Shaped, Grounds, LeftToOthers, Leaves
    <3>3. Matched(t)'
      BY <1>1, <2>1, <3>1 DEF Matched, Leaves
    <3>4. QED
      BY <3>2, <3>3 DEF Single
  <2>2. CASE task[t].kind # "register"
    <3>1. Shaped(t)'
      BY <1>1, <1>2, <2>2 DEF Single, Shaped
    <3>2. Grounds(t)'
      BY <1>1, <2>2 DEF Grounds
    <3>3. LeftToOthers(t)'
      BY <1>1, <2>2 DEF LeftToOthers
    <3>4. Matched(t)'
      <4>1. N!LiveOthers(task[t].client)' = N!LiveOthers(c)'
        BY <1>1, <2>2 DEF N!LiveOthers
      <4>2. task'[t].pc # "need" /\ task'[t].kind \in {"stop", "reap"}
        BY <1>1, <2>2
      <4>3. QED
        BY <1>1, <2>2, <4>1, <4>2 DEF Matched, Match
    <3>5. QED
      BY <3>1, <3>2, <3>3, <3>4 DEF Single
  <2>3. QED
    BY <2>1, <2>2
<1>5. N!Unlisted' \/ task'[t].kind \in {"none", "reap"}
  BY <1>1, <1>2, <1>3
<1>6. QED
  BY <1>1, <1>2, <1>3, <1>4, <1>5, OfOne

LEMMA Others ==
  ASSUME NEW c \in Client
  PROVE  N!LiveOthers(c) = AllLive \ {c} /\ AllLive \subseteq Client
  BY DEF N!LiveOthers, AllLive

\* The numbers that are compared.
LEMMA NodeNumbers ==
  ASSUME N!TypeOK
  PROVE  /\ MaxNodes \in Nat /\ holder \in Nat /\ \A c \in Client : clients[c].nodes \in N!Nodes
         /\ N!Nodes \subseteq Nat /\ 0 \in N!Nodes
         /\ \A t \in Task : task[t].nodes \in N!Nodes
  BY AccountingAssumption DEF N!NodesConstants, N!TypeOK, N!ClientRow, N!TaskState, N!Nodes

LEMMA CheckSpinUpKeepsInv ==
  ASSUME NodesInv, NEW t \in Task, N!CheckSpinUp(t)
  PROVE  NodesInv'
<1> DEFINE c == task[t].client
<1>1. /\ \A u \in Task \ {t} : task[u].pc = "idle" /\ task[u].kind = "none"
      /\ Single(t) /\ c \in Client /\ (task[t].kind # "reap" => N!Unlisted)
      /\ task[t].kind \in {"register", "stop", "finish", "beat", "reap"}
  BY Busy DEF N!CheckSpinUp
<1>2. task[t].pc = "check" /\ task[t].kind = "register" /\ UNCHANGED <<clients, holder, listed, left, troubled>>
  BY <1>1 DEF N!CheckSpinUp, Single, Shaped
<1>3. N!TypeOK /\ Outside' /\ Backed(Client)' /\ N!Unlisted'
  BY <1>1, <1>2 DEF NodesInv, Outside, Backed, Kept, N!Live, N!Unlisted
<1>4. AllLive' = AllLive /\ N!LiveOthers(c) = AllLive \ {c} /\ AllLive \subseteq Client
  BY <1>1, <1>2, Others, SameClients
<1>5. CASE clients[c].nodes > 0 /\ N!NeedMore(c)
  <2>1. N!Goto(t, "create")
    BY <1>5 DEF N!CheckSpinUp
  <2>2. /\ task' \in [Task -> N!TaskState] /\ task'[t].pc = "create"
        /\ task'[t].kind = task[t].kind /\ task'[t].client = c /\ task'[t].nodes = task[t].nodes
        /\ \A u \in Task \ {t} : task'[u] = task[u]
    BY <1>3, <2>1, GotoStep
  <2>3. N!TypeOK'
    BY <1>2, <1>3, <2>2 DEF N!TypeOK
  <2>4. N!LiveOthers(task[t].client)' = N!LiveOthers(c)
    BY <1>1, <1>2, <2>2 DEF N!LiveOthers, N!Live
  <2>5. Shaped(t)' /\ LeftToOthers(t)'
    BY <1>1, <1>2, <2>2 DEF Single, Shaped, LeftToOthers, Leaves
  <2>6. Grounds(t)'
    BY <1>1, <1>2, <1>5, <2>2, <2>4 DEF Single, Grounds, N!NeedMore, N!Live
  <2>7. Matched(t)'
    BY <1>1, <1>2, <2>2, <2>4 DEF Single, Matched, Match, Leaves
  <2>8. QED
    BY <1>1, <1>2, <1>3, <2>2, <2>3, <2>5, <2>6, <2>7, OfOne DEF Single
<1>6. CASE ~(clients[c].nodes > 0 /\ N!NeedMore(c))
  <2>1. N!End(t)
    BY <1>6 DEF N!CheckSpinUp
  <2>2. /\ task' \in [Task -> N!TaskState] /\ task'[t] = N!NoTask
        /\ \A u \in Task \ {t} : task'[u] = task[u]
    BY <1>3, <2>1, EndStep
  <2>3. N!TypeOK' /\ task'[t].pc = "idle" /\ task'[t].kind = "none"
    BY <1>2, <1>3, <2>2 DEF N!TypeOK, N!NoTask
  <2>4. troubled = FALSE => Match(AllLive)
    <3> SUFFICES ASSUME troubled = FALSE
                 PROVE  Match(AllLive)
      OBVIOUS
    <3>1. Match(N!LiveOthers(c))
      BY <1>1, <1>2 DEF Single, Matched
    <3>2. clients[c].nodes = 0 \/ \E d \in N!LiveOthers(c) : clients[d].nodes >= clients[c].nodes
      BY <1>1, <1>3, <1>4, <1>6, NodeNumbers DEF N!NeedMore
    <3>3. clients[c].nodes <= holder
      BY <1>1, <1>3, <1>4, <3>1, <3>2, NodeNumbers DEF Match
    <3>4. QED
      BY <1>4, <3>1, <3>3 DEF Match
  <2>5. Shaped(t)' /\ Grounds(t)' /\ LeftToOthers(t)'
    BY <2>3 DEF Shaped, Grounds, LeftToOthers, Leaves
  <2>6. Matched(t)'
    BY <1>2, <1>4, <2>3, <2>4 DEF Matched, Leaves, Match
  <2>7. QED
    BY <1>1, <1>3, <2>2, <2>3, <2>5, <2>6, OfOne DEF Single
<1>7. QED
  BY <1>5, <1>6

LEMMA CheckReleaseKeepsInv ==
  ASSUME NodesInv, NEW t \in Task, N!CheckRelease(t)
  PROVE  NodesInv'
<1>0. PICK c : c = task[t].client
  OBVIOUS
<1>1. /\ \A u \in Task \ {t} : task[u].pc = "idle" /\ task[u].kind = "none"
      /\ Single(t) /\ c \in Client /\ (task[t].kind # "reap" => N!Unlisted)
      /\ task[t].kind \in {"register", "stop", "finish", "beat", "reap"}
  BY <1>0, Busy DEF N!CheckRelease
<1>2. task[t].pc = "need" /\ task[t].kind \in {"stop", "reap"} /\ UNCHANGED <<clients, holder, listed>>
  BY <1>1 DEF N!CheckRelease, Single, Shaped
<1>3. /\ N!TypeOK /\ N!Unlisted' = N!Unlisted
      /\ left' = left => Outside' /\ Backed(Client)'
  BY <1>2 DEF NodesInv, Outside, Backed, Kept, N!Live, N!Unlisted
<1>4. AllLive' = AllLive /\ N!LiveOthers(c) = AllLive \ {c} /\ AllLive \subseteq Client
  BY <1>1, <1>2, Others, SameClients
<1>5. /\ Backed(Client) /\ (troubled = FALSE => Match(AllLive))
      /\ \A d \in Client : clients[d].nodes \in Nat
      /\ holder \in Nat
  BY <1>0, <1>1, <1>2, NodeNumbers DEF NodesInv, N!Nodes, Single, Matched
<1> DEFINE asked == {clients[d].nodes : d \in N!LiveOthers(c)}
\* Nothing is to be done: others answer for the holder.
<1>6. ASSUME N!After(t, TRUE),
             clients[c].nodes = 0 \/ \E d \in N!LiveOthers(c) : clients[d].nodes >= clients[c].nodes
      PROVE  NodesInv'
  <2>0. left' = left \ {c}
    BY <1>0, <1>2, <1>3, <1>6, AfterStep
  <2>1. Backed(Client \ {c})
    BY <1>1, <1>4, <1>5, <1>6 DEF Backed, Kept, AllLive
  <2>2. Backed(Client \ {c})' /\ Backed(Client)'
    BY <1>2, <2>0, <2>1 DEF Backed, Kept, N!Live
  <2>3. N!LiveOthers(c)' = N!LiveOthers(c) /\ holder' \in N!Nodes
    BY <1>1, <1>2, <1>3 DEF N!LiveOthers, N!Live, N!TypeOK
  <2>4. troubled = FALSE => Match(N!LiveOthers(c))'
    <3> SUFFICES ASSUME troubled = FALSE PROVE Match(N!LiveOthers(c))'
      OBVIOUS
    <3>1. /\ \A d \in AllLive : clients[d].nodes <= holder
          /\ holder > 0 => \E d \in AllLive \cup left : clients[d].nodes = holder
      BY <1>5 DEF Match
    <3>2. holder > 0 => \E d \in N!LiveOthers(c) \cup left' : clients[d].nodes = holder
      BY <1>1, <1>4, <1>5, <1>6, <2>0, <3>1
    <3>3. QED
      BY <1>2, <1>4, <2>3, <3>1, <3>2 DEF Match
  <2>5. QED
    BY <1>0, <1>1, <1>2, <1>3, <1>6, <2>2, <2>3, <2>4, DealtWith
<1>7. ASSUME \A n \in asked : n = 0, N!Goto(t, "delete"), UNCHANGED <<left, troubled>>
      PROVE  NodesInv'
  <2>1. /\ task' \in [Task -> N!TaskState] /\ task'[t].pc = "delete"
        /\ task'[t].kind = task[t].kind /\ task'[t].client = c
        /\ task'[t].write = task[t].write /\ task'[t].loaded = task[t].loaded
        /\ \A u \in Task \ {t} : task'[u] = task[u]
    BY <1>0, <1>3, <1>7, GotoStep
  <2>2. N!TypeOK'
    BY <1>2, <1>3, <1>7, <2>1 DEF N!TypeOK
  <2>3. N!LiveOthers(task[t].client)' = N!LiveOthers(c)
    BY <1>1, <1>2, <2>1 DEF N!LiveOthers, N!Live
  <2>4. Shaped(t)' /\ LeftToOthers(t)'
    BY <1>0, <1>1, <1>2, <2>1 DEF Single, Shaped, LeftToOthers, Leaves
  <2>5. Grounds(t)'
    BY <1>2, <1>7, <2>1, <2>3 DEF Grounds
  <2>6. Matched(t)'
    BY <1>2, <2>1 DEF Matched, Leaves
  <2>7. QED
    BY <1>1, <1>2, <1>3, <1>7, <2>1, <2>2, <2>4, <2>5, <2>6, OfOne DEF Single
<1>8. ASSUME NEW n \in asked, \A m \in asked : m <= n, 0 < n,
             task' = [task EXCEPT ![t].pc = "create", ![t].nodes = n], UNCHANGED <<left, troubled>>
      PROVE  NodesInv'
  <2>1. n \in N!Nodes /\ task[t] \in N!TaskState
    BY <1>3, <1>4, NodeNumbers DEF N!TypeOK
  <2>2. /\ task' \in [Task -> N!TaskState] /\ task'[t].pc = "create" /\ task'[t].nodes = n
        /\ task'[t].kind = task[t].kind /\ task'[t].client = c
        /\ task'[t].write = task[t].write /\ task'[t].loaded = task[t].loaded
        /\ \A u \in Task \ {t} : task'[u] = task[u]
    BY <1>0, <1>3, <1>8, <2>1 DEF N!TypeOK, N!TaskState
  <2>3. N!TypeOK'
    BY <1>2, <1>3, <1>8, <2>2 DEF N!TypeOK
  <2>4. N!LiveOthers(task[t].client)' = N!LiveOthers(c)
    BY <1>1, <1>2, <2>2 DEF N!LiveOthers, N!Live
  <2>5. Shaped(t)' /\ LeftToOthers(t)'
    BY <1>0, <1>1, <1>2, <2>2 DEF Single, Shaped, LeftToOthers, Leaves
  <2>6. Grounds(t)'
    BY <1>2, <1>8, <2>2, <2>4 DEF Grounds
  <2>7. Matched(t)'
    BY <1>2, <2>2 DEF Matched, Leaves
  <2>8. QED
    BY <1>1, <1>2, <1>3, <1>8, <2>2, <2>3, <2>5, <2>6, <2>7, OfOne DEF Single
<1>9. QED
  <2>1. \/ clients[c].nodes = 0 /\ N!After(t, TRUE)
        \/ (\A n \in asked : n = 0) /\ N!Goto(t, "delete") /\ UNCHANGED <<left, troubled>>
        \/ \E n \in asked : n >= clients[c].nodes /\ N!After(t, TRUE)
        \/ \E n \in asked :
              /\ \A m \in asked : m <= n
              /\ 0 < n /\ UNCHANGED <<left, troubled>>
              /\ task' = [task EXCEPT ![t].pc = "create", ![t].nodes = n]
    BY <1>0 DEF N!CheckRelease
  <2>2. CASE \E n \in asked : n >= clients[c].nodes /\ N!After(t, TRUE)
    BY <1>6, <2>2
  <2>3. QED
    BY <1>6, <1>7, <1>8, <2>1, <2>2

\* The holder has become what the request asked for, or is as it was.
LEMMA HolderSet ==
  ASSUME NodesInv, NEW t \in Task, task[t].pc \in {"create", "patch"}, NEW ok \in BOOLEAN, N!After(t, ok),
         UNCHANGED <<clients, listed>>, holder' \in {holder, task[t].nodes},
         ok = TRUE => holder' = task[t].nodes
  PROVE  NodesInv'
<1>0. PICK c : c = task[t].client
  OBVIOUS
<1>1. /\ Single(t) /\ c \in Client /\ task[t].kind \in {"register", "stop", "reap"} /\ N!TypeOK
  BY <1>0, Busy DEF Single, Shaped, NodesInv
<1>2. /\ AllLive' = AllLive /\ N!LiveOthers(c)' = N!LiveOthers(c)
      /\ N!LiveOthers(c) = AllLive \ {c} /\ AllLive \subseteq Client
  BY <1>1, Others, SameClients
<1>3. /\ holder' \in N!Nodes /\ task[t].nodes \in Nat /\ \A d \in Client : clients[d].nodes \in Nat
  BY <1>1, NodeNumbers DEF N!TypeOK, N!Nodes
<1>4. /\ task[t].nodes > 0
      /\ task[t].kind = "register" =>
           /\ c \in AllLive /\ task[t].nodes = clients[c].nodes
           /\ \A d \in N!LiveOthers(c) : clients[d].nodes < task[t].nodes
      /\ task[t].kind # "register" =>
           /\ \A d \in N!LiveOthers(c) : clients[d].nodes <= task[t].nodes
           /\ \E d \in N!LiveOthers(c) : clients[d].nodes = task[t].nodes
  BY <1>0, <1>1 DEF Single, Grounds, AllLive
\* Whom the new size is for.
<1>5. PICK w \in AllLive :
        /\ clients[w].nodes = task[t].nodes
        /\ task[t].kind # "register" => w # c
  BY <1>1, <1>2, <1>4
<1>6. /\ \A d \in Client \ {c} : Kept(d)' = Kept(d)
      /\ ok # TRUE => \A d \in Client : Kept(d)' = Kept(d)
  BY <1>0, <1>1, AfterStep DEF Kept, N!Live
<1>7. Kept(w)' /\ w \in Client
  BY <1>2 DEF Kept, AllLive
<1>8. Backed(Client)'
  <2>1. CASE holder' = task[t].nodes
    BY <1>3, <1>5, <1>7, <2>1 DEF Backed
  <2>2. CASE holder' = holder /\ ok # TRUE
    BY <1>6, <2>2 DEF NodesInv, Backed
  <2>3. QED
    BY <2>1, <2>2
<1>9. ok = TRUE /\ task[t].kind # "register" => Backed(Client \ {c})'
  BY <1>3, <1>5, <1>6, <1>7 DEF Backed
<1>10. ok = TRUE => IF task[t].kind = "register" THEN Match(AllLive)' ELSE Match(N!LiveOthers(c))'
  <2> SUFFICES ASSUME ok = TRUE
               PROVE  IF task[t].kind = "register" THEN Match(AllLive)' ELSE Match(N!LiveOthers(c))'
    OBVIOUS
  <2>1. CASE task[t].kind = "register"
    <3>1. \A d \in AllLive : clients[d].nodes <= task[t].nodes
      BY <1>2, <1>3, <1>4, <2>1
    <3>2. QED
      BY <1>2, <1>5, <2>1, <3>1 DEF Match
  <2>2. CASE task[t].kind # "register"
    BY <1>2, <1>4, <2>2 DEF Match
  <2>3. QED
    BY <2>1, <2>2
<1>11. QED
  BY <1>0, <1>1, <1>3, <1>8, <1>9, <1>10, DealtWith

LEMMA CreateKeepsInv ==
  ASSUME NodesInv, NEW t \in Task, N!Create(t)
  PROVE  NodesInv'
<1>1. task[t].pc = "create" /\ UNCHANGED <<clients, listed>>
  BY DEF N!Create
<1>2. CASE holder = 0 /\ holder' = task[t].nodes /\ N!After(t, TRUE)
  BY <1>1, <1>2, HolderSet
<1>3. CASE /\ holder' \in {holder, IF holder = 0 THEN task[t].nodes ELSE holder}
           /\ N!After(t, FALSE)
  BY <1>1, <1>3, HolderSet
<1>4. CASE holder # 0 /\ N!Goto(t, "patch") /\ UNCHANGED <<holder, left, troubled>>
  <2>1. /\ \A u \in Task \ {t} : task[u].pc = "idle" /\ task[u].kind = "none"
        /\ Single(t) /\ (task[t].kind # "reap" => N!Unlisted) /\ task[t].client \in Client
    BY <1>1, Busy
  <2>2. /\ task' \in [Task -> N!TaskState] /\ task'[t].pc = "patch"
        /\ task'[t].kind = task[t].kind /\ task'[t].client = task[t].client
        /\ task'[t].nodes = task[t].nodes
        /\ task'[t].write = task[t].write /\ task'[t].loaded = task[t].loaded
        /\ \A u \in Task \ {t} : task'[u] = task[u]
    BY <1>4, GotoStep DEF NodesInv
  <2>3. N!TypeOK' /\ Outside' /\ Backed(Client)' /\ N!Unlisted' = N!Unlisted
    BY <1>1, <1>4, <2>2 DEF NodesInv, N!TypeOK, Outside, Backed, Kept, N!Live, N!Unlisted
  <2>4. N!LiveOthers(task[t].client)' = N!LiveOthers(task[t].client)
    BY <1>1, <2>2 DEF N!LiveOthers, N!Live
  <2>5. Shaped(t)' /\ LeftToOthers(t)'
    BY <1>1, <2>1, <2>2 DEF Single, Shaped, LeftToOthers, Leaves
  <2>6. Grounds(t)'
    BY <1>1, <2>1, <2>2, <2>4 DEF Single, Grounds, N!Live
  <2>7. Matched(t)'
    BY <1>1, <1>4, <2>1, <2>2, <2>4 DEF Single, Shaped, Matched, Leaves, Match
  <2>8. QED
    BY <2>1, <2>2, <2>3, <2>5, <2>6, <2>7, OfOne DEF Single
<1>5. QED
  BY <1>2, <1>3, <1>4 DEF N!Create

LEMMA PatchKeepsInv ==
  ASSUME NodesInv, NEW t \in Task, N!Patch(t)
  PROVE  NodesInv'
<1>1. task[t].pc = "patch" /\ UNCHANGED <<clients, listed>>
  BY DEF N!Patch
<1>2. CASE holder # 0 /\ holder' = task[t].nodes /\ N!After(t, TRUE)
  BY <1>1, <1>2, HolderSet
<1>3. CASE /\ holder' \in {holder, IF holder = 0 THEN 0 ELSE task[t].nodes}
           /\ N!After(t, FALSE)
  <2>1. holder' \in {holder, task[t].nodes}
    BY <1>3
  <2>2. QED
    BY <1>1, <1>3, <2>1, HolderSet
<1>4. QED
  BY <1>2, <1>3 DEF N!Patch

LEMMA DeleteKeepsInv ==
  ASSUME NodesInv, NEW t \in Task, N!Delete(t)
  PROVE  NodesInv'
<1>0. PICK c : c = task[t].client
  OBVIOUS
<1>1. task[t].pc = "delete" /\ UNCHANGED <<clients, listed>>
  BY DEF N!Delete
<1>2. Single(t) /\ c \in Client /\ task[t].kind \in {"stop", "reap"} /\ N!TypeOK
  BY <1>0, <1>1, Busy DEF Single, Shaped, NodesInv
<1>3. /\ N!LiveOthers(c)' = N!LiveOthers(c)
      /\ N!After(t, FALSE) => \A d \in Client : Kept(d)' = Kept(d)
  BY <1>1, <1>2, SameClients, AfterStep
<1>4. CASE holder' = 0 /\ N!After(t, TRUE)
  <2>1. Backed(Client)' /\ Backed(Client \ {c})'
    BY <1>4 DEF Backed
  <2>2. Match(N!LiveOthers(c))'
    BY <1>0, <1>1, <1>2, <1>3, <1>4 DEF Single, Grounds, Match
  <2>3. holder' \in N!Nodes
    BY <1>2, <1>4, NodeNumbers
  <2>4. QED
    BY <1>0, <1>1, <1>2, <1>4, <2>1, <2>2, <2>3, DealtWith
<1>5. CASE holder' \in {0, holder} /\ N!After(t, FALSE)
  <2>1. Backed(Client)'
    <3>1. CASE holder' = 0
      BY <3>1 DEF Backed
    <3>2. CASE holder' = holder
      BY <1>1, <1>3, <1>5, <3>2 DEF NodesInv, Backed
    <3>3. QED
      BY <1>5, <3>1, <3>2
  <2>2. holder' \in N!Nodes
    BY <1>2, <1>5, NodeNumbers DEF N!TypeOK
  <2>3. QED
    BY <1>0, <1>1, <1>2, <1>5, <2>1, <2>2, DealtWith
<1>6. QED
  BY <1>4, <1>5 DEF N!Delete

LEMMA ReadRowKeepsInv ==
  ASSUME NodesInv, NEW t \in Task, N!ReadRow(t)
  PROVE  NodesInv'
<1>0. PICK c : c = task[t].client
  OBVIOUS
<1>1. task[t].pc = "read" /\ UNCHANGED <<clients, holder, listed, left, troubled>>
  BY DEF N!ReadRow
<1>2. /\ \A u \in Task \ {t} : task[u].pc = "idle" /\ task[u].kind = "none"
      /\ Single(t) /\ c \in Client /\ (task[t].kind # "reap" => N!Unlisted) /\ N!TypeOK
      /\ task[t].kind \in {"stop", "finish", "beat"}
  BY <1>0, <1>1, Busy DEF Single, Shaped, NodesInv
<1>3. Outside' /\ Backed(Client)' /\ N!Unlisted' /\ AllLive' = AllLive /\ N!LiveOthers(c)' = N!LiveOthers(c)
  BY <1>1, <1>2, SameClients DEF NodesInv, Outside, Backed, Kept, N!Live, N!Unlisted
<1>4. CASE clients[c].status \in N!Terminal /\ N!End(t)
  <2>1. /\ task' \in [Task -> N!TaskState] /\ task'[t].pc = "idle" /\ task'[t].kind = "none"
        /\ \A u \in Task \ {t} : task'[u] = task[u]
    BY <1>2, <1>4, EndStep DEF N!NoTask
  <2>2. N!TypeOK'
    BY <1>1, <1>2, <2>1 DEF N!TypeOK
  <2>3. c \notin AllLive
    BY <1>2, <1>4 DEF AllLive, N!Live, N!LiveStatus, N!Terminal
  <2>4. N!LiveOthers(c) = AllLive
    BY <1>2, <2>3, Others
  <2>5. troubled = FALSE => Match(AllLive)
    BY <1>0, <1>1, <1>2, <2>4 DEF Single, Matched, Leaves
  <2>6. Shaped(t)' /\ Grounds(t)' /\ LeftToOthers(t)' /\ Matched(t)'
    BY <1>1, <1>3, <2>1, <2>5 DEF Shaped, Grounds, LeftToOthers, Leaves, Matched, Match
  <2>7. QED
    BY <1>2, <1>3, <2>1, <2>2, <2>6, OfOne DEF Single
<1>5. CASE /\ clients[c].status \notin N!Terminal
           /\ task' = [task EXCEPT ![t].pc = "write", ![t].loaded = clients[c].status]
  <2>1. task[t] \in N!TaskState /\ clients[c].status \in N!Status
    BY <1>2 DEF N!TypeOK, N!ClientRow
  <2>2. /\ task' \in [Task -> N!TaskState] /\ task'[t].pc = "write"
        /\ task'[t].kind = task[t].kind /\ task'[t].client = c
        /\ task'[t].nodes = task[t].nodes
        /\ task'[t].write = task[t].write /\ task'[t].loaded = clients[c].status
        /\ \A u \in Task \ {t} : task'[u] = task[u]
    BY <1>0, <1>2, <1>5, <2>1 DEF N!TypeOK, N!TaskState
  <2>3. N!TypeOK'
    BY <1>1, <1>2, <2>2 DEF N!TypeOK
  <2>4. N!LiveOthers(task[t].client)' = N!LiveOthers(c)
    BY <1>1, <1>2, <2>2 DEF N!LiveOthers, N!Live
  <2>5. clients'[c].status = task'[t].loaded
    BY <1>1, <2>2
  <2>6. Shaped(t)'
    BY <1>0, <1>1, <1>2, <1>5, <2>2, <2>5 DEF Single, Shaped, N!Live, N!Terminal
  <2>7. Grounds(t)'
    BY <1>2, <2>2 DEF Grounds
  <2>8. LeftToOthers(t)'
    <3>1. Backed(Client \ {c})' <=> Backed(Client \ {c})
      BY <1>1 DEF Backed, Kept, N!Live
    <3>2. QED
      BY <1>0, <1>1, <1>2, <2>2, <3>1 DEF Single, LeftToOthers, Leaves
  <2>9. Matched(t)'
    BY <1>0, <1>1, <1>2, <1>3, <2>2, <2>4 DEF Single, Matched, Leaves, Match
  <2>10. QED
    BY <1>2, <1>3, <2>2, <2>3, <2>6, <2>7, <2>8, <2>9, OfOne DEF Single
<1>6. QED
  BY <1>0, <1>4, <1>5 DEF N!ReadRow

LEMMA WriteRowKeepsInv ==
  ASSUME NodesInv, NEW t \in Task, N!WriteRow(t)
  PROVE  NodesInv'
<1>0. PICK c : c = task[t].client
  OBVIOUS
<1>1. task[t].pc = "write" /\ holder' = holder /\ N!End(t)
  BY DEF N!WriteRow
<1>2. /\ \A u \in Task \ {t} : task[u].pc = "idle" /\ task[u].kind = "none"
      /\ Single(t) /\ c \in Client /\ (task[t].kind # "reap" => N!Unlisted) /\ N!TypeOK
      /\ task[t].kind \in {"stop", "finish", "beat", "reap"}
  BY <1>0, <1>1, Busy DEF Single, Shaped, NodesInv
<1>3. /\ task' \in [Task -> N!TaskState] /\ task'[t].pc = "idle" /\ task'[t].kind = "none"
      /\ \A u \in Task \ {t} : task'[u] = task[u]
  BY <1>1, <1>2, EndStep DEF N!NoTask
\* The row: only its status is written.
<1> DEFINE to == IF task[t].write = task[t].loaded THEN clients[c].status ELSE task[t].write
<1>4. /\ \A d \in Client : clients'[d].nodes = clients[d].nodes
      /\ \A d \in Client \ {c} : clients'[d].status = clients[d].status
      /\ clients'[c].status = to /\ clients' \in [Client -> N!ClientRow]
  <2>1. clients' = [clients EXCEPT ![c].status = to]
    BY <1>0 DEF N!WriteRow
  <2>2. task[t].write \in N!AvailabilityStatus /\ clients[c].status \in N!Status
    BY <1>2 DEF N!TypeOK, N!TaskState, N!ClientRow
  <2>3. to \in N!Status
    BY <2>2 DEF N!Status
  <2> HIDE DEF to
  <2>4. QED
    BY <1>2, <2>1, <2>3 DEF N!TypeOK, N!ClientRow
<1>5. /\ task[t].kind \in {"stop", "reap"} =>
           /\ to \in {"STOPPED", "KILLED", "DELETION_FAILED"}
           /\ to = "DELETION_FAILED" <=> task[t].write = "DELETION_FAILED"
      /\ task[t].kind \in {"finish", "beat"} => clients[c].status # "NO_ROW" /\ to # "NO_ROW"
      /\ task[t].kind = "finish" => to = "FINISHED"
  <2>1. task[t].write \in N!AvailabilityStatus
    BY <1>2 DEF N!TypeOK, N!TaskState
  <2>2. QED
    BY <1>0, <1>1, <1>2, <2>1 DEF Single, Shaped, N!Live, N!LiveStatus, N!Terminal, N!AvailabilityStatus
\* Who leaves the count by a heartbeat is remembered, who comes back is trouble.
<1>6. /\ left' = IF to \in N!LiveStatus THEN left \ {c}
                 ELSE IF task[t].kind = "beat" THEN left \cup {c} ELSE left
      /\ troubled' = (troubled \/ (~N!Live(c) /\ to \in N!LiveStatus))
      /\ troubled \in BOOLEAN
  BY <1>0, <1>2 DEF N!WriteRow, N!TypeOK
<1> HIDE DEF to
<1>7. /\ N!Live(c)' <=> to \in N!LiveStatus
      /\ troubled' \in BOOLEAN
      /\ troubled' = FALSE => troubled = FALSE /\ (N!Live(c)' => N!Live(c))
  BY <1>4, <1>6 DEF N!Live
<1>8. Outside' /\ N!TypeOK'
  <2>1. listed' \in [Client -> N!Status]
    BY <1>2 DEF N!WriteRow, N!TypeOK, N!Status
  <2>2. N!TypeOK'
    BY <1>1, <1>2, <1>3, <1>4, <1>6, <1>7, <2>1 DEF N!TypeOK
  <2>3. Outside'
    BY <1>2, <1>4, <1>5, <1>6, <1>7 DEF NodesInv, Outside, N!Live, N!TypeOK
  <2>4. QED
    BY <2>2, <2>3
<1>9. \A d \in Client \ {c} : N!Live(d)' = N!Live(d) /\ Kept(d)' = Kept(d)
  BY <1>4, <1>6 DEF N!Live, Kept
<1>10. N!Unlisted' \/ task'[t].kind \in {"none", "reap"}
  BY <1>3
<1>11. Backed(Client)' /\ (troubled' = FALSE => Match(AllLive)')
  <2>1. CASE task[t].kind \in {"finish", "beat"}
    <3>1. Kept(c)'
      BY <1>2, <1>5, <1>6, <1>7, <2>1 DEF Kept, N!LiveStatus
    <3>2. Backed(Client)'
      BY <1>1, <1>4, <1>9, <3>1 DEF NodesInv, Backed
    <3>3. troubled' = FALSE => Match(AllLive)'
      <4> SUFFICES ASSUME troubled' = FALSE PROVE Match(AllLive)'
        OBVIOUS
      <4>1. Match(AllLive)
        BY <1>2, <1>7, <2>1 DEF Single, Matched
      <4>2. AllLive' \subseteq AllLive /\ AllLive \subseteq Client /\ left \subseteq Client
        BY <1>2, <1>9, <1>7 DEF AllLive, N!TypeOK
      <4>3. AllLive \cup left \subseteq AllLive' \cup left'
        BY <1>2, <1>5, <1>9, <1>6, <1>7, <2>1, <4>2 DEF AllLive, N!LiveStatus
      <4>4. QED
        BY <1>1, <1>4, <4>1, <4>2, <4>3 DEF Match
    <3>4. QED
      BY <3>2, <3>3
  <2>2. CASE task[t].kind \in {"stop", "reap"}
    <3>1. ~N!Live(c)' /\ left' = left
      BY <1>2, <1>5, <1>6, <1>7, <2>2 DEF N!LiveStatus
    <3>2. AllLive' = N!LiveOthers(c) /\ N!LiveOthers(c) \subseteq Client /\ left \subseteq Client
      BY <1>2, <1>9, <3>1 DEF AllLive, N!LiveOthers, N!TypeOK
    <3>3. troubled = FALSE => Match(N!LiveOthers(c))
      BY <1>0, <1>1, <1>2, <2>2 DEF Single, Matched, Leaves
    <3>4. troubled' = FALSE => Match(AllLive)'
      BY <1>1, <1>4, <1>7, <3>1, <3>2, <3>3 DEF Match
    <3>5. CASE task[t].write = "DELETION_FAILED"
      <4>1. Kept(c)'
        BY <1>2, <1>4, <1>5, <2>2, <3>5 DEF Kept
      <4>2. QED
        BY <1>1, <1>4, <1>9, <3>4, <4>1 DEF NodesInv, Backed
    <3>6. CASE task[t].write # "DELETION_FAILED"
      <4>1. Backed(Client \ {c})
        BY <1>0, <1>1, <1>2, <2>2, <3>6 DEF Single, LeftToOthers, Leaves
      <4>2. QED
        BY <1>1, <1>4, <1>9, <3>4, <4>1 DEF Backed
    <3>7. QED
      BY <3>5, <3>6
  <2>3. QED
    BY <1>2, <2>1, <2>2
<1>12. Shaped(t)' /\ Grounds(t)' /\ LeftToOthers(t)' /\ Matched(t)'
  BY <1>1, <1>3, <1>11 DEF Shaped, Grounds, LeftToOthers, Leaves, Matched
<1>13. QED
  BY <1>2, <1>3, <1>8, <1>10, <1>11, <1>12, OfOne DEF Single

\* A request begins: it is the only one.
LEMMA OpenStep ==
  ASSUME NodesInv, Alone = N!Kinds, NEW t \in Task, NEW kind \in N!Kinds, NEW c \in Client,
         NEW at \in {"check", "need", "read"}, NEW n \in N!Nodes, NEW w \in N!AvailabilityStatus,
         N!Open(t, kind, c, at, n, w), kind = "reap" => (\A u \in Task : task[u].kind # "reap") /\ ~N!Unlisted
  PROVE  /\ \A u \in Task : task[u].pc = "idle" /\ task[u].kind = "none"
         /\ kind # "reap" => N!Unlisted
         /\ \A u \in Task \ {t} : task'[u] = task[u]
         /\ task' \in [Task -> N!TaskState]
         /\ task'[t] = [kind |-> kind, client |-> c, pc |-> at, nodes |-> n, write |-> w, loaded |-> "NO_ROW"]
         /\ troubled = FALSE => Match(AllLive)
<1> DEFINE new == [kind |-> kind, client |-> c, pc |-> at, nodes |-> n, write |-> w, loaded |-> N!NoRow]
<1>1. N!TypeOK
  BY DEF NodesInv
<1>2. new \in N!TaskState
  BY DEF N!TaskState, N!Status
<1>3. task' = [task EXCEPT ![t] = new]
  BY DEF N!Open
<1>4. kind # "reap" => N!Quiet
  BY DEF N!Open, N!MayBegin
<1>5. /\ kind # "reap" => N!Unlisted
      /\ \A u \in Task : task[u].pc = "idle" /\ task[u].kind = "none"
  BY <1>4 DEF N!Quiet, NodesInv, OneAtATime, Shaped
<1>6. task'[t] = new /\ task' \in [Task -> N!TaskState] /\ \A u \in Task \ {t} : task'[u] = task[u]
  <2> HIDE DEF new
  <2>1. QED
    BY <1>1, <1>2, <1>3 DEF N!TypeOK
<1>7. QED
  BY <1>5, <1>6 DEF NodesInv, Rest, N!NoRow

LEMMA RegisterKeepsInv ==
  ASSUME NodesInv, Alone = N!Kinds, NEW t \in Task, NEW c \in Client, NEW n \in N!Nodes, N!Register(t, c, n)
  PROVE  NodesInv'
<1> DEFINE opened == [kind |-> "register", client |-> c, pc |-> "check", nodes |-> n, write |-> "ALIVE",
                      loaded |-> "NO_ROW"]
<1>1. /\ \A u \in Task : task[u].pc = "idle" /\ task[u].kind = "none"
      /\ N!Unlisted /\ \A u \in Task \ {t} : task'[u] = task[u]
      /\ task' \in [Task -> N!TaskState] /\ task'[t] = opened
      /\ troubled = FALSE => Match(AllLive)
  <2>1. "register" \in N!Kinds /\ "ALIVE" \in N!AvailabilityStatus
    BY DEF N!Kinds, N!AvailabilityStatus
  <2>2. QED
    BY <2>1, OpenStep DEF N!Register
<1>2. /\ task'[t].kind = "register" /\ task'[t].client = c /\ task'[t].pc = "check" /\ task'[t].nodes = n
  BY <1>1
<1>3. /\ clients[c].status = "NO_ROW" /\ UNCHANGED <<holder, listed, left, troubled>> /\ N!TypeOK
      /\ clients' = [clients EXCEPT ![c] = [status |-> "ALIVE", nodes |-> n]]
  BY DEF N!Register, N!NoRow, NodesInv
<1>4. /\ clients' \in [Client -> N!ClientRow] /\ clients'[c].status = "ALIVE" /\ clients'[c].nodes = n
      /\ \A d \in Client \ {c} : clients'[d] = clients[d]
  BY <1>3 DEF N!TypeOK, N!ClientRow, N!Status, N!AvailabilityStatus
<1>5. N!TypeOK' /\ Outside' /\ N!Unlisted'
  BY <1>1, <1>3, <1>4 DEF N!TypeOK, NodesInv, Outside, N!Live, N!Unlisted
<1>6. /\ ~N!Live(c) /\ ~Kept(c) /\ N!Live(c)' /\ c \notin left
      /\ \A d \in Client \ {c} : N!Live(d)' = N!Live(d) /\ Kept(d)' = Kept(d)
  BY <1>3, <1>4 DEF N!Live, N!LiveStatus, Kept, NodesInv, Outside
<1>7. Backed(Client)'
  BY <1>3, <1>4, <1>6 DEF NodesInv, Backed
<1>8. N!LiveOthers(task[t].client)' = AllLive
  BY <1>2, <1>6 DEF N!LiveOthers, AllLive
<1>9. Matched(t)'
  <2>1. \A d \in AllLive \cup left : clients'[d] = clients[d]
    BY <1>3, <1>4, <1>6 DEF AllLive, N!TypeOK
  <2>2. QED
    BY <1>1, <1>2, <1>3, <1>8, <2>1 DEF Matched, Match, Leaves
<1>10. Shaped(t)' /\ Grounds(t)' /\ LeftToOthers(t)'
  BY <1>2, <1>4, <1>6 DEF Shaped, Grounds, LeftToOthers, Leaves
<1>11. QED
  BY <1>1, <1>5, <1>7, <1>9, <1>10, OfOne DEF Single

\* The requests that begin without a write.
LEMMA OpenKeepsInv ==
  ASSUME NodesInv, Alone = N!Kinds, NEW t \in Task, NEW c \in Client,
         N!Stop(t, c) \/ N!FinishOrBeat(t, c) \/ N!Reap(t, c)
  PROVE  NodesInv'
<1>1. UNCHANGED <<clients, holder, listed, left, troubled>> /\ N!TypeOK
  BY DEF N!Stop, N!FinishOrBeat, N!Reap, NodesInv
<1>2. PICK kind \in {"stop", "finish", "beat", "reap"}, at \in {"need", "read"},
           w \in N!AvailabilityStatus :
        /\ N!Open(t, kind, c, at, 0, w)
        /\ kind = "stop" => at = "need" /\ w \in {"STOPPED", "DELETION_FAILED"}
        /\ kind = "reap" => /\ at = "need" /\ w \in {"STOPPED", "KILLED"}
                            /\ \A u \in Task : task[u].kind # "reap"
                            /\ ~N!Unlisted
        /\ kind \in {"finish", "beat"} =>
             at = "read" /\ clients[c].status # "NO_ROW"
        /\ kind = "finish" => w = "FINISHED"
  <2>1. CASE N!Stop(t, c)
    BY <2>1 DEF N!Stop, N!AvailabilityStatus
  <2>2. CASE N!FinishOrBeat(t, c)
    BY <2>2, AccountingAssumption DEF N!FinishOrBeat, N!NoRow, N!NodesConstants, N!AvailabilityStatus
  <2>3. CASE N!Reap(t, c)
    <3>1. ~N!Unlisted
      BY <2>3 DEF N!Reap, N!Unlisted
    <3>2. QED
      BY <2>3, <3>1 DEF N!Reap, N!AvailabilityStatus
  <2>4. QED
    BY <2>1, <2>2, <2>3
<1>3. kind \in N!Kinds /\ w \in N!AvailabilityStatus /\ 0 \in N!Nodes
  BY <1>1, NodeNumbers DEF N!Kinds
<1>4. /\ \A u \in Task : task[u].pc = "idle" /\ task[u].kind = "none"
      /\ kind # "reap" => N!Unlisted
      /\ \A u \in Task \ {t} : task'[u] = task[u]
      /\ task' \in [Task -> N!TaskState]
      /\ task'[t] = [kind |-> kind, client |-> c, pc |-> at, nodes |-> 0, write |-> w, loaded |-> "NO_ROW"]
      /\ troubled = FALSE => Match(AllLive)
  <2>1. /\ N!Open(t, kind, c, at, 0, w) /\ at \in {"check", "need", "read"}
        /\ kind = "reap" => (\A u \in Task : task[u].kind # "reap") /\ ~N!Unlisted
    BY <1>2
  <2>2. QED
    BY <1>3, <2>1, OpenStep
<1>5. /\ task'[t].kind = kind /\ task'[t].client = c /\ task'[t].pc = at /\ task'[t].write = w
      /\ task'[t].loaded = "NO_ROW"
  BY <1>4
<1>6. N!TypeOK' /\ Outside' /\ Backed(Client)' /\ N!Unlisted' = N!Unlisted /\ AllLive' = AllLive
  BY <1>1, <1>4, SameClients DEF NodesInv, N!TypeOK, Outside, Backed, Kept, N!Live, N!Unlisted
<1>7. Shaped(t)'
  BY <1>1, <1>2, <1>5 DEF Shaped
<1>8. Grounds(t)' /\ LeftToOthers(t)'
  BY <1>2, <1>5 DEF Grounds, LeftToOthers, Leaves
<1>9. Matched(t)'
  BY <1>1, <1>2, <1>4, <1>5, <1>6 DEF Matched, Leaves, Match
<1>10. QED
  BY <1>4, <1>5, <1>6, <1>7, <1>8, <1>9, OfOne DEF Single

LEMMA WatchListKeepsInv ==
  ASSUME NodesInv, Alone = N!Kinds, N!WatchList
  PROVE  NodesInv'
<1>1. UNCHANGED <<clients, holder, task, left, troubled>> /\ N!TypeOK
  BY DEF N!WatchList, NodesInv
<1>2. N!Quiet
  BY DEF N!WatchList, N!MayBegin, N!Kinds
<1>3. \A t \in Task : task[t].kind = "none"
  BY <1>2 DEF N!Quiet, NodesInv, Shaped
<1>4. listed' \in [Client -> N!Status]
  <2>1. PICK idle \in SUBSET Client :
          listed' = [c \in Client |-> IF c \in idle THEN clients[c].status ELSE N!NoRow]
    BY DEF N!WatchList
  <2>2. QED
    BY <1>1, <2>1 DEF N!TypeOK, N!ClientRow, N!Status
<1>5. N!TypeOK' /\ Outside' /\ OneAtATime'
  BY <1>1, <1>3, <1>4 DEF N!TypeOK, NodesInv, Outside, N!Live, OneAtATime
<1>6. Rest' /\ Backed(Client)'
  BY <1>1 DEF NodesInv, Rest, Backed, Match, AllLive, Kept, N!Live
<1>7. ASSUME NEW t \in Task
      PROVE  (Shaped(t) /\ Grounds(t) /\ LeftToOthers(t))' /\ task'[t].pc = "idle"
  BY <1>1, <1>2, <1>3, <1>7 DEF N!Quiet, Shaped, Grounds, LeftToOthers, Leaves
<1>8. QED
  BY <1>5, <1>6, <1>7 DEF NodesInv

LEMMA DieKeepsInv ==
  ASSUME NodesInv, NEW t \in Task, N!Die(t)
  PROVE  NodesInv'
<1>1. task[t].pc # "idle" /\ UNCHANGED <<clients, holder, left>> /\ troubled' = TRUE /\ N!End(t) /\ N!TypeOK
  BY DEF N!Die, NodesInv
<1>2. \A u \in Task \ {t} : task[u].pc = "idle" /\ task[u].kind = "none"
  BY <1>1, Busy
<1>3. /\ task' \in [Task -> N!TaskState] /\ task'[t].pc = "idle" /\ task'[t].kind = "none"
      /\ \A u \in Task \ {t} : task'[u] = task[u]
  BY <1>1, EndStep DEF N!NoTask
<1>4. listed' \in [Client -> N!Status]
  BY <1>1 DEF N!Die, N!TypeOK, N!Status
<1>5. N!TypeOK' /\ Outside' /\ Backed(Client)'
  BY <1>1, <1>3, <1>4 DEF NodesInv, N!TypeOK, Outside, Backed, Kept, N!Live
<1>6. Shaped(t)' /\ Grounds(t)' /\ LeftToOthers(t)' /\ Matched(t)'
  BY <1>1, <1>3 DEF Shaped, Grounds, LeftToOthers, Leaves, Matched
<1>7. QED
  BY <1>2, <1>3, <1>5, <1>6, OfOne DEF Single

LEMMA NodesStart == N!Init => NodesInv
<1> SUFFICES ASSUME N!Init
             PROVE  NodesInv
  OBVIOUS
<1>1. /\ \A c \in Client : clients[c] = [status |-> "NO_ROW", nodes |-> 0]
      /\ holder = 0 /\ \A t \in Task : task[t].pc = "idle" /\ task[t].kind = "none"
  BY DEF N!Init, N!NoRow, N!NoTask
<1>2. N!NoTask \in N!TaskState /\ 0 \in N!Nodes
  BY AccountingAssumption DEF N!NodesConstants, N!NoTask, N!TaskState, N!Nodes, N!Status, N!AvailabilityStatus, N!NoRow
<1>3. N!TypeOK
  BY <1>2 DEF N!Init, N!TypeOK, N!ClientRow, N!Status
<1>4. Outside /\ OneAtATime /\ Rest /\ Backed(Client)
  BY <1>1 DEF N!Init, Outside, OneAtATime, Rest, Match, Backed, AllLive, N!Live, N!LiveStatus
<1>5. \A t \in Task : Shaped(t) /\ Grounds(t) /\ LeftToOthers(t)
  BY <1>1 DEF Shaped, Grounds, LeftToOthers, Leaves
<1>6. QED
  BY <1>1, <1>3, <1>4, <1>5 DEF NodesInv

LEMMA NodesInductive == ASSUME Alone = N!Kinds PROVE AllSpec => []NodesInv
<1>1. AllInit => NodesInv
  BY NodesStart DEF AllInit
<1>2. NodesInv /\ [AllNext]_allVars => NodesInv'
  <2> SUFFICES ASSUME NodesInv, [AllNext]_allVars
               PROVE  NodesInv'
    OBVIOUS
  <2>1. CASE NodesNext
    BY <2>1, CheckSpinUpKeepsInv, CheckReleaseKeepsInv, CreateKeepsInv, PatchKeepsInv, DeleteKeepsInv,
       ReadRowKeepsInv, WriteRowKeepsInv, RegisterKeepsInv, OpenKeepsInv, WatchListKeepsInv, DieKeepsInv
       DEF NodesNext, N!Next, N!Step
  <2>2. CASE UNCHANGED nodeVars
    <3> USE <2>2 DEF nodeVars
    <3>1. N!TypeOK' /\ Outside' /\ OneAtATime'
      BY DEF NodesInv, N!TypeOK, Outside, N!Live, OneAtATime, N!Unlisted
    <3>2. Rest' /\ Backed(Client)'
      BY DEF NodesInv, Rest, Backed, Match, AllLive, Kept, N!Live
    <3>3. ASSUME NEW t \in Task
          PROVE  /\ (Shaped(t) /\ Grounds(t) /\ LeftToOthers(t))'
                 /\ task'[t].pc # "idle" => Matched(t)'
      <4>1. Shaped(t)' /\ Grounds(t)'
        BY DEF NodesInv, Shaped, Grounds, N!LiveOthers, N!Live
      <4>2. LeftToOthers(t)'
        BY DEF NodesInv, LeftToOthers, Leaves, Backed, Kept, N!Live
      <4>3. task'[t].pc # "idle" => Matched(t)'
        BY DEF NodesInv, Matched, Leaves, Match, AllLive, N!LiveOthers, N!Live
      <4>4. QED
        BY <4>1, <4>2, <4>3
    <3>4. QED
      BY <3>1, <3>2, <3>3 DEF NodesInv
  <2>3. QED
    BY <2>1, <2>2 DEF AllNext, QuotaNext, HoldNext, allVars
<1>3. QED
  BY <1>1, <1>2, PTL DEF AllSpec

(* For any clients, numbers of nodes, tasks and heartbeats: as long as the *)
(* requests on a name do not overlap, nothing has failed and nobody came   *)
(* back into the count, the holder has, when all is quiet, no fewer nodes  *)
(* than the largest request of a client that counts, and as many as one    *)
(* asked for who counts or left by a heartbeat (need_to_spin_up_nodes,     *)
(* need_to_release_nodes, accept_client_heartbeat).                        *)
THEOREM NodesMatchDemandHolds == ASSUME Alone = N!Kinds PROVE AllSpec => []NodesMatchDemand
<1>1. NodesInv => NodesMatchDemand
  <2> SUFFICES ASSUME NodesInv, N!Quiet, ~troubled
               PROVE  N!Enough /\ (holder > 0 => N!Demanded)
    BY DEF NodesMatchDemand, N!NodesMatchDemand
  <2>1. troubled = FALSE
    BY DEF NodesInv, N!TypeOK
  <2>2. Match(AllLive) /\ left \subseteq Client
    BY <2>1 DEF NodesInv, Rest, N!Quiet, N!TypeOK
  <2>3. QED
    BY <2>2 DEF Match, AllLive, N!Enough, N!Demanded
<1>2. QED
  BY <1>1, NodesInductive, PTL

(* The same with calls that fail and replicas that die half-way: nodes     *)
(* that no client that counts asks for are those of a client who asked for *)
(* as many, and whose release has failed, as its row says, or who left by  *)
(* a heartbeat (_task_stop_client, accept_client_heartbeat).               *)
THEOREM ExcessOnRecordHolds == ASSUME Alone = N!Kinds PROVE AllSpec => []ExcessOnRecord
<1>1. NodesInv => ExcessOnRecord
  <2> SUFFICES ASSUME NodesInv, \A c \in Client : N!Live(c) => clients[c].nodes < holder, holder > 0
               PROVE  \E c \in Client : /\ (clients[c].status = "DELETION_FAILED" \/ c \in left)
                                         /\ clients[c].nodes >= holder
    BY DEF ExcessOnRecord, N!ExcessOnRecord
  <2>1. PICK c \in Client : Kept(c) /\ clients[c].nodes >= holder
    BY DEF NodesInv, Backed
  <2>2. holder \in Nat /\ clients[c].nodes \in Nat
    BY NodeNumbers DEF NodesInv
  <2>3. ~N!Live(c)
    BY <2>1, <2>2
  <2>4. QED
    BY <2>1, <2>3 DEF Kept
<1>2. QED
  BY <1>1, NodesInductive, PTL
=============================================================================
