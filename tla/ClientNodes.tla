---------------------------- MODULE ClientNodes ----------------------------
(***************************************************************************)
(* Clients that share a name, and the node holder: one Deployment per      *)
(* name that keeps as many nodes as the largest request of a live client.  *)
(*                                                                         *)
(* Registering, stopping, finishing and heartbeats are tasks of the        *)
(* orchestrator's replicas; the watcher reaps idle clients, one by one,    *)
(* from a list it made.  Each database transaction and each Kubernetes     *)
(* call is a step.  The servers a client stops are in ServerLifecycle.     *)
(***************************************************************************)
EXTENDS Integers, FiniteSets, ServerStatus

CONSTANTS
    Client,     \* client ids, all registered under one name
    NoClient,
    Task,       \* task slots: how many requests run at once
    MaxNodes,   \* bound on nodes_count
    Beats,      \* statuses that a heartbeat names, of AvailabilityStatus
    Faults,     \* what may go wrong, of AllFaults
    Alone       \* kinds of request that overlap with no other

\* "api": Kubernetes calls fail.  "crash": a replica or the watcher dies.
AllFaults == {"api", "crash"}
Kinds == {"register", "stop", "finish", "beat", "reap"}

NodesConstants ==
    /\ NoClient \notin Client
    /\ MaxNodes \in Nat \ {0}
    /\ Beats \subseteq AvailabilityStatus
    /\ Faults \subseteq AllFaults
    /\ Alone \subseteq Kinds

VARIABLES
    clients,   \* [Client -> row]
    holder,    \* replicas of the node holder; 0 when there is none
    task,      \* [Task -> what the task does and its next step]
    listed,    \* [Client -> the status the watcher's pass saw, until it is done]
    left,      \* history: clients that a heartbeat took out of the count, until
               \* their nodes are released
    troubled   \* history: has a Kubernetes call failed, a replica died, or a
               \* client come back into the count?

vars == <<clients, holder, task, listed, left, troubled>>

Nodes == 0 .. MaxNodes
Status == AvailabilityStatus \cup {NoRow}
ClientRow == [status : Status, nodes : Nodes]
TaskState ==
    [kind : Kinds \cup {"none"}, client : Client \cup {NoClient},
     pc : {"idle", "check", "need", "create", "patch", "delete", "read", "write"},
     nodes : Nodes, write : AvailabilityStatus, loaded : Status]

NoTask == [kind |-> "none", client |-> NoClient, pc |-> "idle", nodes |-> 0,
           write |-> "ALIVE", loaded |-> NoRow]

\* Clients that still count.
LiveStatus == {"ALIVE", "FINISHED"}
Live(c) == clients[c].status \in LiveStatus
LiveOthers(c) == {d \in Client \ {c} : Live(d)}

Unlisted == \A c \in Client : listed[c] = NoRow
Quiet == Unlisted /\ \A t \in Task : task[t].pc = "idle"

-----------------------------------------------------------------------------
(* Requests.                                                               *)

MayBegin(kind) ==
    /\ kind \in Alone => Quiet
    /\ "reap" \in Alone => Unlisted
    /\ \A u \in Task : task[u].kind \notin Alone

Open(t, kind, c, pc, nodes, write) ==
    /\ task[t].pc = "idle"
    /\ kind # "reap" => MayBegin(kind)
    /\ task' = [task EXCEPT ![t] = [kind |-> kind, client |-> c, pc |-> pc, nodes |-> nodes,
                                    write |-> write, loaded |-> NoRow]]

\* safely_register_new_client_in_db: the commit of the new row also lets go of
\* the table lock, before the other clients are looked at.
Register(t, c, n) ==
    /\ clients[c].status = NoRow
    /\ Open(t, "register", c, "check", n, "ALIVE")
    /\ clients' = [clients EXCEPT ![c] = [status |-> "ALIVE", nodes |-> n]]
    /\ UNCHANGED <<holder, listed, left, troubled>>

\* stop_client, once its servers are stopped, all of them or not.
Stop(t, c) ==
    /\ clients[c].status # NoRow
    /\ \/ Open(t, "stop", c, "need", 0, "STOPPED")
       \/ "api" \in Faults /\ Open(t, "stop", c, "need", 0, "DELETION_FAILED")
    /\ UNCHANGED <<clients, holder, listed, left, troubled>>

\* finish_client; and accept_client_heartbeat, whose request names the status.
FinishOrBeat(t, c) ==
    /\ clients[c].status # NoRow
    /\ \/ Open(t, "finish", c, "read", 0, "FINISHED")
       \/ \E s \in Beats : Open(t, "beat", c, "read", 0, s)
    /\ UNCHANGED <<clients, holder, listed, left, troubled>>

-----------------------------------------------------------------------------
(* Steps of tasks.                                                         *)

Goto(t, pc) == task' = [task EXCEPT ![t].pc = pc]
End(t) == task' = [task EXCEPT ![t] = NoTask]

\* Where a request goes when the holder is dealt with: a registration is done,
\* a stop reads the client's row, the watcher writes the row it listed.
\* (AfterAnyhow is faulty: it does not look at the outcome.)
AfterAnyhow(t, ok) ==
    /\ troubled' = (troubled \/ ~ok)
    /\ left' = IF task[t].kind = "register" THEN left ELSE left \ {task[t].client}
    /\ IF task[t].kind = "register" THEN End(t)
       ELSE Goto(t, IF task[t].kind = "reap" THEN "write" ELSE "read")
After(t, ok) ==
    /\ troubled' = (troubled \/ ~ok)
    /\ left' = IF ok /\ task[t].kind # "register" THEN left \ {task[t].client} ELSE left
    /\ IF task[t].kind = "register" THEN End(t)
       ELSE task' = [task EXCEPT ![t].pc = IF task[t].kind = "reap" THEN "write" ELSE "read",
                                 ![t].write = IF ok THEN @ ELSE "DELETION_FAILED"]

\* need_to_spin_up_nodes: no other live client asked for as many.
\* (NeedAny is faulty: one that asked for any is taken as enough.)
NeedAny(c) == \A d \in LiveOthers(c) : clients[d].nodes = 0
NeedMore(c) == \A d \in LiveOthers(c) : clients[d].nodes < clients[c].nodes

CheckSpinUp(t) ==
    /\ task[t].pc = "check"
    /\ LET c == task[t].client
       IN  IF clients[c].nodes > 0 /\ NeedMore(c) THEN Goto(t, "create") ELSE End(t)
    /\ UNCHANGED <<clients, holder, listed, left, troubled>>

\* need_to_release_nodes: what the other live clients still ask for.
CheckRelease(t) ==
    /\ task[t].pc = "need"
    /\ LET c == task[t].client
           asked == {clients[d].nodes : d \in LiveOthers(c)}
       IN  \/ clients[c].nodes = 0 /\ After(t, TRUE)
           \/ /\ clients[c].nodes > 0
              /\ \A n \in asked : n = 0
              /\ Goto(t, "delete") /\ UNCHANGED <<left, troubled>>
           \/ \E n \in asked :
                 /\ \A m \in asked : m <= n
                 /\ n >= clients[c].nodes /\ clients[c].nodes > 0
                 /\ After(t, TRUE)
           \/ \E n \in asked :
                 /\ \A m \in asked : m <= n
                 /\ 0 < n /\ n < clients[c].nodes
                 /\ task' = [task EXCEPT ![t].pc = "create", ![t].nodes = n]
                 /\ UNCHANGED <<left, troubled>>
    /\ UNCHANGED <<clients, holder, listed>>

\* create_or_patch_resource: create, and on a conflict patch.
Create(t) ==
    /\ task[t].pc = "create"
    /\ \/ holder = 0 /\ holder' = task[t].nodes /\ After(t, TRUE)
       \/ holder # 0 /\ Goto(t, "patch") /\ UNCHANGED <<holder, left, troubled>>
       \/ /\ "api" \in Faults
          /\ holder' \in {holder, IF holder = 0 THEN task[t].nodes ELSE holder}
          /\ After(t, FALSE)
    /\ UNCHANGED <<clients, listed>>

\* A patch fails, too, when the holder has been deleted meanwhile.
Patch(t) ==
    /\ task[t].pc = "patch"
    /\ \/ holder # 0 /\ holder' = task[t].nodes /\ After(t, TRUE)
       \/ /\ holder = 0 \/ "api" \in Faults
          /\ holder' \in {holder, IF holder = 0 THEN 0 ELSE task[t].nodes}
          /\ After(t, FALSE)
    /\ UNCHANGED <<clients, listed>>

\* release_nodes_for_client.  (DeleteOwn is faulty: it takes off the client's own.)
DeleteOwn(t) ==
    /\ task[t].pc = "delete"
    /\ holder' = holder - clients[task[t].client].nodes
    /\ After(t, TRUE)
    /\ UNCHANGED <<clients, listed>>
Delete(t) ==
    /\ task[t].pc = "delete"
    /\ \/ holder' = 0 /\ After(t, TRUE)
       \/ "api" \in Faults /\ holder' \in {0, holder} /\ After(t, FALSE)
    /\ UNCHANGED <<clients, listed>>

\* update_client_heartbeat: a row read without a lock; a terminal one is left
\* alone, and a status equal to the one read is not written.
ReadRow(t) ==
    /\ task[t].pc = "read"
    /\ LET now == clients[task[t].client].status
       IN  \/ now \in Terminal /\ End(t)
           \/ now \notin Terminal
              /\ task' = [task EXCEPT ![t].pc = "write", ![t].loaded = now]
    /\ UNCHANGED <<clients, holder, listed, left, troubled>>

WriteRow(t) ==
    /\ task[t].pc = "write"
    /\ LET c == task[t].client
           to == IF task[t].write = task[t].loaded THEN clients[c].status ELSE task[t].write
       IN  /\ clients' = [clients EXCEPT ![c].status = to]
           /\ listed' = IF task[t].kind = "reap" THEN [listed EXCEPT ![c] = NoRow] ELSE listed
           /\ left' = IF to \in LiveStatus THEN left \ {c}
                      ELSE IF task[t].kind = "beat" THEN left \cup {c} ELSE left
           /\ troubled' = (troubled \/ (~Live(c) /\ to \in LiveStatus))
    /\ End(t)
    /\ UNCHANGED holder

-----------------------------------------------------------------------------
(* The watcher.                                                            *)

\* cleanup_clients lists the live clients; some of them are idle.
WatchList ==
    /\ Unlisted
    /\ MayBegin("reap")
    /\ \E idle \in SUBSET {c \in Client : Live(c)} :
          /\ idle # {}
          /\ listed' = [c \in Client |-> IF c \in idle THEN clients[c].status ELSE NoRow]
    /\ UNCHANGED <<clients, holder, task, left, troubled>>

\* The next one: what it becomes depends on the status listed.
Reap(t, c) ==
    /\ listed[c] # NoRow
    /\ \A u \in Task : task[u].kind # "reap"
    /\ Open(t, "reap", c, "need", 0, IF listed[c] = "ALIVE" THEN "KILLED" ELSE "STOPPED")
    /\ UNCHANGED <<clients, holder, listed, left, troubled>>

\* A replica dies with its task; if it ran the watcher, with the pass.
Die(t) ==
    /\ "crash" \in Faults
    /\ task[t].pc # "idle"
    /\ End(t)
    /\ troubled' = TRUE
    /\ listed' = IF task[t].kind = "reap" THEN [c \in Client |-> NoRow] ELSE listed
    /\ UNCHANGED <<clients, holder, left>>

-----------------------------------------------------------------------------
Init ==
    /\ clients = [c \in Client |-> [status |-> NoRow, nodes |-> 0]]
    /\ holder = 0
    /\ task = [t \in Task |-> NoTask]
    /\ listed = [c \in Client |-> NoRow]
    /\ left = {}
    /\ troubled = FALSE

Step(t) ==
    \/ CheckSpinUp(t) \/ CheckRelease(t) \/ Create(t) \/ Patch(t) \/ Delete(t)
    \/ ReadRow(t) \/ WriteRow(t)

Next ==
    \/ \E t \in Task :
          \/ Step(t) \/ Die(t)
          \/ \E c \in Client :
                \/ \E n \in Nodes : Register(t, c, n)
                \/ Stop(t, c) \/ FinishOrBeat(t, c) \/ Reap(t, c)
    \/ WatchList

Spec == Init /\ [][Next]_vars

-----------------------------------------------------------------------------
TypeOK ==
    /\ clients \in [Client -> ClientRow]
    /\ holder \in Nodes
    /\ task \in [Task -> TaskState]
    /\ listed \in [Client -> Status]
    /\ left \subseteq Client
    /\ troubled \in BOOLEAN

\* No live client asked for more than the holder has, and what it has is what one
\* asked for who is live, or who left by a heartbeat, which releases nothing.
Enough == \A c \in Client : Live(c) => clients[c].nodes <= holder
Demanded == \E c \in Client : (Live(c) \/ c \in left) /\ clients[c].nodes = holder

\* When requests come one at a time, and until a call fails, a replica dies or a
\* client comes back into the count, the holder has the nodes of the most demanding
\* live client, or of one who left by a heartbeat and was not stopped since:
\* need_to_spin_up_nodes and need_to_release_nodes agree.
NodesMatchDemand == Quiet /\ ~troubled => Enough /\ (holder > 0 => Demanded)

\* One at a time, with calls that fail and replicas that die half-way: nodes that
\* nobody live asks for are on record, with a client who asked for as many and whose
\* release failed, or who left by a heartbeat (stop_client, accept_client_heartbeat).
ExcessOnRecord ==
    Quiet /\ (\A c \in Client : Live(c) => clients[c].nodes < holder) /\ holder > 0 =>
        \E c \in Client :
           /\ clients[c].status = "DELETION_FAILED" \/ c \in left
           /\ clients[c].nodes >= holder

-----------------------------------------------------------------------------
(* What the source says of this code, and the code does not do.            *)

\* "Table-level exclusive lock prevents two concurrent registrations for the
\* same client name" (helpers.py): so when all is quiet the clients that were
\* registered have the nodes they asked for.
NodesReserved == Quiet => Enough

\* "Returns ClientNodes with nodes=0 if this was the last client with that
\* name" (need_to_release_nodes): when the last one has gone, so has the holder.
NodesReleased == Quiet /\ (\A c \in Client : ~Live(c)) => holder = 0

\* "Returns True if this status represents a terminal state" (is_terminal), and
\* update_client_heartbeat leaves such rows alone: an ended client stays so.
EndedStaysEnded ==
    [][\A c \in Client :
          clients[c].status \in Terminal => clients'[c].status \in Terminal]_vars

\* "If nodes_count > 0, also includes operation_id for tracking the node
\* spin-up" (orchestrator/README.md): such a registration starts a spin-up.
RegistrationSpinsUp ==
    [][\A t \in Task :
          task[t].pc = "check" /\ clients[task[t].client].nodes > 0 /\ task'[t] # task[t] =>
              task'[t].pc = "create"]_vars
=============================================================================
