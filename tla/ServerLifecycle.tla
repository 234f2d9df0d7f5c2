-------------------------- MODULE ServerLifecycle --------------------------
(***************************************************************************)
(* The life of a server: its row in the database, its Deployment in        *)
(* Kubernetes, the request tasks that the orchestrator's replicas run on   *)
(* them, and the watcher's passes.                                         *)
(*                                                                         *)
(* A request that passes validation becomes a task; each await on the      *)
(* database or on Kubernetes ends a step.  Quota is left to ResourceQuota, *)
(* which follows the same status writes inside their transactions.         *)
(***************************************************************************)
EXTENDS Integers, FiniteSets, ServerStatus

CONSTANTS
    Client,    \* client ids
    Server,    \* ids the servers table may hand out
    NoServer,
    Task,      \* task slots: how many requests run at once
    Kinds,     \* requests that are made
    Reuse,     \* reuse strategies asked for
    Faults,    \* what may go wrong, of AllFaults
    Orderly    \* do clients wait for answers and let go of what they finish?

\* "api": Kubernetes calls fail until retries run out.  "pods": pods do not get
\* ready, or crash.  "crash": a replica or the watcher dies.  "slow": a start
\* or restart outlasts the watcher's timeouts.
AllFaults == {"api", "pods", "crash", "slow"}
AllKinds == {"start", "stop", "finish", "restart", "forward", "orphan"}

\* ADOPT is RESET for an OpenEnv server.
Strategy == {"NONE", "RESTART", "RESET", "ADOPT"}

ASSUME LifecycleConstants ==
    /\ NoServer \notin Server
    /\ Kinds \subseteq AllKinds /\ Reuse \subseteq Strategy /\ Faults \subseteq AllFaults
    /\ Orderly \in BOOLEAN
    /\ Client # {}

VARIABLES
    servers,   \* [Server -> row]; a fresh row had a heartbeat within its timeout
    kube,      \* [Server -> the state of its Deployment]
    task,      \* [Task -> what the task does and its next step]
    knows,     \* [Client -> the servers it was told are its own]
    watch      \* the watcher's pass

vars == <<servers, kube, task, knows, watch>>

Row == [status : AvailabilityStatus \cup {NoRow}, owner : Client, fresh : BOOLEAN]
Deployment == {"none", "pending", "ready", "broken"}
PC == {"idle", "find", "reserve", "deploy", "pods", "wait", "own", "cleanup",
       "read", "write", "report", "delete", "settle", "call"}
TaskState ==
    [kind : AllKinds \cup {"none"}, client : Client, server : Server \cup {NoServer},
     reuse : Strategy, pc : PC, write : AvailabilityStatus,
     loaded : AvailabilityStatus \cup {NoRow}]
Pass == [phase : {"idle", "pods", "crash", "list", "reap"}, todo : SUBSET Server,
         at : Server \cup {NoServer},
         mark : {"CRASHED", "KILLED", "DELETION_FAILED", "probe"}]

SomeClient == CHOOSE c \in Client : TRUE
NoTask == [kind |-> "none", client |-> SomeClient, server |-> NoServer, reuse |-> "NONE",
           pc |-> "idle", write |-> "ALIVE", loaded |-> NoRow]
NoPass == [phase |-> "idle", todo |-> {}, at |-> NoServer, mark |-> "KILLED"]

-----------------------------------------------------------------------------
(* Requests.                                                               *)

\* validate_server: the client owns the server, which is usable.
Valid(c, s) == servers[s].owner = c /\ servers[s].status \in Usable

\* A forward is answered before its heartbeat is written.
Awaited(t) == task[t].pc # "idle" /\ ~(task[t].kind = "forward" /\ task[t].pc # "call")

\* An orderly client acts on a server it was told about, one request at a time.
Asks(c, s) ==
    Orderly => /\ s \in knows[c]
               /\ \A t \in Task : ~(task[t].client = c /\ task[t].server = s /\ Awaited(t))

Open(t, k, c, s, strategy, pc, write) ==
    /\ k \in Kinds
    /\ task[t].pc = "idle"
    /\ task' = [task EXCEPT ![t] = [kind |-> k, client |-> c, server |-> s,
                                    reuse |-> strategy, pc |-> pc, write |-> write,
                                    loaded |-> IF k = "orphan" THEN servers[s].status
                                                               ELSE NoRow]]

BeginStart(t, c, strategy) ==
    /\ Open(t, "start", c, NoServer, strategy,
            IF strategy = "NONE" THEN "reserve" ELSE "find", "ALIVE")
    /\ UNCHANGED <<servers, kube, knows, watch>>

\* Requests of the owner; the dashboard stops and restarts in its name.  What the
\* client lets go of it no longer acts on.
Asked(c, s) == Valid(c, s) /\ Asks(c, s) /\ UNCHANGED <<servers, kube, watch>>
LetsGo(c, s) == knows' = [knows EXCEPT ![c] = @ \ {s}]

BeginStop(t, c, s) ==
    Asked(c, s) /\ Open(t, "stop", c, s, "NONE", "read", "STOPPED") /\ LetsGo(c, s)
BeginFinish(t, c, s) ==
    Asked(c, s) /\ Open(t, "finish", c, s, "NONE", "read", "FINISHED") /\ LetsGo(c, s)
BeginRestart(t, c, s) ==
    Asked(c, s) /\ Open(t, "restart", c, s, "NONE", "pods", "ALIVE") /\ UNCHANGED knows
BeginForward(t, c, s) ==
    Asked(c, s) /\ Open(t, "forward", c, s, "NONE", "call", "ALIVE") /\ UNCHANGED knows

\* find_orphans: a Deployment whose row, if it has one, expects none; what changed within
\* the grace period is left out of the list, which an operator may act on at any time.
Orphaned(s) == kube[s] # "none" /\ servers[s].status \notin ExpectsDeployment \cup {NoRow}

\* delete_orphan_action: a Deployment that no live row expects.  What its row
\* was then decides what follows.
BeginOrphan(t, s) ==
    /\ Orphaned(s)
    /\ Open(t, "orphan", servers[s].owner, s, "NONE", "delete", "STOPPED")
    /\ UNCHANGED <<servers, kube, knows, watch>>

-----------------------------------------------------------------------------
(* Steps that tasks share.                                                 *)

Goto(t, pc) == task' = [task EXCEPT ![t].pc = pc]
Write(t, status) == task' = [task EXCEPT ![t].pc = "read", ![t].write = status]
End(t) == task' = [task EXCEPT ![t] = NoTask]

\* clean_up_server, and whether it reports success.  A query for the Deployment
\* that keeps failing counts as "absent"; a delete may fail after it took effect.
Teardown(s, ok) ==
    \/ ok /\ kube' = [kube EXCEPT ![s] = "none"]
    \/ "api" \in Faults /\ ok /\ UNCHANGED kube
    \/ /\ "api" \in Faults /\ ~ok /\ kube[s] # "none"
       /\ \E k \in {"none", kube[s]} : kube' = [kube EXCEPT ![s] = k]

\* What follows a status write: a stop goes on to delete the Deployment (the
\* faulty order stops there), a start that made its server ALIVE reports it.
AfterWriteNoDelete(t) ==
    IF task[t].kind = "start" /\ task[t].write = "ALIVE" THEN Goto(t, "report") ELSE End(t)
AfterWrite(t) ==
    CASE task[t].kind = "start" /\ task[t].write = "ALIVE" -> Goto(t, "report")
      [] task[t].kind = "stop" /\ task[t].write = "STOPPED" -> Goto(t, "delete")
      [] OTHER -> End(t)

\* update_idegym_server_heartbeat: the row is read without a lock, and a
\* terminal one left alone.
ReadRow(t) ==
    /\ task[t].pc = "read"
    /\ LET now == servers[task[t].server].status
       IN  \/ now \in Terminal /\ AfterWrite(t)
           \/ now \notin Terminal
              /\ task' = [task EXCEPT ![t].pc = "write", ![t].loaded = now]
    /\ UNCHANGED <<servers, kube, knows, watch>>

\* Its commit: a status equal to the one loaded is not part of the UPDATE.
WriteRow(t) ==
    /\ task[t].pc = "write"
    /\ servers' = [servers EXCEPT
          ![task[t].server].status = IF task[t].write = task[t].loaded THEN @
                                     ELSE task[t].write,
          ![task[t].server].fresh = TRUE]
    /\ AfterWrite(t)
    /\ UNCHANGED <<kube, knows, watch>>

-----------------------------------------------------------------------------
(* _task_start_server.                                                     *)

\* Which rows a reusing start may take.  (ReusableAny is faulty.)
ReusableAny(s) == servers[s].status \in {"FINISHED", "REUSED"}
Reusable(s) == servers[s].status = "FINISHED"

\* find_matching_finished_server locks, rewrites and commits in one transaction.
Claim(t, s) ==
    /\ task[t].pc = "find"
    /\ Reusable(s)
    /\ servers' = [servers EXCEPT ![s].status = "REUSED", ![s].fresh = TRUE]
    /\ task' = [task EXCEPT ![t].server = s,
                            ![t].pc = IF task[t].reuse = "RESTART" THEN "pods" ELSE "own"]
    /\ UNCHANGED <<kube, knows, watch>>

\* No row matches the request, or those that do are locked and skipped.
FindNone(t) ==
    /\ task[t].pc = "find"
    /\ task' = [task EXCEPT ![t].pc = "reserve", ![t].reuse = "NONE"]
    /\ UNCHANGED <<servers, kube, knows, watch>>

\* check_resources_and_save_server: the row, ALIVE before it has a Deployment,
\* or a refusal.
NewRow(c) == [status |-> "ALIVE", owner |-> c, fresh |-> TRUE]
Reserve(t, s) ==
    /\ task[t].pc = "reserve"
    /\ servers[s].status = NoRow
    /\ servers' = [servers EXCEPT ![s] = NewRow(task[t].client)]
    /\ task' = [task EXCEPT ![t].pc = "deploy", ![t].server = s]
    /\ UNCHANGED <<kube, knows, watch>>

Refuse(t) ==
    /\ task[t].pc = "reserve"
    /\ End(t)
    /\ UNCHANGED <<servers, kube, knows, watch>>

\* deploy_server puts the pod together, and raises where overrides touch what it manages.
DeployRejects(t) == task[t].pc = "deploy" /\ Goto(t, "cleanup") /\ UNCHANGED kube

\* It asks Kubernetes, and may fail before or after it created the Deployment.
Deploy(t) ==
    /\ task[t].pc = "deploy"
    /\ LET s == task[t].server
       IN  \/ kube' = [kube EXCEPT ![s] = "pending"] /\ Goto(t, "wait")
           \/ /\ "api" \in Faults
              /\ \E k \in {"none", "pending"} : kube' = [kube EXCEPT ![s] = k]
              /\ Goto(t, "cleanup")
           \/ DeployRejects(t)
    /\ UNCHANGED <<servers, knows, watch>>

\* _task_restart_server: how a restart ends, once its pods are ready or have failed.
Restarted(t) == Write(t, "ALIVE")
RestartFails(t) == Write(t, "RESTART_FAILED")

\* Pods ready, or known to be: a new server becomes ALIVE, a reused one first
\* changes owner.
Proceed(t) ==
    CASE task[t].kind = "restart" -> Restarted(t)
      [] task[t].kind = "start" /\ task[t].reuse # "NONE" -> Goto(t, "own")
      [] OTHER -> Write(t, "ALIVE")

\* An exception: a start cleans up, but one that has not taken over the server
\* it is reusing yet knows nothing to clean.
Fail(t) ==
    CASE task[t].kind = "restart" -> RestartFails(t)
      [] task[t].kind = "start" /\ task[t].reuse = "NONE" -> Goto(t, "cleanup")
      [] OTHER -> End(t)

\* restart_pods deletes each pod; without pods it returns at once.  Pods whose
\* deletion fails are left running.
RestartPods(t) ==
    /\ task[t].pc = "pods"
    /\ LET s == task[t].server
       IN  \/ kube[s] = "none" /\ Proceed(t) /\ UNCHANGED kube
           \/ kube[s] # "none" /\ Goto(t, "wait") /\ kube' = [kube EXCEPT ![s] = "pending"]
           \/ "api" \in Faults /\ kube[s] # "none" /\ Goto(t, "wait") /\ UNCHANGED kube
           \/ "api" \in Faults /\ Fail(t) /\ UNCHANGED kube
    /\ UNCHANGED <<servers, knows, watch>>

\* wait_for_pods_ready.
AwaitPods(t) ==
    /\ task[t].pc = "wait"
    /\ LET k == kube[task[t].server]
       IN  \/ k = "ready" /\ Proceed(t)
           \/ /\ k \in {"none", "broken"} \/ (k = "pending" /\ "pods" \in Faults)
              /\ Fail(t)
    /\ UNCHANGED <<servers, kube, knows, watch>>

\* update_idegym_server_owner.  After RESET the client resets the server.
TakeOver(t) ==
    /\ task[t].pc = "own"
    /\ servers' = [servers EXCEPT ![task[t].server].owner = task[t].client]
    /\ IF task[t].reuse = "RESET" THEN Goto(t, "report") ELSE Write(t, "ALIVE")
    /\ UNCHANGED <<kube, knows, watch>>

\* clean_kubernetes swallows errors; then the row becomes FAILED_TO_START.
\* (CleanupSkipped is faulty: it leaves the Deployment.)
CleanupSkipped(t) ==
    /\ task[t].pc = "cleanup"
    /\ Write(t, "FAILED_TO_START")
    /\ UNCHANGED <<servers, kube, knows, watch>>
Cleanup(t) ==
    /\ task[t].pc = "cleanup"
    /\ \E ok \in BOOLEAN : Teardown(task[t].server, ok)
    /\ Write(t, "FAILED_TO_START")
    /\ UNCHANGED <<servers, knows, watch>>

\* The operation is marked SUCCEEDED, which tells the client.
Report(t) ==
    /\ task[t].pc = "report"
    /\ knows' = [knows EXCEPT ![task[t].client] = @ \cup {task[t].server}]
    /\ End(t)
    /\ UNCHANGED <<servers, kube, watch>>

-----------------------------------------------------------------------------
(* Stops, orphan deletions and forwards.                                   *)

Delete(t) ==
    /\ task[t].pc = "delete"
    /\ \E ok \in BOOLEAN :
          /\ Teardown(task[t].server, ok)
          /\ CASE task[t].kind = "stop" /\ ~ok -> Write(t, "DELETION_FAILED")
               [] ok /\ task[t].loaded = "DELETION_FAILED" -> Goto(t, "settle")
               [] OTHER -> End(t)
    /\ UNCHANGED <<servers, knows, watch>>

\* settle_deletion_failed_server.
Settle(t) ==
    /\ task[t].pc = "settle"
    /\ servers' = IF servers[task[t].server].status = "DELETION_FAILED"
                  THEN [servers EXCEPT ![task[t].server].status = "STOPPED"]
                  ELSE servers
    /\ End(t)
    /\ UNCHANGED <<kube, knows, watch>>

\* A tool or reward call that the server answers below 500 is a heartbeat.
Call(t) ==
    /\ task[t].pc = "call"
    /\ \/ kube[task[t].server] = "ready" /\ Goto(t, "read")
       \/ End(t)
    /\ UNCHANGED <<servers, kube, knows, watch>>

-----------------------------------------------------------------------------
(* The watcher: one pass at a time, under an advisory lock.                *)

\* Rows are listed with the status and heartbeat they have then, and their
\* objects stay in the session: what happens to a row later is not seen again.
WatchBegin ==
    /\ watch.phase = "idle"
    /\ watch' = [NoPass EXCEPT !.phase = "pods",
                               !.todo = {s \in Server : servers[s].status \in Usable}]
    /\ UNCHANGED <<servers, kube, task, knows>>

\* detect_crashed_servers lists the pods; a failure ends crash detection.
WatchPods ==
    /\ watch.phase = "pods"
    /\ \/ watch' = [watch EXCEPT !.phase = "crash", !.todo = {s \in @ : kube[s] = "broken"}]
       \/ "api" \in Faults /\ watch' = [NoPass EXCEPT !.phase = "list"]
    /\ UNCHANGED <<servers, kube, task, knows>>

\* Which rows cleanup_servers lists.  (WatchedNotReused is faulty.)
WatchedNotReused == {"ALIVE", "FINISHED"}
Watched == {"ALIVE", "FINISHED", "REUSED"}

WatchList ==
    /\ watch.phase = "list" \/ (watch.phase = "crash" /\ watch.todo = {})
    /\ watch' = [NoPass EXCEPT !.phase = "reap",
                   !.todo = {s \in Server : servers[s].status \in Watched /\ ~servers[s].fresh}]
    /\ UNCHANGED <<servers, kube, task, knows>>

\* A crashed or idle server's Deployment is deleted before its row is written.
WatchRemove(s) ==
    /\ watch.phase \in {"crash", "reap"} /\ watch.at = NoServer
    /\ s \in watch.todo
    /\ \E ok \in BOOLEAN :
          /\ Teardown(s, ok)
          /\ watch' = [watch EXCEPT !.at = s,
                !.mark = CASE watch.phase = "crash" -> IF ok THEN "CRASHED" ELSE "DELETION_FAILED"
                           [] watch.phase = "reap" -> IF ok THEN "KILLED" ELSE "probe"]
    /\ UNCHANGED <<servers, task, knows>>

\* _handle_server_deletion_failure: is the pod still running?  (A pod that is
\* not ready may or may not be.)  A failure to ask ends the pass over servers.
WatchProbe ==
    /\ watch.at # NoServer /\ watch.mark = "probe"
    /\ \/ /\ kube[watch.at] # "none"
          /\ watch' = [watch EXCEPT !.mark = "DELETION_FAILED"]
       \/ /\ kube[watch.at] # "ready"
          /\ watch' = [watch EXCEPT !.mark = "CRASHED"]
       \/ "api" \in Faults /\ watch' = NoPass
    /\ UNCHANGED <<servers, kube, task, knows>>

\* The row object listed earlier was not terminal, so the write goes ahead.
\* (WatchMarkUnprobed is faulty: it writes before the answer is known.)
WatchMarkUnprobed ==
    /\ watch.at # NoServer
    /\ servers' = [servers EXCEPT ![watch.at].status = watch.mark, ![watch.at].fresh = TRUE]
    /\ watch' = [watch EXCEPT !.at = NoServer, !.todo = @ \ {watch.at}]
    /\ UNCHANGED <<kube, task, knows>>
WatchMark ==
    /\ watch.at # NoServer /\ watch.mark # "probe"
    /\ servers' = [servers EXCEPT ![watch.at].status = watch.mark, ![watch.at].fresh = TRUE]
    /\ watch' = [watch EXCEPT !.at = NoServer, !.todo = @ \ {watch.at}]
    /\ UNCHANGED <<kube, task, knows>>

WatchEnd ==
    /\ watch.phase = "reap" /\ watch.todo = {}
    /\ watch' = NoPass
    /\ UNCHANGED <<servers, kube, task, knows>>

-----------------------------------------------------------------------------
(* The world outside.                                                      *)

PodsReady(s) ==
    /\ kube[s] = "pending"
    /\ kube' = [kube EXCEPT ![s] = "ready"]
    /\ UNCHANGED <<servers, task, knows, watch>>

\* Restarted beyond the budget, failed or evicted.
PodsBreak(s) ==
    /\ "pods" \in Faults
    /\ kube[s] \in {"pending", "ready"}
    /\ kube' = [kube EXCEPT ![s] = "broken"]
    /\ UNCHANGED <<servers, task, knows, watch>>

\* A row's timeout passes since its last heartbeat, by the clock that a pass
\* reads when it begins.
Age(s) ==
    /\ watch.phase = "idle"
    /\ servers[s].status \in Watched /\ servers[s].fresh
    /\ "slow" \notin Faults =>
          \A t \in Task : ~(task[t].server = s /\ task[t].kind \in {"start", "restart"})
    /\ servers' = [servers EXCEPT ![s].fresh = FALSE]
    /\ UNCHANGED <<kube, task, knows, watch>>

\* The replica that runs a task dies, or the watcher does.
Die(t) ==
    /\ "crash" \in Faults
    /\ task[t].pc # "idle"
    /\ End(t)
    /\ UNCHANGED <<servers, kube, knows, watch>>

WatcherDies ==
    /\ "crash" \in Faults
    /\ watch # NoPass
    /\ watch' = NoPass
    /\ UNCHANGED <<servers, kube, task, knows>>

-----------------------------------------------------------------------------
Init ==
    /\ servers = [s \in Server |-> [status |-> NoRow, owner |-> SomeClient, fresh |-> TRUE]]
    /\ kube = [s \in Server |-> "none"]
    /\ task = [t \in Task |-> NoTask]
    /\ knows = [c \in Client |-> {}]
    /\ watch = NoPass

Begin(t) ==
    \/ \E c \in Client, strategy \in Reuse : BeginStart(t, c, strategy)
    \/ \E c \in Client, s \in Server :
          \/ BeginStop(t, c, s) \/ BeginFinish(t, c, s)
          \/ BeginRestart(t, c, s) \/ BeginForward(t, c, s)
    \/ \E s \in Server : BeginOrphan(t, s)

Step(t) ==
    \/ ReadRow(t) \/ WriteRow(t)
    \/ \E s \in Server : Claim(t, s) \/ Reserve(t, s)
    \/ FindNone(t) \/ Refuse(t) \/ Deploy(t) \/ RestartPods(t) \/ AwaitPods(t)
    \/ TakeOver(t) \/ Cleanup(t) \/ Report(t)
    \/ Delete(t) \/ Settle(t) \/ Call(t)

Watch ==
    \/ WatchBegin \/ WatchPods \/ WatchList \/ WatchProbe \/ WatchMark \/ WatchEnd
    \/ \E s \in Server : WatchRemove(s)

Outside ==
    \/ \E s \in Server : PodsReady(s) \/ PodsBreak(s) \/ Age(s)
    \/ \E t \in Task : Die(t)
    \/ WatcherDies

Next == (\E t \in Task : Begin(t) \/ Step(t)) \/ Watch \/ Outside

Spec == Init /\ [][Next]_vars

-----------------------------------------------------------------------------
(* Fairness: event loops run their tasks, the watcher's loop goes round    *)
(* and is not killed for ever (a pass that ends looks like one that was    *)
(* killed), time passes, and Kubernetes, asked often enough whether a pod  *)
(* lives, answers.                                                         *)
Answered ==
    /\ watch.mark = "probe"
    /\ WatchProbe
    /\ watch'.phase # "idle"

FairSpec ==
    /\ Spec
    /\ \A t \in Task : WF_vars(Step(t))
    /\ WF_vars(Watch)
    /\ SF_vars(Answered)
    /\ <>[][WatcherDies => Watch]_vars
    /\ \A s \in Server : SF_vars(Age(s)) /\ WF_vars(PodsReady(s))

TypeOK ==
    /\ servers \in [Server -> Row]
    /\ kube \in [Server -> Deployment]
    /\ task \in [Task -> TaskState]
    /\ knows \in [Client -> SUBSET Server]
    /\ watch \in Pass

\* Will a task or the watcher still delete the Deployment of s?
Removing(s) ==
    \E t \in Task : task[t].server = s /\ task[t].pc \in {"cleanup", "delete"}

\* As long as clients are orderly and Kubernetes answers, a Deployment whose
\* row no longer holds quota is about to be deleted: nothing runs on for which
\* nobody pays.  A server that failed to restart is the exception.
NoOrphan ==
    \A s \in Server :
        kube[s] # "none" /\ servers[s].status \in QuotaReleasing \ {"RESTART_FAILED"} =>
            Removing(s)

\* "locked with FOR UPDATE SKIP LOCKED to prevent two concurrent callers from
\* claiming the same server" (find_matching_finished_server): no two starts
\* are reusing one server at the same time.
ReuseExclusive ==
    \A t, u \in Task :
        /\ t # u
        /\ task[t].kind = "start" /\ task[t].reuse # "NONE" /\ task[t].server # NoServer
        /\ task[u].kind = "start" /\ task[u].reuse # "NONE"
        => task[t].server # task[u].server

\* Among orderly clients a server is never in two hands: the client that was
\* told of it owns its row, and no other start is reusing it.
NotShared ==
    \A c \in Client : \A s \in knows[c] :
        /\ servers[s].owner = c
        /\ \A d \in Client \ {c} : s \notin knows[d]

\* A server that no request touches any more ends in a terminal status, with
\* its quota released or its failed deletion on record, whatever died or failed.
AbandonedServersEnd ==
    \A s \in Server :
        <>[](servers[s].status # NoRow /\ \A t \in Task : task[t].server # s)
            => <>[](servers[s].status \in Terminal)

-----------------------------------------------------------------------------
(* What the source says of this code, and the code does not do.            *)

\* "Deletes the Kubernetes Deployment and Service and marks the server STOPPED"
\* (orchestrator/README.md): when a stop succeeds the Deployment is gone.
StopRemoves ==
    [][\A t \in Task :
          task[t].kind = "stop" /\ task[t].pc = "delete" /\ task'[t].pc = "idle" =>
              kube'[task[t].server] = "none"]_vars

\* "The watcher is the background loop that guarantees this" (watcher.md), that
\* dead servers go away: the Deployment of a terminal server is gone in the end.
DeadServersGoAway ==
    \A s \in Server :
        <>[](servers[s].status \in Terminal /\ \A t \in Task : task[t].server # s)
            => []<>(kube[s] = "none")

\* "RESET leaves the server in FINISHED for the client to reset" (server.py): the
\* status of a server whose reuse by RESET is being reported.
ResetLeavesFinished ==
    [][\A t \in Task :
          task[t].pc = "report" /\ task[t].reuse = "RESET" /\ task'[t].pc = "idle" =>
              servers'[task[t].server].status = "FINISHED"]_vars

\* "A server is reaped once inactive_timeout (or finished_timeout) has passed
\* since its last_heartbeat_time" (watcher.md): the watcher does not take the
\* Deployment of a server that has had a heartbeat since.
ReapsOnlyIdle ==
    [][\A s \in Server :
          watch.phase = "reap" /\ watch.at = NoServer /\ watch'.at = s =>
              ~servers[s].fresh]_vars
=============================================================================
