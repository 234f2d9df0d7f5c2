----------------------- MODULE ServerLifecycleProofs -----------------------
(***************************************************************************)
(* Proofs about ServerLifecycle, for any clients, servers, tasks and       *)
(* kinds of request.  Its type invariant holds whatever is assumed.  That  *)
(* a server is never in two hands holds for orderly clients, whatever      *)
(* fails, dies or is slow.  That nothing runs on for which nobody pays     *)
(* holds for orderly clients as long as Kubernetes answers, no replica     *)
(* dies and no start outlasts the watcher's timeouts.                      *)
(*                                                                         *)
(* The first of the two follows a server from hand to hand: it is on       *)
(* offer, or a start or a finish holds it, or one client knows it.  The    *)
(* second says of each place where a Deployment may be created or a row be *)
(* given up what Kubernetes has then.                                      *)
(***************************************************************************)
EXTENDS ServerLifecycle, TLAPS

-----------------------------------------------------------------------------
(* What a task of each kind may be at.                                     *)

StartShape(k) ==
    /\ k.pc \in {"find", "reserve"} <=> k.server = NoServer
    /\ k.pc \in {"find", "reserve", "deploy", "pods", "wait", "own", "cleanup", "read", "write", "report"}
    /\ k.pc \in {"reserve", "deploy", "cleanup"} => k.reuse = "NONE"
    /\ k.pc \in {"find", "pods", "own"} => k.reuse # "NONE"
    /\ k.write = "ALIVE" \/ (k.write = "FAILED_TO_START" /\ k.pc \in {"read", "write"})
Shape(k) ==
    /\ k.kind = "none" => k = NoTask
    /\ k.kind = "start" => StartShape(k)
    /\ k.kind \in AllKinds \ {"start"} => k.server # NoServer
    /\ k.kind = "stop" =>
          /\ k.pc \in {"read", "write", "delete", "settle"}
          /\ k.write \in {"STOPPED", "DELETION_FAILED"}
    /\ k.kind = "finish" => k.pc \in {"read", "write"} /\ k.write = "FINISHED"
    /\ k.kind = "restart" =>
          /\ k.pc \in {"pods", "wait", "read", "write"}
          /\ k.write \in {"ALIVE", "RESTART_FAILED"}
    /\ k.kind = "forward" => k.pc \in {"call", "read", "write"} /\ k.write = "ALIVE"
    /\ k.kind = "orphan" => k.pc \in {"delete", "settle"} /\ k.write = "STOPPED"

\* A task, and the watcher, only have servers that have rows.
Rows ==
    /\ \A t \in Task : task[t].server # NoServer => servers[task[t].server].status # NoRow
    /\ \A s \in watch.todo \cup ({watch.at} \ {NoServer}) : servers[s].status # NoRow

TaskInv == (\A t \in Task : Shape(task[t])) /\ Rows

-----------------------------------------------------------------------------
(* From hand to hand, among orderly clients.                               *)

Has(k, s) == k.server = s /\ k.kind \in {"start", "finish"}
Holds(t, s) == Has(task[t], s)

\* One start or finish at most holds a server, which is then neither on offer
\* nor known to a client.
OneHolder ==
    \A s \in Server : \A t \in Task : Holds(t, s) =>
        /\ \A u \in Task : Holds(u, s) => u = t
        /\ servers[s].status # "FINISHED"
        /\ \A c \in Client : s \notin knows[c]

\* What a client knows is not on offer.
KnownNotOffered ==
    \A c \in Client : \A s \in knows[c] : servers[s].status \notin {"FINISHED", NoRow}

\* A start that is about to report its server has made its client the owner.
Owning(k) ==
    /\ k.kind = "start" /\ k.server # NoServer
    /\ k.reuse = "NONE" \/ k.pc \in {"read", "write", "report"}
StarterOwns == \A t \in Task : Owning(task[t]) => servers[task[t].server].owner = task[t].client

HandInv == OneHolder /\ KnownNotOffered /\ StarterOwns /\ NotShared

-----------------------------------------------------------------------------
(* Deployments, as long as Kubernetes answers.                             *)

\* Where a Deployment may come to be, its row was just made, no other task has
\* the server, and the watcher is not about to remove it.
DeployAlone ==
    \A t \in Task : task[t].pc = "deploy" =>
        LET s == task[t].server
        IN  /\ servers[s].status = "ALIVE" /\ servers[s].fresh /\ kube[s] = "none"
            /\ \A u \in Task \ {t} : task[u].server # s
            /\ watch.at # s /\ (s \in watch.todo => watch.phase = "pods")

\* Where a row is given up, there is no Deployment any more.
TornDown ==
    /\ watch.at # NoServer => kube[watch.at] = "none"
    /\ \A t \in Task :
          task[t].pc = "settle" \/ task[t].write = "FAILED_TO_START" => kube[task[t].server] = "none"

\* A server without a row has no Deployment.
RowlessBare == \A s \in Server : servers[s].status = NoRow => kube[s] = "none"

KubeInv == DeployAlone /\ TornDown /\ RowlessBare /\ NoOrphan

-----------------------------------------------------------------------------
(* What a step does to the task that takes it.                             *)

Others(t) == task' \in [Task -> TaskState] /\ \A u \in Task \ {t} : task'[u] = task[u]
Moves(t, pc, write) ==
    /\ Others(t)
    /\ task'[t].kind = task[t].kind /\ task'[t].client = task[t].client
    /\ task'[t].server = task[t].server /\ task'[t].reuse = task[t].reuse
    /\ task'[t].pc = pc /\ task'[t].write = write
Ends(t) == Others(t) /\ task'[t] = NoTask

LEMMA NoTaskTyped == NoTask \in TaskState
<1>1. SomeClient \in Client
  BY LifecycleConstants DEF SomeClient
<1>2. QED
  BY <1>1 DEF NoTask, TaskState, Strategy, PC, AvailabilityStatus

LEMMA GotoMoves ==
    ASSUME TypeOK, NEW t \in Task, NEW pc \in PC, Goto(t, pc)
    PROVE  Moves(t, pc, task[t].write)
<1>1. task[t] \in TaskState /\ [task[t] EXCEPT !.pc = pc] \in TaskState
  BY DEF TypeOK, TaskState
<1>2. task' = [task EXCEPT ![t] = [task[t] EXCEPT !.pc = pc]]
  BY DEF Goto, TypeOK
<1>3. QED
  BY <1>1, <1>2 DEF TypeOK, Moves, Others, TaskState

LEMMA WriteMoves ==
    ASSUME TypeOK, NEW t \in Task, NEW status \in AvailabilityStatus, Write(t, status)
    PROVE  Moves(t, "read", status)
<1>1. task[t] \in TaskState /\ [task[t] EXCEPT !.pc = "read", !.write = status] \in TaskState
  BY DEF TypeOK, TaskState, PC
<1>2. task' = [task EXCEPT ![t] = [task[t] EXCEPT !.pc = "read", !.write = status]]
  BY DEF Write, TypeOK
<1>3. QED
  BY <1>1, <1>2 DEF TypeOK, Moves, Others, TaskState

LEMMA EndEnds == ASSUME TypeOK, NEW t \in Task, End(t) PROVE Ends(t)
  BY NoTaskTyped DEF TypeOK, End, Ends, Others

LEMMA OpenTask ==
    ASSUME TypeOK, NEW t \in Task, NEW k \in AllKinds, NEW c \in Client, NEW s \in Server \cup {NoServer},
           NEW strategy \in Strategy, NEW pc \in PC, NEW write \in AvailabilityStatus,
           Open(t, k, c, s, strategy, pc, write), k = "orphan" => s \in Server
    PROVE  /\ Others(t)
           /\ task'[t].kind = k /\ task'[t].client = c /\ task'[t].server = s
           /\ task'[t].reuse = strategy /\ task'[t].pc = pc /\ task'[t].write = write
           /\ task[t].pc = "idle" /\ k \in Kinds
<1> DEFINE r == [kind |-> k, client |-> c, server |-> s, reuse |-> strategy, pc |-> pc, write |-> write,
                 loaded |-> IF k = "orphan" THEN servers[s].status ELSE NoRow]
<1>1. r.loaded \in AvailabilityStatus \cup {NoRow}
  BY DEF TypeOK, Row
<1>2. r \in TaskState
  BY <1>1 DEF TaskState
<1>3. task' = [task EXCEPT ![t] = r] /\ task[t].pc = "idle" /\ k \in Kinds
  BY DEF Open
<1>4. task'[t] = r /\ Others(t)
  BY <1>2, <1>3 DEF TypeOK, Others
<1>5. QED
  BY <1>3, <1>4

\* How a task goes on, or ends, after a status write, with its pods ready, and
\* when something raised.
WrittenTo(t) ==
    \/ task[t].kind = "start" /\ task[t].write = "ALIVE" /\ Moves(t, "report", "ALIVE")
    \/ task[t].kind = "stop" /\ task[t].write = "STOPPED" /\ Moves(t, "delete", "STOPPED")
    \/ /\ Ends(t)
       /\ ~(task[t].kind = "start" /\ task[t].write = "ALIVE")
       /\ ~(task[t].kind = "stop" /\ task[t].write = "STOPPED")
LEMMA AfterWriteDoes == ASSUME TypeOK, NEW t \in Task, AfterWrite(t) PROVE WrittenTo(t)
  BY GotoMoves, EndEnds DEF AfterWrite, WrittenTo, PC

ReadyTo(t) ==
    \/ task[t].kind = "start" /\ task[t].reuse # "NONE" /\ Moves(t, "own", task[t].write)
    \/ /\ task[t].kind = "restart" \/ ~(task[t].kind = "start" /\ task[t].reuse # "NONE")
       /\ Moves(t, "read", "ALIVE")
LEMMA ProceedDoes == ASSUME TypeOK, NEW t \in Task, Proceed(t) PROVE ReadyTo(t)
  BY GotoMoves, WriteMoves DEF Proceed, Restarted, ReadyTo, PC, AvailabilityStatus

FailsTo(t) ==
    \/ task[t].kind = "restart" /\ Moves(t, "read", "RESTART_FAILED")
    \/ task[t].kind = "start" /\ task[t].reuse = "NONE" /\ Moves(t, "cleanup", task[t].write)
    \/ task[t].kind # "restart" /\ Ends(t)
LEMMA FailDoes == ASSUME TypeOK, NEW t \in Task, Fail(t) PROVE FailsTo(t)
  BY GotoMoves, WriteMoves, EndEnds DEF Fail, RestartFails, FailsTo, PC, AvailabilityStatus

LEMMA TeardownDoes ==
    ASSUME TypeOK, NEW s \in Server, NEW ok \in BOOLEAN, Teardown(s, ok)
    PROVE  /\ kube' \in [Server -> Deployment] /\ \A r \in Server \ {s} : kube'[r] = kube[r]
           /\ kube'[s] \in {kube[s], "none"}
           /\ "api" \notin Faults => ok /\ kube'[s] = "none"
  BY DEF Teardown, TypeOK, Deployment

\* What is at work, by the step it is at.
LEMMA KindAt ==
    ASSUME TypeOK, TaskInv, NEW t \in Task, task[t].pc # "idle"
    PROVE  /\ task[t].kind \in AllKinds /\ Shape(task[t]) /\ task[t] \in TaskState
           /\ task[t].pc \in {"find", "reserve", "deploy", "own", "cleanup", "report"}
                => task[t].kind = "start"
           /\ task[t].pc \in {"pods", "wait"} => task[t].kind \in {"start", "restart"}
           /\ task[t].pc \in {"delete", "settle"} => task[t].kind \in {"stop", "orphan"}
           /\ task[t].pc = "call" => task[t].kind = "forward"
           /\ task[t].pc \in {"read", "write"} => task[t].kind # "orphan"
<1>1. task[t] \in TaskState /\ Shape(task[t])
  BY DEF TypeOK, TaskInv
<1>2. task[t].kind # "none"
  <2>1. NoTask.pc = "idle"
    BY DEF NoTask
  <2>2. QED
    BY <1>1, <2>1 DEF Shape
<1>3. task[t].kind \in AllKinds
  BY <1>1, <1>2 DEF TaskState
<1>4. QED
  BY <1>1, <1>3 DEF Shape, StartShape, AllKinds

\* A task that is past its beginning has a server.
LEMMA Served ==
    ASSUME TypeOK, TaskInv, NEW t \in Task, task[t].pc \notin {"idle", "find", "reserve"}
    PROVE  task[t].server \in Server
  BY KindAt DEF Shape, StartShape, TaskState, AllKinds

\* The steps of a task, by what they do to it and to the rest.
LEMMA ReadRowDoes ==
    ASSUME TypeOK, TaskInv, NEW t \in Task, ReadRow(t)
    PROVE  /\ UNCHANGED <<servers, kube, knows, watch>> /\ task[t].pc = "read"
           /\ WrittenTo(t) \/ Moves(t, "write", task[t].write)
<1>1. /\ UNCHANGED <<servers, kube, knows, watch>> /\ task[t].pc = "read"
      /\ \/ AfterWrite(t)
         \/ task' = [task EXCEPT ![t].pc = "write", ![t].loaded = servers[task[t].server].status]
            /\ servers[task[t].server].status \notin Terminal
  BY DEF ReadRow
<1>2. CASE AfterWrite(t)
  BY <1>1, <1>2, AfterWriteDoes
<1>3. CASE /\ task' = [task EXCEPT ![t].pc = "write", ![t].loaded = servers[task[t].server].status]
           /\ task[t].server \in Server
  <2> DEFINE now == servers[task[t].server].status
  <2>1. now \in AvailabilityStatus \cup {NoRow} /\ task[t] \in TaskState
    BY <1>3 DEF TypeOK, Row
  <2> HIDE DEF now
  <2>2. [task[t] EXCEPT !.pc = "write", !.loaded = now] \in TaskState
    BY <2>1 DEF TaskState, PC
  <2>3. task' = [task EXCEPT ![t] = [task[t] EXCEPT !.pc = "write", !.loaded = now]]
    BY <1>3 DEF TypeOK, now
  <2>4. QED
    BY <1>1, <2>1, <2>2, <2>3 DEF TypeOK, Moves, Others, TaskState
<1>4. task[t].server \in Server
  BY <1>1, Served
<1>5. QED
  BY <1>1, <1>2, <1>3, <1>4

LEMMA WriteRowDoes ==
    ASSUME TypeOK, TaskInv, NEW t \in Task, WriteRow(t)
    PROVE  /\ UNCHANGED <<kube, knows, watch>> /\ task[t].pc = "write" /\ WrittenTo(t)
           /\ task[t].server \in Server /\ servers' \in [Server -> Row]
           /\ \A s \in Server \ {task[t].server} : servers'[s] = servers[s]
           /\ servers'[task[t].server].owner = servers[task[t].server].owner
           /\ servers'[task[t].server].fresh = TRUE
           /\ servers'[task[t].server].status \in {servers[task[t].server].status, task[t].write}
<1> DEFINE s == task[t].server
           status == IF task[t].write = task[t].loaded THEN servers[s].status ELSE task[t].write
<1>1. /\ UNCHANGED <<kube, knows, watch>> /\ task[t].pc = "write" /\ WrittenTo(t) /\ s \in Server
      /\ task[t].write \in AvailabilityStatus /\ servers[s] \in Row
  BY AfterWriteDoes, Served DEF WriteRow, TypeOK, TaskState
<1>2. servers' = [servers EXCEPT ![s] = [servers[s] EXCEPT !.status = status, !.fresh = TRUE]]
  BY <1>1 DEF WriteRow, TypeOK
<1>3. status \in AvailabilityStatus \cup {NoRow} /\ status \in {servers[s].status, task[t].write}
  BY <1>1 DEF Row
<1> HIDE DEF s, status
<1>4. [servers[s] EXCEPT !.status = status, !.fresh = TRUE] \in Row
  BY <1>1, <1>3 DEF Row
<1>5. servers' \in [Server -> Row] /\ servers'[s] = [servers[s] EXCEPT !.status = status, !.fresh = TRUE]
      /\ \A r \in Server \ {s} : servers'[r] = servers[r]
  BY <1>1, <1>2, <1>4 DEF TypeOK
<1>6. servers'[s].status = status /\ servers'[s].fresh = TRUE /\ servers'[s].owner = servers[s].owner
  BY <1>1, <1>5 DEF Row
<1>7. QED
  BY <1>1, <1>3, <1>5, <1>6 DEF s

LEMMA ClaimDoes ==
    ASSUME TypeOK, TaskInv, NEW t \in Task, NEW s \in Server, Claim(t, s)
    PROVE  /\ UNCHANGED <<kube, knows, watch>> /\ task[t].pc = "find"
           /\ servers[s].status = "FINISHED" /\ servers' \in [Server -> Row]
           /\ servers'[s].status = "REUSED" /\ servers'[s].fresh = TRUE
           /\ servers'[s].owner = servers[s].owner
           /\ \A r \in Server \ {s} : servers'[r] = servers[r]
           /\ Others(t) /\ task'[t].kind = task[t].kind /\ task'[t].client = task[t].client
           /\ task'[t].server = s /\ task'[t].reuse = task[t].reuse
           /\ task'[t].pc \in {"pods", "own"} /\ task'[t].write = task[t].write
<1> DEFINE pc == IF task[t].reuse = "RESTART" THEN "pods" ELSE "own"
           row == [servers[s] EXCEPT !.status = "REUSED", !.fresh = TRUE]
           k == [task[t] EXCEPT !.server = s, !.pc = pc]
<1>1. servers[s] \in Row /\ task[t] \in TaskState /\ pc \in {"pods", "own"}
  BY DEF TypeOK
<1>2. servers' = [servers EXCEPT ![s] = row] /\ task' = [task EXCEPT ![t] = k]
  BY DEF Claim, TypeOK
<1>3. /\ row \in Row /\ row.status = "REUSED" /\ row.fresh = TRUE /\ row.owner = servers[s].owner
  BY <1>1 DEF Row, AvailabilityStatus
<1> HIDE DEF pc
<1>4. /\ k \in TaskState /\ k.kind = task[t].kind /\ k.client = task[t].client /\ k.server = s
      /\ k.reuse = task[t].reuse /\ k.pc = pc /\ k.write = task[t].write
  BY <1>1 DEF TaskState, PC
<1> HIDE DEF row, k
<1>5. /\ servers' \in [Server -> Row] /\ servers'[s] = row
      /\ \A r \in Server \ {s} : servers'[r] = servers[r]
  BY <1>2, <1>3 DEF TypeOK
<1>6. Others(t) /\ task'[t] = k
  BY <1>2, <1>4 DEF TypeOK, Others
<1>7. QED
  BY <1>1, <1>3, <1>4, <1>5, <1>6 DEF Claim, Reusable

LEMMA FindNoneDoes ==
    ASSUME TypeOK, TaskInv, NEW t \in Task, FindNone(t)
    PROVE  /\ UNCHANGED <<servers, kube, knows, watch>> /\ task[t].pc = "find"
           /\ Others(t) /\ task'[t].kind = task[t].kind /\ task'[t].client = task[t].client
           /\ task'[t].server = task[t].server /\ task'[t].reuse = "NONE"
           /\ task'[t].pc = "reserve" /\ task'[t].write = task[t].write
<1> DEFINE k == [task[t] EXCEPT !.pc = "reserve", !.reuse = "NONE"]
<1>1. task[t] \in TaskState
  BY DEF TypeOK
<1>2. task' = [task EXCEPT ![t] = k]
  BY DEF FindNone, TypeOK
<1>3. /\ k \in TaskState /\ k.kind = task[t].kind /\ k.client = task[t].client
      /\ k.server = task[t].server /\ k.reuse = "NONE" /\ k.pc = "reserve" /\ k.write = task[t].write
  BY <1>1 DEF TaskState, PC, Strategy
<1> HIDE DEF k
<1>4. QED
  BY <1>2, <1>3 DEF FindNone, TypeOK, Others

LEMMA ReserveDoes ==
    ASSUME TypeOK, TaskInv, NEW t \in Task, NEW s \in Server, Reserve(t, s)
    PROVE  /\ UNCHANGED <<kube, knows, watch>> /\ task[t].pc = "reserve"
           /\ servers[s].status = NoRow /\ servers' \in [Server -> Row]
           /\ servers'[s] = [status |-> "ALIVE", owner |-> task[t].client, fresh |-> TRUE]
           /\ \A r \in Server \ {s} : servers'[r] = servers[r]
           /\ Others(t) /\ task'[t].kind = task[t].kind /\ task'[t].client = task[t].client
           /\ task'[t].server = s /\ task'[t].reuse = task[t].reuse
           /\ task'[t].pc = "deploy" /\ task'[t].write = task[t].write
<1> DEFINE row == NewRow(task[t].client)
           k == [task[t] EXCEPT !.pc = "deploy", !.server = s]
<1>1. task[t] \in TaskState
  BY DEF TypeOK
<1>2. servers' = [servers EXCEPT ![s] = row] /\ task' = [task EXCEPT ![t] = k]
  BY DEF Reserve, TypeOK
<1>3. row \in Row /\ row = [status |-> "ALIVE", owner |-> task[t].client, fresh |-> TRUE]
  BY <1>1 DEF NewRow, Row, AvailabilityStatus, TaskState
<1>4. /\ k \in TaskState /\ k.kind = task[t].kind /\ k.client = task[t].client /\ k.server = s
      /\ k.reuse = task[t].reuse /\ k.pc = "deploy" /\ k.write = task[t].write
  BY <1>1 DEF TaskState, PC
<1> HIDE DEF row, k
<1>5. /\ servers' \in [Server -> Row] /\ servers'[s] = row
      /\ \A r \in Server \ {s} : servers'[r] = servers[r]
  BY <1>2, <1>3 DEF TypeOK
<1>6. Others(t) /\ task'[t] = k
  BY <1>2, <1>4 DEF TypeOK, Others
<1>7. QED
  BY <1>3, <1>4, <1>5, <1>6 DEF Reserve

LEMMA DeployDoes ==
    ASSUME TypeOK, TaskInv, NEW t \in Task, Deploy(t)
    PROVE  /\ UNCHANGED <<servers, knows, watch>> /\ task[t].pc = "deploy" /\ task[t].server \in Server
           /\ kube' \in [Server -> Deployment]
           /\ \A s \in Server \ {task[t].server} : kube'[s] = kube[s]
           /\ \/ Moves(t, "wait", task[t].write)
              \/ Moves(t, "cleanup", task[t].write)
<1>1. task[t].pc = "deploy" /\ task[t].server \in Server
  BY Served DEF Deploy
<1>2. /\ UNCHANGED <<servers, knows, watch>>
      /\ \/ kube' = [kube EXCEPT ![task[t].server] = "pending"] /\ Goto(t, "wait")
         \/ /\ \E k \in {"none", "pending"} : kube' = [kube EXCEPT ![task[t].server] = k]
            /\ Goto(t, "cleanup")
         \/ UNCHANGED kube /\ Goto(t, "cleanup")
  BY DEF Deploy, DeployRejects
<1>3. QED
  BY <1>1, <1>2, GotoMoves DEF TypeOK, Deployment, PC

LEMMA RestartPodsDoes ==
    ASSUME TypeOK, TaskInv, NEW t \in Task, RestartPods(t)
    PROVE  /\ UNCHANGED <<servers, knows, watch>> /\ task[t].pc = "pods" /\ task[t].server \in Server
           /\ kube' \in [Server -> Deployment]
           /\ \A s \in Server \ {task[t].server} : kube'[s] = kube[s]
           /\ kube[task[t].server] = "none" <=> kube'[task[t].server] = "none"
           /\ ReadyTo(t) \/ Moves(t, "wait", task[t].write) \/ FailsTo(t)
<1>1. task[t].pc = "pods" /\ task[t].server \in Server
  BY Served DEF RestartPods
<1>2. \/ Goto(t, "wait") \/ Proceed(t) \/ Fail(t)
  BY DEF RestartPods
<1>3. ReadyTo(t) \/ Moves(t, "wait", task[t].write) \/ FailsTo(t)
  BY <1>2, GotoMoves, ProceedDoes, FailDoes DEF PC
<1>4. QED
  BY <1>1, <1>3 DEF RestartPods, TypeOK, Deployment

LEMMA AwaitPodsDoes ==
    ASSUME TypeOK, TaskInv, NEW t \in Task, AwaitPods(t)
    PROVE  /\ UNCHANGED <<servers, kube, knows, watch>> /\ task[t].pc = "wait" /\ task[t].server \in Server
           /\ ReadyTo(t) \/ FailsTo(t)
  BY ProceedDoes, FailDoes, Served DEF AwaitPods

LEMMA TakeOverDoes ==
    ASSUME TypeOK, TaskInv, NEW t \in Task, TakeOver(t)
    PROVE  /\ UNCHANGED <<kube, knows, watch>> /\ task[t].pc = "own" /\ task[t].server \in Server
           /\ servers' \in [Server -> Row]
           /\ \A s \in Server \ {task[t].server} : servers'[s] = servers[s]
           /\ servers'[task[t].server].owner = task[t].client
           /\ servers'[task[t].server].status = servers[task[t].server].status
           /\ servers'[task[t].server].fresh = servers[task[t].server].fresh
           /\ Moves(t, "report", task[t].write) \/ Moves(t, "read", "ALIVE")
<1> DEFINE s == task[t].server
           row == [servers[s] EXCEPT !.owner = task[t].client]
<1>1. task[t].pc = "own" /\ s \in Server /\ task[t] \in TaskState /\ servers[s] \in Row
  BY Served DEF TakeOver, TypeOK
<1>2. servers' = [servers EXCEPT ![s] = row]
  BY <1>1 DEF TakeOver, TypeOK
<1>3. /\ row \in Row /\ row.owner = task[t].client /\ row.status = servers[s].status
      /\ row.fresh = servers[s].fresh
  BY <1>1 DEF Row, TaskState
<1>4. Moves(t, "report", task[t].write) \/ Moves(t, "read", "ALIVE")
  BY GotoMoves, WriteMoves DEF TakeOver, PC, AvailabilityStatus
<1> HIDE DEF row
<1>5. QED
  BY <1>1, <1>2, <1>3, <1>4 DEF TakeOver, TypeOK

LEMMA CleanupDoes ==
    ASSUME TypeOK, TaskInv, NEW t \in Task, Cleanup(t)
    PROVE  /\ UNCHANGED <<servers, knows, watch>> /\ task[t].pc = "cleanup" /\ task[t].server \in Server
           /\ kube' \in [Server -> Deployment]
           /\ \A s \in Server \ {task[t].server} : kube'[s] = kube[s]
           /\ kube'[task[t].server] \in {kube[task[t].server], "none"}
           /\ "api" \notin Faults => kube'[task[t].server] = "none"
           /\ Moves(t, "read", "FAILED_TO_START")
<1>1. task[t].server \in Server
  BY Served DEF Cleanup
<1>2. QED
  BY <1>1, TeardownDoes, WriteMoves DEF Cleanup, AvailabilityStatus

LEMMA ReportDoes ==
    ASSUME TypeOK, TaskInv, NEW t \in Task, Report(t)
    PROVE  /\ UNCHANGED <<servers, kube, watch>> /\ task[t].pc = "report" /\ task[t].server \in Server
           /\ task[t].client \in Client /\ Ends(t)
           /\ knows' = [knows EXCEPT ![task[t].client] = @ \cup {task[t].server}]
  BY Served, EndEnds DEF Report, TypeOK, TaskState

LEMMA DeleteDoes ==
    ASSUME TypeOK, TaskInv, NEW t \in Task, Delete(t)
    PROVE  /\ UNCHANGED <<servers, knows, watch>> /\ task[t].pc = "delete" /\ task[t].server \in Server
           /\ kube' \in [Server -> Deployment]
           /\ \A s \in Server \ {task[t].server} : kube'[s] = kube[s]
           /\ kube'[task[t].server] \in {kube[task[t].server], "none"}
           /\ "api" \notin Faults => kube'[task[t].server] = "none"
           /\ \/ task[t].kind = "stop" /\ Moves(t, "read", "DELETION_FAILED")
              \/ Moves(t, "settle", task[t].write)
              \/ Ends(t)
<1>1. task[t].server \in Server /\ task[t].pc = "delete"
  BY Served DEF Delete
<1>2. PICK ok \in BOOLEAN :
          /\ Teardown(task[t].server, ok)
          /\ \/ task[t].kind = "stop" /\ Write(t, "DELETION_FAILED")
             \/ Goto(t, "settle")
             \/ End(t)
  BY DEF Delete
<1>3. QED
  BY <1>1, <1>2, TeardownDoes, WriteMoves, GotoMoves, EndEnds DEF Delete, AvailabilityStatus, PC

LEMMA SettleDoes ==
    ASSUME TypeOK, TaskInv, NEW t \in Task, Settle(t)
    PROVE  /\ UNCHANGED <<kube, knows, watch>> /\ task[t].pc = "settle" /\ task[t].server \in Server
           /\ Ends(t) /\ servers' \in [Server -> Row]
           /\ \A s \in Server \ {task[t].server} : servers'[s] = servers[s]
           /\ servers'[task[t].server].owner = servers[task[t].server].owner
           /\ servers'[task[t].server].fresh = servers[task[t].server].fresh
           /\ servers'[task[t].server].status \in {servers[task[t].server].status, "STOPPED"}
<1> DEFINE s == task[t].server
           row == [servers[s] EXCEPT !.status = "STOPPED"]
<1>1. task[t].pc = "settle" /\ s \in Server /\ servers[s] \in Row
  BY Served DEF Settle, TypeOK
<1>2. servers' = [servers EXCEPT ![s] = row] \/ servers' = servers
  BY <1>1 DEF Settle, TypeOK
<1>3. /\ row \in Row /\ row.owner = servers[s].owner /\ row.status = "STOPPED"
      /\ row.fresh = servers[s].fresh
  BY <1>1 DEF Row, AvailabilityStatus
<1> HIDE DEF row
<1>4. QED
  BY <1>1, <1>2, <1>3, EndEnds DEF Settle, TypeOK

LEMMA CallDoes ==
    ASSUME TypeOK, TaskInv, NEW t \in Task, Call(t)
    PROVE  /\ UNCHANGED <<servers, kube, knows, watch>> /\ task[t].pc = "call" /\ task[t].server \in Server
           /\ Moves(t, "read", task[t].write) \/ Ends(t)
  BY Served, GotoMoves, EndEnds DEF Call, PC

-----------------------------------------------------------------------------
(* Types, and what tasks are at.                                           *)

LEMMA TasksKept ==
    ASSUME TaskInv, NEW t \in Task, Others(t), Shape(task'[t]), watch' = watch,
           \A s \in Server : servers'[s].status = NoRow => servers[s].status = NoRow,
           TypeOK,
           task'[t].server # NoServer => servers'[task'[t].server].status # NoRow
    PROVE  TaskInv'
<1>1. \A u \in Task : Shape(task'[u])
  BY DEF TaskInv, Others
<1>2. \A u \in Task : task'[u].server # NoServer => servers'[task'[u].server].status # NoRow
  <2>1. ASSUME NEW u \in Task, u # t, task'[u].server # NoServer
        PROVE  servers'[task'[u].server].status # NoRow
    <3>1. task'[u] = task[u] /\ task[u].server \in Server
      BY <2>1 DEF Others, TypeOK, TaskState
    <3>2. QED
      BY <2>1, <3>1 DEF TaskInv, Rows
  <2>2. QED
    BY <2>1
<1>3. \A s \in watch.todo \cup ({watch.at} \ {NoServer}) : servers'[s].status # NoRow
  BY DEF TaskInv, Rows, TypeOK, Pass
<1>4. QED
  BY <1>1, <1>2, <1>3 DEF TaskInv, Rows

LEMMA StepKeepsTaskInv ==
    ASSUME TypeOK, TaskInv, NEW t \in Task, Step(t)
    PROVE  TypeOK' /\ TaskInv'
<1>1. Shape(task[t]) /\ task[t] \in TaskState
  BY DEF TaskInv, TypeOK
<1>2. task[t].server # NoServer => task[t].server \in Server /\ servers[task[t].server].status # NoRow
  BY <1>1 DEF TaskInv, Rows, TaskState
<1>3. ASSUME NEW pc, NEW write, Moves(t, pc, write)
      PROVE  task' \in [Task -> TaskState]
  BY <1>3 DEF Moves, Others
<1>4. Ends(t) => Others(t) /\ Shape(task'[t]) /\ task'[t].server = NoServer
  BY DEF Ends, Shape, NoTask, AllKinds
<1> DEFINE Kept == /\ Others(t) /\ Shape(task'[t]) /\ (task'[t].server = task[t].server \/ Ends(t))
<1>5. WrittenTo(t) /\ task[t].pc \in {"read", "write"} => Kept
  BY KindAt, <1>4 DEF WrittenTo, Moves, Shape, StartShape, AllKinds
<1>6. ReadyTo(t) /\ task[t].pc \in {"pods", "wait"} => Kept
  BY KindAt DEF ReadyTo, Moves, Shape, StartShape, AllKinds
<1>7. FailsTo(t) /\ task[t].pc \in {"pods", "wait"} => Kept
  BY KindAt, <1>4 DEF FailsTo, Moves, Shape, StartShape, AllKinds
<1>8. ASSUME Kept, watch' = watch, servers' = servers
      PROVE  TaskInv'
  <2>1. task'[t].server # NoServer => servers'[task'[t].server].status # NoRow
    BY <1>2, <1>4, <1>8
  <2>2. QED
    BY <1>8, <2>1, TasksKept
<1>9. CASE ReadRow(t)
  <2>1. UNCHANGED <<servers, kube, knows, watch>> /\ task[t].pc = "read"
        /\ (WrittenTo(t) \/ Moves(t, "write", task[t].write))
    BY <1>9, ReadRowDoes
  <2>2. Kept
    BY KindAt, <1>5, <2>1 DEF Moves, Shape, StartShape, AllKinds
  <2>3. QED
    BY <1>8, <2>1, <2>2 DEF TypeOK, Others
<1>10. CASE WriteRow(t)
  <2>1. Kept
    BY <1>5, <1>10, WriteRowDoes
  <2>2. /\ task[t].write # NoRow /\ watch' = watch /\ kube' = kube /\ knows' = knows
        /\ task[t].server \in Server /\ servers' \in [Server -> Row]
        /\ \A s \in Server \ {task[t].server} : servers'[s] = servers[s]
        /\ servers'[task[t].server].status \in {servers[task[t].server].status, task[t].write}
    BY <1>1, <1>10, WriteRowDoes DEF TaskState, AvailabilityStatus, NoRow
  <2>3. \A s \in Server : servers'[s].status = NoRow => servers[s].status = NoRow
    BY <2>2
  <2>4. QED
    BY <1>2, <1>4, <2>1, <2>2, <2>3, TasksKept DEF TypeOK, Others
<1>11. ASSUME NEW s \in Server, Claim(t, s)
       PROVE  TypeOK' /\ TaskInv'
  <2>1. /\ UNCHANGED <<kube, knows, watch>> /\ servers' \in [Server -> Row]
        /\ servers'[s].status = "REUSED" /\ \A r \in Server \ {s} : servers'[r] = servers[r]
        /\ Others(t) /\ task'[t].server = s /\ task'[t].kind = task[t].kind
        /\ task'[t].pc \in {"pods", "own"} /\ task'[t].write = task[t].write
        /\ task'[t].reuse = task[t].reuse /\ task[t].pc = "find"
    BY <1>11, ClaimDoes
  <2>2. Shape(task'[t])
    BY KindAt, <2>1, LifecycleConstants DEF Shape, StartShape, AllKinds
  <2>3. \A r \in Server : servers'[r].status = NoRow => servers[r].status = NoRow
    BY <2>1 DEF NoRow
  <2>4. QED
    BY <2>1, <2>2, <2>3, TasksKept DEF TypeOK, Others, NoRow
<1>12. ASSUME NEW s \in Server, Reserve(t, s)
       PROVE  TypeOK' /\ TaskInv'
  <2>0. /\ UNCHANGED <<kube, knows, watch>> /\ servers' \in [Server -> Row]
        /\ servers'[s] = [status |-> "ALIVE", owner |-> task[t].client, fresh |-> TRUE]
        /\ \A r \in Server \ {s} : servers'[r] = servers[r]
        /\ Others(t) /\ task'[t].server = s /\ task'[t].kind = task[t].kind
        /\ task'[t].pc = "deploy" /\ task'[t].write = task[t].write
        /\ task'[t].reuse = task[t].reuse /\ task[t].pc = "reserve"
    BY <1>12, ReserveDoes
  <2>1. servers'[s].status = "ALIVE"
    BY <2>0
  <2>2. Shape(task'[t])
    BY KindAt, <2>0, LifecycleConstants DEF Shape, StartShape, AllKinds
  <2>3. \A r \in Server : servers'[r].status = NoRow => servers[r].status = NoRow
    BY <2>0, <2>1 DEF NoRow
  <2>4. QED
    BY <2>0, <2>1, <2>2, <2>3, TasksKept DEF TypeOK, Others, NoRow
<1>13. CASE FindNone(t)
  <2>1. Kept
    BY KindAt, <1>13, FindNoneDoes DEF Shape, StartShape, AllKinds
  <2>2. QED
    BY <1>8, <1>13, <2>1, FindNoneDoes DEF TypeOK, Others
<1>14. CASE Refuse(t)
  <2>1. Kept /\ UNCHANGED <<servers, kube, knows, watch>>
    BY <1>4, <1>14, EndEnds DEF Refuse
  <2>2. QED
    BY <1>8, <2>1 DEF TypeOK, Others
<1>15. CASE Deploy(t)
  <2>1. Kept
    BY KindAt, <1>15, DeployDoes DEF Moves, Shape, StartShape, AllKinds
  <2>2. QED
    BY <1>8, <1>15, <2>1, DeployDoes DEF TypeOK, Others
<1>16. CASE RestartPods(t)
  <2>1. Moves(t, "wait", task[t].write) => Kept
    BY KindAt, <1>16, RestartPodsDoes DEF Moves, Shape, StartShape, AllKinds
  <2>2. Kept
    BY <1>6, <1>7, <1>16, <2>1, RestartPodsDoes
  <2>3. QED
    BY <1>8, <1>16, <2>2, RestartPodsDoes DEF TypeOK, Others
<1>17. CASE AwaitPods(t)
  <2>1. Kept
    BY <1>6, <1>7, <1>17, AwaitPodsDoes
  <2>2. QED
    BY <1>8, <1>17, <2>1, AwaitPodsDoes DEF TypeOK, Others
<1>18. CASE TakeOver(t)
  <2>1. Kept
    BY KindAt, <1>18, TakeOverDoes DEF Moves, Shape, StartShape, AllKinds
  <2>2. \A s \in Server : servers'[s].status = servers[s].status
    BY <1>18, TakeOverDoes
  <2>3. QED
    BY <1>2, <1>4, <1>18, <2>1, <2>2, TakeOverDoes, TasksKept DEF TypeOK, Others
<1>19. CASE Cleanup(t)
  <2>1. Kept
    BY KindAt, <1>19, CleanupDoes DEF Moves, Shape, StartShape, AllKinds
  <2>2. QED
    BY <1>8, <1>19, <2>1, CleanupDoes DEF TypeOK, Others
<1>20. CASE Report(t)
  <2>1. Kept
    BY <1>4, <1>20, ReportDoes
  <2>2. QED
    BY <1>8, <1>20, <2>1, ReportDoes DEF TypeOK, Others
<1>21. CASE Delete(t)
  <2>1. Kept
    BY KindAt, <1>4, <1>21, DeleteDoes DEF Moves, Shape, StartShape, AllKinds
  <2>2. QED
    BY <1>8, <1>21, <2>1, DeleteDoes DEF TypeOK, Others
<1>22. CASE Settle(t)
  <2>1. Kept
    BY <1>4, <1>22, SettleDoes
  <2>2. \A s \in Server : servers'[s].status = NoRow => servers[s].status = NoRow
    BY <1>22, SettleDoes DEF NoRow
  <2>3. QED
    BY <1>2, <1>4, <1>22, <2>1, <2>2, SettleDoes, TasksKept DEF TypeOK, Others
<1>23. CASE Call(t)
  <2>1. Kept
    BY KindAt, <1>4, <1>23, CallDoes DEF Moves, Shape, StartShape, AllKinds
  <2>2. QED
    BY <1>8, <1>23, <2>1, CallDoes DEF TypeOK, Others
<1>24. QED
  BY <1>9, <1>10, <1>11, <1>12, <1>13, <1>14, <1>15, <1>16, <1>17, <1>18, <1>19, <1>20, <1>21, <1>22,
     <1>23 DEF Step

\* A request that is let in.
OpensStart(t) ==
    /\ task'[t].kind = "start" /\ task'[t].server = NoServer /\ task'[t].write = "ALIVE"
    /\ task'[t].pc = IF task'[t].reuse = "NONE" THEN "reserve" ELSE "find"
    /\ knows' = knows
OpensOwn(t, c, s) ==
    /\ Valid(c, s) /\ Asks(c, s) /\ task'[t].server = s
    /\ \/ /\ task'[t].kind = "stop" /\ task'[t].pc = "read" /\ task'[t].write = "STOPPED"
          /\ LetsGo(c, s)
       \/ /\ task'[t].kind = "finish" /\ task'[t].pc = "read" /\ task'[t].write = "FINISHED"
          /\ LetsGo(c, s)
       \/ /\ task'[t].kind = "restart" /\ task'[t].pc = "pods" /\ task'[t].write = "ALIVE"
          /\ knows' = knows
       \/ /\ task'[t].kind = "forward" /\ task'[t].pc = "call" /\ task'[t].write = "ALIVE"
          /\ knows' = knows
OpensOrphan(t, s) ==
    /\ Orphaned(s) /\ task'[t].kind = "orphan" /\ task'[t].server = s
    /\ task'[t].pc = "delete" /\ task'[t].write = "STOPPED" /\ knows' = knows

LEMMA BeginDoes ==
    ASSUME TypeOK, NEW t \in Task, Begin(t)
    PROVE  /\ UNCHANGED <<servers, kube, watch>> /\ Others(t) /\ task[t].pc = "idle"
           /\ knows' \in [Client -> SUBSET Server] /\ \A c \in Client : knows'[c] \subseteq knows[c]
           /\ \/ OpensStart(t)
              \/ \E c \in Client, s \in Server : OpensOwn(t, c, s)
              \/ \E s \in Server : OpensOrphan(t, s)
<1>0. /\ {"start", "stop", "finish", "restart", "forward", "orphan"} \subseteq AllKinds
      /\ {"read", "pods", "call", "delete", "reserve", "find"} \subseteq PC /\ "NONE" \in Strategy
      /\ {"ALIVE", "STOPPED", "FINISHED"} \subseteq AvailabilityStatus
  BY DEF AllKinds, Strategy, PC, AvailabilityStatus
<1>1. ASSUME NEW c \in Client, NEW strategy \in Reuse, BeginStart(t, c, strategy)
      PROVE  /\ UNCHANGED <<servers, kube, knows, watch>> /\ Others(t) /\ task[t].pc = "idle"
             /\ OpensStart(t)
  <2> DEFINE pc == IF strategy = "NONE" THEN "reserve" ELSE "find"
  <2>1. strategy \in Strategy /\ pc \in PC /\ "ALIVE" \in AvailabilityStatus /\ "start" \in AllKinds
        /\ "start" # "orphan" /\ NoServer \in Server \cup {NoServer}
    BY <1>0, LifecycleConstants
  <2>2. Open(t, "start", c, NoServer, strategy, pc, "ALIVE") /\ UNCHANGED <<servers, kube, knows, watch>>
    BY <1>1 DEF BeginStart
  <2>3. /\ Others(t)
        /\ task'[t].kind = "start" /\ task'[t].server = NoServer
        /\ task'[t].reuse = strategy /\ task'[t].pc = pc /\ task'[t].write = "ALIVE"
        /\ task[t].pc = "idle"
    <3> HIDE DEF pc
    <3>1. QED
      BY <2>1, <2>2, OpenTask
  <2>4. QED
    BY <2>2, <2>3 DEF OpensStart
<1>2. ASSUME NEW c \in Client, NEW s \in Server
      PROVE  /\ BeginStop(t, c, s) =>
                  /\ Others(t) /\ task[t].pc = "idle" /\ task'[t].server = s
                  /\ task'[t].kind = "stop" /\ task'[t].pc = "read" /\ task'[t].write = "STOPPED"
             /\ BeginFinish(t, c, s) =>
                  /\ Others(t) /\ task[t].pc = "idle" /\ task'[t].server = s
                  /\ task'[t].kind = "finish" /\ task'[t].pc = "read" /\ task'[t].write = "FINISHED"
             /\ BeginRestart(t, c, s) =>
                  /\ Others(t) /\ task[t].pc = "idle" /\ task'[t].server = s
                  /\ task'[t].kind = "restart" /\ task'[t].pc = "pods" /\ task'[t].write = "ALIVE"
             /\ BeginForward(t, c, s) =>
                  /\ Others(t) /\ task[t].pc = "idle" /\ task'[t].server = s
                  /\ task'[t].kind = "forward" /\ task'[t].pc = "call" /\ task'[t].write = "ALIVE"
  BY <1>0, OpenTask DEF BeginStop, BeginFinish, BeginRestart, BeginForward
<1>3. ASSUME NEW s \in Server, BeginOrphan(t, s)
      PROVE  /\ UNCHANGED <<servers, kube, knows, watch>> /\ Others(t) /\ task[t].pc = "idle"
             /\ OpensOrphan(t, s)
  <2>1. servers[s].owner \in Client
    BY DEF TypeOK, Row
  <2>2. QED
    BY <1>0, <1>3, <2>1, OpenTask DEF BeginOrphan, OpensOrphan
<1>4. ASSUME NEW c \in Client, NEW s \in Server,
             BeginStop(t, c, s) \/ BeginFinish(t, c, s) \/ BeginRestart(t, c, s) \/ BeginForward(t, c, s)
      PROVE  /\ UNCHANGED <<servers, kube, watch>> /\ Valid(c, s) /\ Asks(c, s)
             /\ knows' \in [Client -> SUBSET Server] /\ \A d \in Client : knows'[d] \subseteq knows[d]
             /\ BeginStop(t, c, s) \/ BeginFinish(t, c, s) => LetsGo(c, s)
             /\ BeginRestart(t, c, s) \/ BeginForward(t, c, s) => knows' = knows
  BY <1>4 DEF BeginStop, BeginFinish, BeginRestart, BeginForward, Asked, LetsGo, TypeOK
<1>5. CASE \E c \in Client, strategy \in Reuse : BeginStart(t, c, strategy)
  BY <1>1, <1>5 DEF TypeOK
<1>6. CASE \E s \in Server : BeginOrphan(t, s)
  BY <1>3, <1>6 DEF TypeOK
<1>7. ASSUME NEW c \in Client, NEW s \in Server,
             BeginStop(t, c, s) \/ BeginFinish(t, c, s) \/ BeginRestart(t, c, s) \/ BeginForward(t, c, s)
      PROVE  /\ OpensOwn(t, c, s) /\ UNCHANGED <<servers, kube, watch>>
             /\ Others(t) /\ task[t].pc = "idle"
             /\ knows' \in [Client -> SUBSET Server] /\ \A d \in Client : knows'[d] \subseteq knows[d]
  <2>1. Others(t) /\ task[t].pc = "idle"
    BY <1>2, <1>7
  <2>2. OpensOwn(t, c, s)
    BY <1>2, <1>4, <1>7 DEF OpensOwn
  <2>3. QED
    BY <1>4, <1>7, <2>1, <2>2
<1>8. QED
  BY <1>5, <1>6, <1>7 DEF Begin

LEMMA BeginKeepsTaskInv ==
    ASSUME TypeOK, TaskInv, NEW t \in Task, Begin(t)
    PROVE  TypeOK' /\ TaskInv'
<1>1. /\ UNCHANGED <<servers, kube, watch>> /\ Others(t)
      /\ knows' \in [Client -> SUBSET Server]
      /\ \/ OpensStart(t)
         \/ \E c \in Client, s \in Server : OpensOwn(t, c, s)
         \/ \E s \in Server : OpensOrphan(t, s)
  BY BeginDoes
<1>2. NoRow \notin Usable
  BY DEF NoRow, Usable
<1>3. Shape(task'[t]) /\ (task'[t].server # NoServer => servers[task'[t].server].status # NoRow)
  <2>1. CASE OpensStart(t)
    BY <1>1, <2>1 DEF OpensStart, Shape, StartShape, AllKinds
  <2>2. ASSUME NEW c \in Client, NEW s \in Server, OpensOwn(t, c, s)
        PROVE  Shape(task'[t]) /\ servers[task'[t].server].status # NoRow
    BY <1>2, <2>2, LifecycleConstants DEF OpensOwn, Valid, Shape, AllKinds
  <2>3. ASSUME NEW s \in Server, OpensOrphan(t, s)
        PROVE  Shape(task'[t]) /\ servers[task'[t].server].status # NoRow
    BY <2>3, LifecycleConstants DEF OpensOrphan, Orphaned, Shape, AllKinds
  <2>4. QED
    BY <1>1, <2>1, <2>2, <2>3
<1>4. TaskInv'
  BY <1>1, <1>3, TasksKept
<1>5. QED
  BY <1>1, <1>4 DEF TypeOK, Others

-----------------------------------------------------------------------------
(* The watcher's steps, by what they do.                                   *)

LEMMA NoPassTyped ==
    /\ NoPass \in Pass /\ NoPass.phase = "idle" /\ NoPass.todo = {} /\ NoPass.at = NoServer
    /\ NoPass.mark = "KILLED"
  BY DEF NoPass, Pass, AvailabilityStatus

\* A pass lists what is next to see to.
LEMMA ListsDoes ==
    ASSUME NEW phase \in {"pods", "list", "reap"}, NEW todo \in SUBSET Server,
           watch' = [NoPass EXCEPT !.phase = phase, !.todo = todo]
    PROVE  /\ watch' \in Pass /\ watch'.phase = phase /\ watch'.todo = todo
           /\ watch'.at = NoServer /\ watch'.mark = "KILLED"
  BY DEF NoPass, Pass, AvailabilityStatus

LEMMA WatchBeginDoes ==
    ASSUME TypeOK, WatchBegin
    PROVE  /\ UNCHANGED <<servers, kube, task, knows>> /\ watch' \in Pass
           /\ watch'.phase = "pods" /\ watch'.at = NoServer /\ watch'.mark = "KILLED"
           /\ watch'.todo = {s \in Server : servers[s].status \in Usable}
  BY ListsDoes DEF WatchBegin

LEMMA WatchPodsDoes ==
    ASSUME TypeOK, WatchPods
    PROVE  /\ UNCHANGED <<servers, kube, task, knows>> /\ watch' \in Pass /\ watch.phase = "pods"
           /\ \/ /\ watch'.phase = "crash" /\ watch'.at = watch.at /\ watch'.mark = watch.mark
                 /\ watch'.todo = {s \in watch.todo : kube[s] = "broken"}
              \/ watch'.phase = "list" /\ watch'.at = NoServer /\ watch'.todo = {}
<1> DEFINE p == [watch EXCEPT !.phase = "crash", !.todo = {s \in @ : kube[s] = "broken"}]
<1>1. /\ p \in Pass /\ p.phase = "crash" /\ p.at = watch.at /\ p.mark = watch.mark
      /\ p.todo = {s \in watch.todo : kube[s] = "broken"}
  BY DEF TypeOK, Pass
<1> DEFINE q == [NoPass EXCEPT !.phase = "list"]
<1>2. q \in Pass /\ q.phase = "list" /\ q.at = NoServer /\ q.todo = {}
  BY DEF NoPass, Pass, AvailabilityStatus
<1>3. /\ UNCHANGED <<servers, kube, task, knows>> /\ watch.phase = "pods"
      /\ watch' = p \/ watch' = q
  BY DEF WatchPods
<1> HIDE DEF p, q
<1>4. QED
  BY <1>1, <1>2, <1>3

LEMMA WatchListDoes ==
    ASSUME TypeOK, WatchList
    PROVE  /\ UNCHANGED <<servers, kube, task, knows>> /\ watch' \in Pass
           /\ watch'.phase = "reap" /\ watch'.at = NoServer /\ watch'.mark = "KILLED"
           /\ watch'.todo = {s \in Server : servers[s].status \in Watched /\ ~servers[s].fresh}
<1> DEFINE todo == {s \in Server : servers[s].status \in Watched /\ ~servers[s].fresh}
<1>1. /\ UNCHANGED <<servers, kube, task, knows>>
      /\ watch' = [NoPass EXCEPT !.phase = "reap", !.todo = todo] /\ todo \in SUBSET Server
  BY DEF WatchList
<1> HIDE DEF todo
<1>2. QED
  BY <1>1, ListsDoes DEF todo

LEMMA WatchRemoveDoes ==
    ASSUME TypeOK, NEW s \in Server, WatchRemove(s)
    PROVE  /\ UNCHANGED <<servers, task, knows>> /\ watch' \in Pass
           /\ watch.phase \in {"crash", "reap"} /\ watch.at = NoServer /\ s \in watch.todo
           /\ watch'.phase = watch.phase /\ watch'.todo = watch.todo /\ watch'.at = s
           /\ watch'.mark \in {"CRASHED", "DELETION_FAILED", "KILLED", "probe"}
           /\ "api" \notin Faults => watch'.mark \in {"CRASHED", "KILLED"}
           /\ kube' \in [Server -> Deployment] /\ \A r \in Server \ {s} : kube'[r] = kube[r]
           /\ kube'[s] \in {kube[s], "none"}
           /\ "api" \notin Faults => kube'[s] = "none"
<1>1. PICK ok \in BOOLEAN :
        /\ Teardown(s, ok)
        /\ watch' = [watch EXCEPT !.at = s,
                !.mark = CASE watch.phase = "crash" -> IF ok THEN "CRASHED" ELSE "DELETION_FAILED"
                           [] watch.phase = "reap" -> IF ok THEN "KILLED" ELSE "probe"]
  BY DEF WatchRemove
<1> DEFINE mark == CASE watch.phase = "crash" -> IF ok THEN "CRASHED" ELSE "DELETION_FAILED"
                     [] watch.phase = "reap" -> IF ok THEN "KILLED" ELSE "probe"
           p == [watch EXCEPT !.at = s, !.mark = mark]
<1>2. /\ kube' \in [Server -> Deployment] /\ \A r \in Server \ {s} : kube'[r] = kube[r]
      /\ kube'[s] \in {kube[s], "none"}
      /\ "api" \notin Faults => ok /\ kube'[s] = "none"
  BY <1>1, TeardownDoes
<1>3. /\ UNCHANGED <<servers, task, knows>> /\ watch.phase \in {"crash", "reap"}
      /\ watch.at = NoServer /\ s \in watch.todo /\ watch' = p
  BY <1>1 DEF WatchRemove
<1>4. /\ mark \in {"CRASHED", "DELETION_FAILED", "KILLED", "probe"}
      /\ ok => mark \in {"CRASHED", "KILLED"}
  BY <1>3
<1> HIDE DEF mark
<1>5. /\ p \in Pass /\ p.phase = watch.phase /\ p.todo = watch.todo /\ p.at = s /\ p.mark = mark
  BY <1>4 DEF TypeOK, Pass, AvailabilityStatus
<1> HIDE DEF p
<1>6. QED
  BY <1>2, <1>3, <1>4, <1>5

LEMMA WatchProbeDoes ==
    ASSUME TypeOK, WatchProbe
    PROVE  /\ UNCHANGED <<servers, kube, task, knows>> /\ watch' \in Pass
           /\ watch.at # NoServer /\ watch.mark = "probe"
           /\ \/ /\ watch'.phase = watch.phase /\ watch'.todo = watch.todo /\ watch'.at = watch.at
                 /\ watch'.mark \in {"CRASHED", "DELETION_FAILED"}
              \/ watch' = NoPass
<1>1. ASSUME NEW mark \in {"CRASHED", "DELETION_FAILED"}
      PROVE  LET p == [watch EXCEPT !.mark = mark]
             IN  /\ p \in Pass /\ p.phase = watch.phase /\ p.todo = watch.todo
                 /\ p.at = watch.at /\ p.mark = mark
  BY <1>1 DEF TypeOK, Pass, AvailabilityStatus
<1>2. /\ UNCHANGED <<servers, kube, task, knows>> /\ watch.at # NoServer /\ watch.mark = "probe"
      /\ \/ \E mark \in {"CRASHED", "DELETION_FAILED"} : watch' = [watch EXCEPT !.mark = mark]
         \/ watch' = NoPass
  BY DEF WatchProbe
<1>3. QED
  BY <1>1, <1>2, NoPassTyped

LEMMA WatchMarkDoes ==
    ASSUME TypeOK, WatchMark
    PROVE  /\ UNCHANGED <<kube, task, knows>> /\ watch' \in Pass
           /\ watch.at \in Server /\ watch.mark \in AvailabilityStatus
           /\ servers' \in [Server -> Row]
           /\ \A s \in Server \ {watch.at} : servers'[s] = servers[s]
           /\ servers'[watch.at].status = watch.mark
           /\ servers'[watch.at].owner = servers[watch.at].owner
           /\ watch'.phase = watch.phase /\ watch'.at = NoServer /\ watch'.mark = watch.mark
           /\ watch'.todo = watch.todo \ {watch.at}
<1> DEFINE s == watch.at
           row == [servers[s] EXCEPT !.status = watch.mark, !.fresh = TRUE]
           p == [watch EXCEPT !.at = NoServer, !.todo = @ \ {s}]
<1>1. s \in Server /\ watch.mark \in AvailabilityStatus /\ servers[s] \in Row
  BY DEF WatchMark, TypeOK, Pass, AvailabilityStatus
<1>2. UNCHANGED <<kube, task, knows>> /\ servers' = [servers EXCEPT ![s] = row] /\ watch' = p
  BY <1>1 DEF WatchMark, TypeOK
<1>3. row \in Row /\ row.status = watch.mark /\ row.owner = servers[s].owner
  BY <1>1 DEF Row
<1>4. /\ p \in Pass /\ p.phase = watch.phase /\ p.at = NoServer /\ p.mark = watch.mark
      /\ p.todo = watch.todo \ {s}
  BY DEF TypeOK, Pass
<1> HIDE DEF row, p
<1>5. QED
  BY <1>1, <1>2, <1>3, <1>4 DEF TypeOK

LEMMA RestKeepsTaskInv ==
    ASSUME TypeOK, TaskInv, task' = task, servers' \in [Server -> Row], watch' \in Pass,
           kube' \in [Server -> Deployment], knows' = knows,
           \A s \in Server : servers'[s].status = NoRow => servers[s].status = NoRow,
           \A s \in watch'.todo \cup ({watch'.at} \ {NoServer}) :
              servers[s].status # NoRow
    PROVE  TypeOK' /\ TaskInv'
<1>1. \A t \in Task : task[t].server # NoServer => servers'[task[t].server].status # NoRow
  BY DEF TaskInv, Rows, TypeOK, TaskState
<1>2. \A s \in watch'.todo \cup ({watch'.at} \ {NoServer}) : servers'[s].status # NoRow
  BY DEF Pass
<1>3. QED
  BY <1>1, <1>2 DEF TypeOK, TaskInv, Rows

LEMMA WatchKeepsTaskInv ==
    ASSUME TypeOK, TaskInv, Watch
    PROVE  TypeOK' /\ TaskInv'
<1>0. NoRow \notin Usable \cup Watched \cup AvailabilityStatus
  BY DEF NoRow, Usable, Watched, AvailabilityStatus
<1>1. \A s \in watch.todo \cup ({watch.at} \ {NoServer}) : servers[s].status # NoRow
  BY DEF TaskInv, Rows
<1>2. servers \in [Server -> Row] /\ kube \in [Server -> Deployment]
  BY DEF TypeOK
<1>3. CASE WatchBegin
  BY <1>0, <1>2, <1>3, WatchBeginDoes, RestKeepsTaskInv
<1>4. CASE WatchPods
  BY <1>1, <1>2, <1>4, WatchPodsDoes, RestKeepsTaskInv
<1>5. CASE WatchList
  BY <1>0, <1>2, <1>5, WatchListDoes, RestKeepsTaskInv
<1>6. CASE WatchProbe
  BY <1>1, <1>2, <1>6, WatchProbeDoes, NoPassTyped, RestKeepsTaskInv
<1>7. CASE WatchMark
  <2>1. \A s \in Server : servers'[s].status = NoRow => servers[s].status = NoRow
    BY <1>0, <1>7, WatchMarkDoes
  <2>2. QED
    BY <1>1, <1>2, <1>7, <2>1, WatchMarkDoes, RestKeepsTaskInv
<1>8. CASE WatchEnd
  BY <1>1, <1>2, <1>8, NoPassTyped, RestKeepsTaskInv DEF WatchEnd
<1>9. ASSUME NEW s \in Server, WatchRemove(s)
      PROVE  TypeOK' /\ TaskInv'
  BY <1>1, <1>2, <1>9, WatchRemoveDoes, RestKeepsTaskInv
<1>10. QED
  BY <1>3, <1>4, <1>5, <1>6, <1>7, <1>8, <1>9 DEF Watch

-----------------------------------------------------------------------------
(* The world outside.                                                      *)

LEMMA PodsDo ==
    ASSUME TypeOK, NEW s \in Server, PodsReady(s) \/ PodsBreak(s)
    PROVE  /\ UNCHANGED <<servers, task, knows, watch>> /\ kube[s] # "none"
           /\ kube' \in [Server -> Deployment]
           /\ \A r \in Server : kube'[r] = "none" <=> kube[r] = "none"
  BY DEF PodsReady, PodsBreak, TypeOK, Deployment

LEMMA AgeDoes ==
    ASSUME TypeOK, NEW s \in Server, Age(s)
    PROVE  /\ UNCHANGED <<kube, task, knows, watch>> /\ servers' \in [Server -> Row]
           /\ watch.phase = "idle"
           /\ "slow" \notin Faults =>
                \A t \in Task : ~(task[t].server = s /\ task[t].kind \in {"start", "restart"})
           /\ \A r \in Server \ {s} : servers'[r] = servers[r]
           /\ servers'[s].status = servers[s].status /\ servers'[s].owner = servers[s].owner
<1> DEFINE row == [servers[s] EXCEPT !.fresh = FALSE]
<1>1. servers[s] \in Row /\ servers' = [servers EXCEPT ![s] = row]
  BY DEF Age, TypeOK
<1>2. row \in Row /\ row.status = servers[s].status /\ row.owner = servers[s].owner
  BY <1>1 DEF Row
<1> HIDE DEF row
<1>3. QED
  BY <1>1, <1>2 DEF Age, TypeOK

LEMMA DieDoes ==
    ASSUME TypeOK, NEW t \in Task, Die(t)
    PROVE  UNCHANGED <<servers, kube, knows, watch>> /\ Ends(t) /\ "crash" \in Faults
  BY EndEnds DEF Die

LEMMA OutsideKeepsTaskInv ==
    ASSUME TypeOK, TaskInv, Outside
    PROVE  TypeOK' /\ TaskInv'
<1>1. \A s \in watch.todo \cup ({watch.at} \ {NoServer}) : servers[s].status # NoRow
  BY DEF TaskInv, Rows
<1>2. servers \in [Server -> Row] /\ kube \in [Server -> Deployment] /\ watch \in Pass
  BY DEF TypeOK
<1>3. ASSUME NEW s \in Server, PodsReady(s) \/ PodsBreak(s)
      PROVE  TypeOK' /\ TaskInv'
  BY <1>1, <1>2, <1>3, PodsDo, RestKeepsTaskInv
<1>4. ASSUME NEW s \in Server, Age(s)
      PROVE  TypeOK' /\ TaskInv'
  <2>1. \A r \in Server : servers'[r].status = NoRow => servers[r].status = NoRow
    BY <1>4, AgeDoes
  <2>2. QED
    BY <1>1, <1>2, <1>4, <2>1, AgeDoes, RestKeepsTaskInv
<1>5. ASSUME NEW t \in Task, Die(t)
      PROVE  TypeOK' /\ TaskInv'
  <2>1. UNCHANGED <<servers, kube, knows, watch>> /\ Others(t) /\ task'[t] = NoTask
    BY <1>5, DieDoes DEF Ends
  <2>2. Shape(task'[t]) /\ task'[t].server = NoServer
    BY <2>1 DEF Shape, NoTask, AllKinds
  <2>3. QED
    BY <2>1, <2>2, TasksKept DEF TypeOK, Others
<1>6. CASE WatcherDies
  BY <1>1, <1>2, <1>6, NoPassTyped, RestKeepsTaskInv DEF WatcherDies
<1>7. QED
  BY <1>3, <1>4, <1>5, <1>6 DEF Outside

LEMMA InitTaskInv == Init => TypeOK /\ TaskInv
<1> SUFFICES ASSUME Init PROVE TypeOK /\ TaskInv
  OBVIOUS
<1>1. SomeClient \in Client
  BY LifecycleConstants DEF SomeClient
<1>2. TypeOK
  BY <1>1, NoTaskTyped, NoPassTyped DEF Init, TypeOK, Row, Deployment
<1>3. \A t \in Task : Shape(task[t]) /\ task[t].server = NoServer
  BY DEF Init, Shape, NoTask, AllKinds
<1>4. watch.todo = {} /\ watch.at = NoServer
  BY NoPassTyped DEF Init
<1>5. QED
  BY <1>2, <1>3, <1>4 DEF TaskInv, Rows

\* What of a state comes from the variables alone stays when they do.
LEMMA NextKeepsTaskInv ==
    ASSUME TypeOK, TaskInv, [Next]_vars
    PROVE  TypeOK' /\ TaskInv'
<1>1. CASE UNCHANGED vars
  BY <1>1 DEF vars, TypeOK, TaskInv, Rows
<1>2. CASE Next
  BY <1>2, BeginKeepsTaskInv, StepKeepsTaskInv, WatchKeepsTaskInv, OutsideKeepsTaskInv DEF Next
<1>3. QED
  BY <1>1, <1>2

\* Rows, Deployments, tasks, what clients know and the watcher's pass have
\* their types, and no task is at a step its kind has not, whatever clients do
\* and whatever fails.
THEOREM TypesHold == Spec => [](TypeOK /\ TaskInv)
<1>1. QED
  BY InitTaskInv, NextKeepsTaskInv, PTL DEF Spec

-----------------------------------------------------------------------------
(* From hand to hand.                                                      *)

\* What happens to a row or a task makes no new holder, owner, or offer.
SameHands(t) ==
    /\ \A s \in Server : Has(task'[t], s) => Has(task[t], s)
    /\ Owning(task'[t]) =>
          /\ Owning(task[t])
          /\ task'[t].server = task[t].server /\ task'[t].client = task[t].client
SameRow(s) ==
    /\ servers'[s].owner = servers[s].owner
    /\ servers'[s].status \in {"FINISHED", NoRow} => servers[s].status = servers'[s].status

LEMMA QuietKeepsHandInv ==
    ASSUME TypeOK, TypeOK', HandInv, \A s \in Server : SameRow(s), \A t \in Task : SameHands(t),
           \A c \in Client : knows'[c] \subseteq knows[c]
    PROVE  HandInv'
<1>1. OneHolder'
  <2> SUFFICES ASSUME NEW s \in Server, NEW t \in Task, Has(task'[t], s)
               PROVE  /\ \A u \in Task : Has(task'[u], s) => u = t
                      /\ servers'[s].status # "FINISHED"
                      /\ \A c \in Client : s \notin knows'[c]
    BY DEF OneHolder, Holds
  <2>1. Has(task[t], s)
    BY DEF SameHands
  <2>2. QED
    BY <2>1 DEF HandInv, OneHolder, Holds, SameHands, SameRow
<1>2. KnownNotOffered'
  BY DEF HandInv, KnownNotOffered, SameRow, TypeOK
<1>3. StarterOwns'
  <2> SUFFICES ASSUME NEW t \in Task, Owning(task'[t])
               PROVE  servers'[task'[t].server].owner = task'[t].client
    BY DEF StarterOwns
  <2>1. /\ Owning(task[t]) /\ task'[t].server = task[t].server /\ task'[t].client = task[t].client
    BY DEF SameHands
  <2>2. task[t].server \in Server
    BY <2>1 DEF Owning, TypeOK, TaskState
  <2>3. QED
    BY <2>1, <2>2 DEF HandInv, StarterOwns, SameRow
<1>4. NotShared'
  BY DEF HandInv, NotShared, SameRow, TypeOK
<1>5. QED
  BY <1>1, <1>2, <1>3, <1>4 DEF HandInv

LEMMA TaskQuietKeepsHandInv ==
    ASSUME TypeOK, TypeOK', HandInv, NEW t \in Task, Others(t), SameHands(t),
           \A s \in Server : SameRow(s), \A c \in Client : knows'[c] \subseteq knows[c]
    PROVE  HandInv'
<1>1. \A u \in Task : SameHands(u)
  BY DEF Others, SameHands
<1>2. QED
  BY <1>1, QuietKeepsHandInv

\* A row that no task has, no client knows and no start or finish holds comes
\* into the hands of a start.
LEMMA TakenKeepsHandInv ==
    ASSUME TypeOK, TypeOK', HandInv, NEW t \in Task, Others(t), NEW s \in Server,
           task'[t].server = s, task'[t].kind = "start", knows' = knows,
           \A r \in Server \ {s} : SameRow(r),
           servers[s].status \in {"FINISHED", NoRow}, servers'[s].status \notin {"FINISHED", NoRow},
           \A u \in Task : ~Holds(u, s),
           Owning(task'[t]) => servers'[s].owner = task'[t].client
    PROVE  HandInv'
<1>1. \A c \in Client : s \notin knows[c]
  BY DEF HandInv, KnownNotOffered
<1>2. NoServer # s
  BY LifecycleConstants
<1>3. OneHolder'
  <2> SUFFICES ASSUME NEW r \in Server, NEW u \in Task, Has(task'[u], r)
               PROVE  /\ \A v \in Task : Has(task'[v], r) => v = u
                      /\ servers'[r].status # "FINISHED"
                      /\ \A c \in Client : r \notin knows'[c]
    BY DEF OneHolder, Holds
  <2>1. CASE r = s
    BY <1>1, <2>1 DEF Holds, Others
  <2>2. CASE r # s
    <3>1. u # t /\ Has(task[u], r)
      BY <2>2 DEF Others, Has
    <3>2. \A v \in Task : Has(task'[v], r) => Has(task[v], r)
      BY <2>2 DEF Others, Has
    <3>3. QED
      BY <2>2, <3>1, <3>2 DEF HandInv, OneHolder, Holds, SameRow
  <2>3. QED
    BY <2>1, <2>2
<1>4. KnownNotOffered'
  BY <1>1 DEF HandInv, KnownNotOffered, SameRow, TypeOK
<1>5. StarterOwns'
  <2> SUFFICES ASSUME NEW u \in Task, Owning(task'[u])
               PROVE  servers'[task'[u].server].owner = task'[u].client
    BY DEF StarterOwns
  <2>1. CASE u = t
    BY <2>1
  <2>2. CASE u # t
    <3>1. task'[u] = task[u] /\ task[u].server \in Server /\ ~Has(task[u], s)
      BY <2>2 DEF Others, Owning, TypeOK, TaskState, Holds
    <3>2. task[u].server # s
      BY <3>1 DEF Owning, Has
    <3>3. QED
      BY <3>1, <3>2 DEF HandInv, StarterOwns, SameRow
  <2>3. QED
    BY <2>1, <2>2
<1>6. NotShared'
  BY <1>1 DEF HandInv, NotShared, SameRow, TypeOK
<1>7. QED
  BY <1>3, <1>4, <1>5, <1>6 DEF HandInv

\* A server goes to its owner's new client: no other hand has it.
LEMMA TakeOverKeepsHandInv ==
    ASSUME TypeOK, TypeOK', TaskInv, HandInv, NEW t \in Task, TakeOver(t)
    PROVE  HandInv'
<1> DEFINE s == task[t].server
<1>1. /\ UNCHANGED <<kube, knows, watch>> /\ task[t].pc = "own" /\ s \in Server
      /\ \A r \in Server \ {s} : servers'[r] = servers[r]
      /\ servers'[s].owner = task[t].client /\ servers'[s].status = servers[s].status
      /\ Others(t) /\ task'[t].kind = task[t].kind /\ task'[t].client = task[t].client
      /\ task'[t].server = s
  BY TakeOverDoes DEF Moves
<1>2. task[t].kind = "start"
  BY <1>1, KindAt
<1>3. Holds(t, s)
  BY <1>2 DEF Holds, Has
<1>4. (\A c \in Client : s \notin knows[c]) /\ \A u \in Task : Holds(u, s) => u = t
  BY <1>1, <1>3 DEF HandInv, OneHolder
<1>5. OneHolder'
  <2>1. \A u \in Task, r \in Server : Has(task'[u], r) => Has(task[u], r)
    BY <1>1 DEF Others, Has
  <2>2. \A r \in Server : servers'[r].status = servers[r].status
    BY <1>1
  <2>3. QED
    BY <1>1, <2>1, <2>2 DEF HandInv, OneHolder, Holds
<1>6. KnownNotOffered'
  BY <1>1 DEF HandInv, KnownNotOffered, TypeOK
<1>7. StarterOwns'
  <2> SUFFICES ASSUME NEW u \in Task, Owning(task'[u])
               PROVE  servers'[task'[u].server].owner = task'[u].client
    BY DEF StarterOwns
  <2>1. CASE u = t
    BY <1>1, <2>1
  <2>2. CASE u # t
    <3>1. task'[u] = task[u] /\ task[u].server \in Server
      BY <1>1, <2>2 DEF Others, Owning, TypeOK, TaskState
    <3>2. task[u].server # s
      BY <1>4, <2>2, <3>1 DEF Owning, Holds, Has
    <3>3. QED
      BY <1>1, <3>1, <3>2 DEF HandInv, StarterOwns
  <2>3. QED
    BY <2>1, <2>2
<1>8. NotShared'
  BY <1>1, <1>4 DEF HandInv, NotShared, TypeOK
<1>9. QED
  BY <1>5, <1>6, <1>7, <1>8 DEF HandInv

\* The one start that held a server tells its owner, and lets go.
LEMMA ReportKeepsHandInv ==
    ASSUME TypeOK, TypeOK', TaskInv, HandInv, NEW t \in Task, Report(t)
    PROVE  HandInv'
<1> DEFINE s == task[t].server
           c == task[t].client
<1>1. /\ UNCHANGED <<servers, kube, watch>> /\ task[t].pc = "report" /\ s \in Server /\ c \in Client
      /\ Others(t) /\ task'[t] = NoTask /\ knows' = [knows EXCEPT ![c] = @ \cup {s}]
  BY ReportDoes DEF Ends
<1>2. task[t].kind = "start" /\ s # NoServer
  BY <1>1, KindAt, LifecycleConstants
<1>3. Holds(t, s) /\ Owning(task[t])
  BY <1>1, <1>2 DEF Holds, Has, Owning
<1>4. /\ \A d \in Client : s \notin knows[d]
      /\ \A u \in Task : Holds(u, s) => u = t
      /\ servers[s].status # "FINISHED" /\ servers[s].owner = c
  BY <1>1, <1>3 DEF HandInv, OneHolder, StarterOwns
<1>5. servers[s].status # NoRow
  BY <1>2 DEF TaskInv, Rows
<1>6. knows'[c] = knows[c] \cup {s} /\ \A d \in Client \ {c} : knows'[d] = knows[d]
  BY <1>1 DEF TypeOK
<1>7. \A u \in Task, r \in Server : Has(task'[u], r) => u # t /\ task'[u] = task[u]
  BY <1>1 DEF Others, Has, NoTask
<1>8. OneHolder'
  <2> SUFFICES ASSUME NEW r \in Server, NEW u \in Task, Has(task'[u], r)
               PROVE  /\ \A v \in Task : Has(task'[v], r) => v = u
                      /\ servers[r].status # "FINISHED"
                      /\ \A d \in Client : r \notin knows'[d]
    BY <1>1 DEF OneHolder, Holds
  <2>1. u # t /\ Has(task[u], r)
    BY <1>7
  <2>2. r # s
    BY <1>4, <2>1 DEF Holds
  <2>3. \A v \in Task : Has(task'[v], r) => Has(task[v], r)
    BY <1>7
  <2>4. QED
    BY <1>6, <2>1, <2>2, <2>3 DEF HandInv, OneHolder, Holds
<1>9. KnownNotOffered'
  BY <1>1, <1>4, <1>5, <1>6 DEF HandInv, KnownNotOffered
<1>10. StarterOwns'
  <2>1. \A u \in Task : Owning(task'[u]) => u # t /\ task'[u] = task[u]
    BY <1>1 DEF Others, Owning, NoTask
  <2>2. QED
    BY <1>1, <2>1 DEF HandInv, StarterOwns
<1>11. NotShared'
  BY <1>1, <1>4, <1>6 DEF HandInv, NotShared
<1>12. QED
  BY <1>8, <1>9, <1>10, <1>11 DEF HandInv

\* A finish offers what it alone held.
LEMMA FinishKeepsHandInv ==
    ASSUME TypeOK, TypeOK', TaskInv, HandInv, NEW t \in Task, WriteRow(t), task[t].kind = "finish"
    PROVE  HandInv'
<1> DEFINE s == task[t].server
<1>1. /\ UNCHANGED <<kube, knows, watch>> /\ s \in Server
      /\ \A r \in Server \ {s} : servers'[r] = servers[r]
      /\ servers'[s].owner = servers[s].owner
      /\ servers'[s].status \in {servers[s].status, task[t].write}
      /\ Others(t) /\ task'[t] = NoTask
  BY WriteRowDoes DEF WrittenTo, Ends
<1>2. Holds(t, s)
  BY DEF Holds, Has
<1>3. (\A c \in Client : s \notin knows[c]) /\ \A u \in Task : Holds(u, s) => u = t
  BY <1>1, <1>2 DEF HandInv, OneHolder
<1>4. \A u \in Task : Owning(task'[u]) => u # t /\ task'[u] = task[u]
  BY <1>1 DEF Others, Owning, NoTask
<1>5. \A u \in Task, r \in Server : Has(task'[u], r) => u # t /\ task'[u] = task[u] /\ r # s
  BY <1>1, <1>3 DEF Others, Has, NoTask, Holds
<1>6. OneHolder'
  BY <1>1, <1>5 DEF HandInv, OneHolder, Holds
<1>7. KnownNotOffered'
  BY <1>1, <1>3 DEF HandInv, KnownNotOffered, TypeOK
<1>8. StarterOwns'
  <2>1. \A u \in Task : Owning(task[u]) => task[u].server \in Server
    BY DEF Owning, TypeOK, TaskState
  <2>2. QED
    BY <1>1, <1>4, <2>1 DEF HandInv, StarterOwns
<1>9. NotShared'
  BY <1>1, <1>3 DEF HandInv, NotShared, TypeOK
<1>10. QED
  BY <1>6, <1>7, <1>8, <1>9 DEF HandInv

LEMMA MovesSameHands ==
    ASSUME NEW t \in Task, NEW pc, NEW write, Moves(t, pc, write),
           \/ task[t].kind # "start" \/ task[t].reuse = "NONE"
           \/ task[t].pc \in {"read", "write", "report"} \/ pc \notin {"read", "write", "report"}
    PROVE  Others(t) /\ SameHands(t)
  BY DEF Moves, SameHands, Has, Owning

LEMMA EndsSameHands == ASSUME NEW t \in Task, Ends(t) PROVE Others(t) /\ SameHands(t)
  BY DEF Ends, SameHands, Has, Owning, NoTask

LEMMA StepKeepsHandInv ==
    ASSUME TypeOK, TypeOK', TaskInv, HandInv, NEW t \in Task, Step(t)
    PROVE  HandInv'
<1> DEFINE Quiet == Others(t) /\ SameHands(t)
<1>0. /\ task[t] \in TaskState
      /\ servers' = servers => \A s \in Server : SameRow(s)
      /\ knows' = knows => \A c \in Client : knows'[c] \subseteq knows[c]
  BY DEF TypeOK, SameRow
<1>1. ASSUME Quiet, servers' = servers, knows' = knows
      PROVE  HandInv'
  BY <1>0, <1>1, TaskQuietKeepsHandInv
<1>2. WrittenTo(t) /\ task[t].pc \in {"read", "write"} => Quiet
  BY MovesSameHands, EndsSameHands DEF WrittenTo
<1>3. ReadyTo(t) => Quiet
  BY MovesSameHands DEF ReadyTo
<1>4. FailsTo(t) => Quiet
  BY MovesSameHands, EndsSameHands DEF FailsTo
<1>5. CASE ReadRow(t)
  <2>1. UNCHANGED <<servers, kube, knows, watch>> /\ task[t].pc = "read"
        /\ (WrittenTo(t) \/ Moves(t, "write", task[t].write))
    BY <1>5, ReadRowDoes
  <2>2. Quiet
    BY <1>2, <2>1, MovesSameHands
  <2>3. QED
    BY <1>1, <2>1, <2>2
<1>6. CASE WriteRow(t)
  <2>1. CASE task[t].kind = "finish"
    BY <1>6, <2>1, FinishKeepsHandInv
  <2>2. CASE task[t].kind # "finish"
    <3>1. /\ UNCHANGED <<kube, knows, watch>> /\ task[t].pc = "write" /\ WrittenTo(t)
          /\ \A s \in Server \ {task[t].server} : servers'[s] = servers[s]
          /\ servers'[task[t].server].owner = servers[task[t].server].owner
          /\ servers'[task[t].server].status \in {servers[task[t].server].status, task[t].write}
      BY <1>6, WriteRowDoes
    <3>2. task[t].write \notin {"FINISHED", NoRow}
      BY <2>2, <3>1, KindAt DEF Shape, StartShape, AllKinds, NoRow
    <3>3. \A s \in Server : SameRow(s)
      BY <3>1, <3>2 DEF SameRow
    <3>4. Quiet
      BY <1>2, <3>1
    <3>5. QED
      BY <1>0, <3>1, <3>3, <3>4, TaskQuietKeepsHandInv
  <2>3. QED
    BY <2>1, <2>2
<1>7. ASSUME NEW s \in Server, Claim(t, s)
      PROVE  HandInv'
  <2>1. /\ UNCHANGED <<kube, knows, watch>> /\ task[t].pc = "find"
        /\ servers[s].status = "FINISHED" /\ servers'[s].status = "REUSED"
        /\ \A r \in Server \ {s} : servers'[r] = servers[r]
        /\ Others(t) /\ task'[t].kind = task[t].kind /\ task'[t].client = task[t].client
        /\ task'[t].server = s /\ task'[t].reuse = task[t].reuse /\ task'[t].pc \in {"pods", "own"}
    BY <1>7, ClaimDoes
  <2>2. task[t].kind = "start" /\ task[t].reuse # "NONE"
    BY <2>1, KindAt DEF Shape, StartShape
  <2>3. (\A u \in Task : ~Holds(u, s)) /\ ~Owning(task'[t])
    BY <2>1, <2>2 DEF HandInv, OneHolder, Owning
  <2>4. \A r \in Server \ {s} : SameRow(r)
    BY <2>1 DEF SameRow
  <2>5. servers'[s].status \notin {"FINISHED", NoRow}
    BY <2>1 DEF NoRow
  <2>6. QED
    BY <2>1, <2>2, <2>3, <2>4, <2>5, TakenKeepsHandInv
<1>8. ASSUME NEW s \in Server, Reserve(t, s)
      PROVE  HandInv'
  <2>1. /\ UNCHANGED <<kube, knows, watch>> /\ task[t].pc = "reserve" /\ servers[s].status = NoRow
        /\ servers'[s] = [status |-> "ALIVE", owner |-> task[t].client, fresh |-> TRUE]
        /\ \A r \in Server \ {s} : servers'[r] = servers[r]
        /\ Others(t) /\ task'[t].kind = task[t].kind /\ task'[t].client = task[t].client
        /\ task'[t].server = s
    BY <1>8, ReserveDoes
  <2>2. task[t].kind = "start"
    BY <2>1, KindAt
  <2>3. \A u \in Task : ~Holds(u, s)
    BY <2>1, LifecycleConstants DEF TaskInv, Rows, Holds, Has
  <2>4. \A r \in Server \ {s} : SameRow(r)
    BY <2>1 DEF SameRow
  <2>5. servers'[s].status = "ALIVE" /\ servers'[s].owner = task'[t].client
    BY <2>1
  <2>6. servers'[s].status \notin {"FINISHED", NoRow}
    BY <2>5 DEF NoRow
  <2>7. QED
    BY <2>1, <2>2, <2>3, <2>4, <2>5, <2>6, TakenKeepsHandInv
<1>9. CASE FindNone(t)
  <2>1. /\ UNCHANGED <<servers, kube, knows, watch>> /\ task[t].pc = "find" /\ Others(t)
        /\ task'[t].kind = task[t].kind /\ task'[t].server = task[t].server
    BY <1>9, FindNoneDoes
  <2>2. task[t].server = NoServer
    BY <2>1, KindAt DEF Shape, StartShape
  <2>3. Quiet
    BY <2>1, <2>2, LifecycleConstants DEF SameHands, Has, Owning
  <2>4. QED
    BY <1>1, <2>1, <2>3
<1>10. CASE Refuse(t)
  BY <1>1, <1>10, EndEnds, EndsSameHands DEF Refuse
<1>11. CASE Deploy(t)
  BY <1>1, <1>11, DeployDoes, MovesSameHands
<1>12. CASE RestartPods(t)
  BY <1>1, <1>3, <1>4, <1>12, RestartPodsDoes, MovesSameHands
<1>13. CASE AwaitPods(t)
  BY <1>1, <1>3, <1>4, <1>13, AwaitPodsDoes
<1>14. CASE TakeOver(t)
  BY <1>14, TakeOverKeepsHandInv
<1>15. CASE Cleanup(t)
  <2>1. task[t].kind = "start" /\ task[t].reuse = "NONE"
    BY <1>15, CleanupDoes, KindAt DEF Shape, StartShape
  <2>2. QED
    BY <1>1, <1>15, <2>1, CleanupDoes, MovesSameHands
<1>16. CASE Report(t)
  BY <1>16, ReportKeepsHandInv
<1>17. CASE Delete(t)
  <2>1. task[t].kind # "start"
    BY <1>17, DeleteDoes, KindAt
  <2>2. QED
    BY <1>1, <1>17, <2>1, DeleteDoes, MovesSameHands, EndsSameHands
<1>18. CASE Settle(t)
  <2>1. \A s \in Server : SameRow(s)
    BY <1>18, SettleDoes DEF SameRow, NoRow
  <2>2. QED
    BY <1>0, <1>18, <2>1, SettleDoes, EndsSameHands, TaskQuietKeepsHandInv
<1>19. CASE Call(t)
  <2>1. task[t].kind # "start"
    BY <1>19, CallDoes, KindAt
  <2>2. QED
    BY <1>1, <1>19, <2>1, CallDoes, MovesSameHands, EndsSameHands
<1>20. QED
  BY <1>5, <1>6, <1>7, <1>8, <1>9, <1>10, <1>11, <1>12, <1>13, <1>14, <1>15, <1>16, <1>17, <1>18, <1>19
     DEF Step

\* A finish takes the server out of its client's hands; nobody else knew it.
LEMMA BeginKeepsHandInv ==
    ASSUME TypeOK, TypeOK', TaskInv, HandInv, Orderly, NEW t \in Task, Begin(t)
    PROVE  HandInv'
<1>1. /\ UNCHANGED <<servers, kube, watch>> /\ Others(t)
      /\ \A c \in Client : knows'[c] \subseteq knows[c]
      /\ \/ OpensStart(t)
         \/ \E c \in Client, s \in Server : OpensOwn(t, c, s)
         \/ \E s \in Server : OpensOrphan(t, s)
  BY BeginDoes
<1>2. \A s \in Server : SameRow(s)
  BY <1>1 DEF SameRow
<1>3. CASE task'[t].kind # "finish"
  <2>1. task'[t].kind = "start" => task'[t].server = NoServer
    BY <1>1, <1>3 DEF OpensStart, OpensOwn, OpensOrphan
  <2>2. SameHands(t)
    BY <1>3, <2>1, LifecycleConstants DEF SameHands, Has, Owning
  <2>3. QED
    BY <1>1, <1>2, <2>2, TaskQuietKeepsHandInv
<1>4. CASE task'[t].kind = "finish"
  <2>1. PICK c \in Client, s \in Server : OpensOwn(t, c, s)
    BY <1>1, <1>4 DEF OpensStart, OpensOrphan
  <2>2. task'[t].server = s /\ s \in knows[c] /\ knows' = [knows EXCEPT ![c] = @ \ {s}]
    BY <1>4, <2>1 DEF OpensOwn, LetsGo, Asks
  <2>3. /\ \A d \in Client : s \notin knows'[d]
        /\ servers[s].status # "FINISHED" /\ \A u \in Task : ~Holds(u, s)
    BY <2>2 DEF HandInv, NotShared, KnownNotOffered, OneHolder, TypeOK
  <2>4. \A u \in Task, r \in Server :
            Has(task'[u], r) => IF u = t THEN r = s ELSE r # s /\ task'[u] = task[u]
    BY <1>1, <2>2, <2>3 DEF Others, Has, Holds
  <2>5. OneHolder'
    BY <1>1, <2>3, <2>4 DEF HandInv, OneHolder, Holds
  <2>6. KnownNotOffered' /\ NotShared'
    BY <1>1 DEF HandInv, KnownNotOffered, NotShared
  <2>7. StarterOwns'
    <3>1. \A u \in Task : Owning(task'[u]) => task'[u] = task[u]
      BY <1>1, <1>4 DEF Others, Owning
    <3>2. QED
      BY <1>1, <3>1 DEF HandInv, StarterOwns
  <2>8. QED
    BY <2>5, <2>6, <2>7 DEF HandInv
<1>5. QED
  BY <1>3, <1>4

LEMMA RestKeepsHandInv ==
    ASSUME TypeOK, TypeOK', TaskInv, HandInv, Watch \/ Outside
    PROVE  HandInv'
<1>1. ASSUME task' = task, knows' = knows, \A s \in Server : SameRow(s)
      PROVE  HandInv'
  BY <1>1, QuietKeepsHandInv DEF SameHands
<1>2. ASSUME UNCHANGED <<servers, task, knows>>
      PROVE  HandInv'
  BY <1>1, <1>2 DEF SameRow
<1>3. CASE WatchMark
  <2>1. watch.mark \notin {"FINISHED", NoRow}
    BY DEF TypeOK, Pass, NoRow
  <2>2. QED
    BY <1>1, <1>3, <2>1, WatchMarkDoes DEF SameRow
<1>4. CASE WatchBegin \/ WatchPods \/ WatchList \/ WatchProbe \/ WatchEnd
           \/ \E s \in Server : WatchRemove(s)
  BY <1>2, <1>4 DEF WatchBegin, WatchPods, WatchList, WatchProbe, WatchEnd, WatchRemove
<1>5. ASSUME NEW s \in Server, PodsReady(s) \/ PodsBreak(s) \/ Age(s)
      PROVE  HandInv'
  BY <1>1, <1>2, <1>5, PodsDo, AgeDoes DEF SameRow
<1>6. ASSUME NEW t \in Task, Die(t)
      PROVE  HandInv'
  BY <1>6, DieDoes, EndsSameHands, TaskQuietKeepsHandInv DEF SameRow
<1>7. CASE WatcherDies
  BY <1>2, <1>7 DEF WatcherDies
<1>8. QED
  BY <1>3, <1>4, <1>5, <1>6, <1>7 DEF Watch, Outside

LEMMA InitHandInv == Init => HandInv
<1> SUFFICES ASSUME Init PROVE HandInv
  OBVIOUS
<1>1. \A t \in Task : task[t].server = NoServer /\ task[t].kind = "none"
  BY DEF Init, NoTask
<1>2. OneHolder /\ StarterOwns
  BY <1>1, LifecycleConstants DEF OneHolder, StarterOwns, Owning, Holds, Has
<1>3. KnownNotOffered /\ NotShared
  BY DEF Init, KnownNotOffered, NotShared
<1>4. QED
  BY <1>2, <1>3 DEF HandInv

LEMMA NextKeepsHandInv ==
    ASSUME TypeOK, TaskInv, HandInv, Orderly, [Next]_vars
    PROVE  HandInv'
<1>1. TypeOK' /\ TaskInv'
  BY NextKeepsTaskInv
<1>2. CASE UNCHANGED vars
  BY <1>1, <1>2
     DEF vars, HandInv, OneHolder, KnownNotOffered, StarterOwns, NotShared, Holds
<1>3. CASE Next
  BY <1>1, <1>3, BeginKeepsHandInv, StepKeepsHandInv, RestKeepsHandInv DEF Next
<1>4. QED
  BY <1>2, <1>3

\* The client that was told of a server owns it, and no other was told of it,
\* whatever fails, dies or is slow, as long as clients let go of what they
\* finish and ask one thing at a time.
THEOREM NotSharedHolds == ASSUME Orderly PROVE Spec => []NotShared
<1> DEFINE Inv == TypeOK /\ TaskInv /\ HandInv
<1>1. Init => Inv
  BY InitTaskInv, InitHandInv
<1>2. Inv /\ [Next]_vars => Inv'
  BY NextKeepsTaskInv, NextKeepsHandInv
<1>3. Inv => NotShared
  BY DEF HandInv
<1>4. QED
  BY <1>1, <1>2, <1>3, PTL DEF Spec

-----------------------------------------------------------------------------
(* Deployments.                                                            *)

GivenUp == QuotaReleasing \ {"RESTART_FAILED"}

\* The server r of a new row: nobody else is at work on it.
Untouched(t, r) ==
    (\A u \in Task \ {t} : task[u].server # r) /\ watch.at # r

\* A task's step concerns one server r at most.  What it must not do to r.
Concerns(t, r) ==
    /\ Others(t) /\ task'[t].server \in {r, NoServer} /\ watch' = watch
    /\ \A s \in Server \ {r} : servers'[s] = servers[s] /\ kube'[s] = kube[s]
    /\ \A u \in Task \ {t} : task[u].pc = "deploy" => task[u].server # r
RowKept(r) ==
    /\ servers'[r].status = NoRow => servers[r].status = NoRow /\ kube'[r] = "none"
    /\ kube[r] = "none" => kube'[r] = "none"
    /\ kube'[r] # "none" /\ servers'[r].status \in GivenUp => servers[r].status \in GivenUp
TaskKept(t, r) ==
    /\ task[t].pc \in {"cleanup", "delete"} => kube'[task[t].server] = "none"
    /\ task'[t].pc = "deploy" =>
          /\ servers'[r].status = "ALIVE" /\ servers'[r].fresh /\ kube'[r] = "none"
          /\ Untouched(t, r) /\ r \notin watch.todo /\ task'[t].server = r
    /\ task'[t].pc = "settle" \/ task'[t].write = "FAILED_TO_START" =>
          kube'[r] = "none" /\ task'[t].server = r

LEMMA TaskKeepsKubeInv ==
    ASSUME TypeOK, TypeOK', TaskInv, TaskInv', KubeInv, NEW t \in Task, NEW r \in Server \cup {NoServer},
           Concerns(t, r), TaskKept(t, r),
           r \in Server =>
              \/ RowKept(r)
              \/ /\ servers'[r].status = "ALIVE" /\ Untouched(t, r)
              \/ /\ task'[t].server = r /\ task'[t].pc = "delete"
                 /\ servers'[r].status # NoRow /\ kube' = kube
    PROVE  KubeInv'
<1>1. ASSUME NEW s \in Server, kube[s] = "none", kube'[s] # "none"
      PROVE  s = r /\ servers'[r].status = "ALIVE" /\ Untouched(t, r)
  BY <1>1 DEF Concerns, RowKept
<1>2. DeployAlone'
  <2> SUFFICES ASSUME NEW u \in Task, task'[u].pc = "deploy"
               PROVE  /\ servers'[task'[u].server].status = "ALIVE" /\ servers'[task'[u].server].fresh
                      /\ kube'[task'[u].server] = "none"
                      /\ \A v \in Task \ {u} : task'[v].server # task'[u].server
                      /\ watch.at # task'[u].server
                      /\ task'[u].server \in watch.todo => watch.phase = "pods"
    BY DEF DeployAlone, Concerns
  <2>1. CASE u = t
    BY <2>1 DEF Concerns, TaskKept, Untouched, Others
  <2>2. CASE u # t
    <3>1. task'[u] = task[u] /\ task[u].pc = "deploy" /\ task[u].server # r
      BY <2>2 DEF Concerns, Others
    <3>2. task[u].server \in Server
      BY <3>1, Served
    <3>3. /\ servers[task[u].server].status = "ALIVE" /\ servers[task[u].server].fresh
          /\ kube[task[u].server] = "none"
          /\ \A v \in Task \ {u} : task[v].server # task[u].server
          /\ watch.at # task[u].server
          /\ task[u].server \in watch.todo => watch.phase = "pods"
      BY <3>1 DEF KubeInv, DeployAlone
    <3>4. \A v \in Task \ {u} : task'[v].server # task[u].server
      BY <3>1, <3>2, <3>3, LifecycleConstants DEF Concerns, Others
    <3>5. QED
      BY <3>1, <3>2, <3>3, <3>4 DEF Concerns
  <2>3. QED
    BY <2>1, <2>2
<1>3. TornDown'
  <2>1. watch.at # NoServer => kube'[watch.at] = "none"
    <3>1. watch.at # NoServer => watch.at \in Server /\ kube[watch.at] = "none"
      BY DEF KubeInv, TornDown, TypeOK, Pass
    <3>2. QED
      BY <1>1, <3>1 DEF Untouched
  <2>2. ASSUME NEW u \in Task, task'[u].pc = "settle" \/ task'[u].write = "FAILED_TO_START"
        PROVE  kube'[task'[u].server] = "none"
    <3>1. CASE u = t
      BY <2>2, <3>1 DEF TaskKept
    <3>2. CASE u # t
      <4>1. task'[u] = task[u]
        BY <3>2 DEF Concerns, Others
      <4>2. task[u].server \in Server /\ kube[task[u].server] = "none"
        BY <2>2, <4>1 DEF KubeInv, TornDown, TaskInv, Shape, StartShape, TypeOK, TaskState, AllKinds, NoTask
      <4>3. QED
        BY <1>1, <3>2, <4>1, <4>2 DEF Untouched
    <3>3. QED
      BY <3>1, <3>2
  <2>3. QED
    BY <2>1, <2>2 DEF TornDown, Concerns
<1>4. RowlessBare'
  <2> SUFFICES ASSUME NEW s \in Server, servers'[s].status = NoRow PROVE kube'[s] = "none"
    BY DEF RowlessBare
  <2>1. CASE s = r
    BY <2>1 DEF RowKept, NoRow
  <2>2. CASE s # r
    BY <2>2 DEF Concerns, KubeInv, RowlessBare
  <2>3. QED
    BY <2>1, <2>2
<1>5. NoOrphan'
  <2> SUFFICES ASSUME NEW s \in Server, kube'[s] # "none", servers'[s].status \in GivenUp
               PROVE  \E u \in Task : task'[u].server = s /\ task'[u].pc \in {"cleanup", "delete"}
    BY DEF NoOrphan, Removing, GivenUp
  <2>1. CASE s = r /\ task'[t].server = r /\ task'[t].pc = "delete"
    BY <2>1
  <2>2. CASE ~(s = r /\ task'[t].server = r /\ task'[t].pc = "delete")
    <3>1. servers'[s].status # "ALIVE"
      BY DEF GivenUp, QuotaReleasing
    <3>2. kube[s] # "none"
      BY <1>1, <3>1
    <3>3. servers[s].status \in GivenUp
      BY <2>2, <3>1 DEF Concerns, RowKept
    <3>4. PICK u \in Task : task[u].server = s /\ task[u].pc \in {"cleanup", "delete"}
      BY <3>2, <3>3 DEF KubeInv, NoOrphan, Removing, GivenUp
    <3>5. u # t
      BY <3>4 DEF TaskKept
    <3>6. task'[u] = task[u]
      BY <3>5 DEF Concerns, Others
    <3>7. QED
      BY <3>4, <3>6
  <2>3. QED
    BY <2>1, <2>2
<1>6. QED
  BY <1>2, <1>3, <1>4, <1>5 DEF KubeInv

LEMMA OwnConcerns ==
    ASSUME TypeOK, TaskInv, KubeInv, NEW t \in Task, Others(t),
           task'[t].server \in {task[t].server, NoServer}, watch' = watch,
           \A s \in Server \ {task[t].server} : servers'[s] = servers[s] /\ kube'[s] = kube[s]
    PROVE  Concerns(t, task[t].server)
<1>1. ASSUME NEW u \in Task \ {t}, task[u].pc = "deploy" PROVE task[u].server # task[t].server
  BY <1>1 DEF KubeInv, DeployAlone
<1>2. QED
  BY <1>1 DEF Concerns

LEMMA SameRowKept ==
    ASSUME TypeOK, KubeInv, NEW r \in Server, servers'[r] = servers[r],
           kube'[r] \in {kube[r], "none"} \/ kube[r] # "none"
    PROVE  RowKept(r)
  BY DEF RowKept, KubeInv, RowlessBare

\* Steps that leave rows and Deployments alone and go on to nothing that follows
\* a Deployment's removal.
LEMMA PlainKept ==
    ASSUME TypeOK, TaskInv, KubeInv, NEW t \in Task, task[t].pc \notin {"cleanup", "delete"},
           \/ Ends(t)
           \/ /\ task'[t].pc \notin {"deploy", "settle"} /\ task'[t].server = task[t].server
              /\ task'[t].write \in {"ALIVE", "RESTART_FAILED", "STOPPED", task[t].write},
           task[t].write = "FAILED_TO_START" =>
                kube'[task[t].server] \in {kube[task[t].server], "none"}
    PROVE  TaskKept(t, task[t].server)
<1>1. CASE Ends(t)
  BY <1>1 DEF Ends, TaskKept, NoTask
<1>2. CASE task'[t].pc \notin {"deploy", "settle"} /\ task'[t].server = task[t].server
           /\ task'[t].write \in {"ALIVE", "RESTART_FAILED", "STOPPED", task[t].write}
  <2>1. task[t].write = "FAILED_TO_START" => kube[task[t].server] = "none"
    BY DEF KubeInv, TornDown
  <2>2. QED
    BY <1>2, <2>1 DEF TaskKept
<1>3. QED
  BY <1>1, <1>2

LEMMA StepKeepsKubeInv ==
    ASSUME TypeOK, TypeOK', TaskInv, TaskInv', KubeInv, "api" \notin Faults, NEW t \in Task, Step(t)
    PROVE  KubeInv'
<1> DEFINE r == task[t].server
           Goes == \/ Ends(t)
                   \/ /\ task'[t].pc \notin {"deploy", "settle"} /\ task'[t].server = r
                      /\ task'[t].write \in {"ALIVE", "RESTART_FAILED", "STOPPED", task[t].write}
<1>0. r \in Server \cup {NoServer} /\ task[t] \in TaskState
  BY DEF TypeOK, TaskState
<1>1. WrittenTo(t) => Goes
  BY DEF WrittenTo, Moves
<1>2. ReadyTo(t) => Goes
  BY DEF ReadyTo, Moves
<1>3. FailsTo(t) => Goes
  BY DEF FailsTo, Moves
<1>4. Ends(t) => Others(t) /\ task'[t].server = NoServer
  BY DEF Ends, NoTask
<1>5. ASSUME UNCHANGED <<servers, kube, watch>>, Others(t), Goes, task[t].pc \notin {"cleanup", "delete"}
      PROVE  KubeInv'
  <2>1. Concerns(t, r)
    BY <1>4, <1>5, OwnConcerns
  <2>2. TaskKept(t, r)
    BY <1>5, PlainKept
  <2>3. r \in Server => RowKept(r)
    BY <1>5, SameRowKept
  <2>4. QED
    BY <1>0, <2>1, <2>2, <2>3, TaskKeepsKubeInv
<1>6. /\ WrittenTo(t) => Others(t)
      /\ ReadyTo(t) => Others(t)
      /\ FailsTo(t) => Others(t)
  BY <1>4 DEF WrittenTo, ReadyTo, FailsTo, Moves
<1>7. CASE ReadRow(t)
  <2>1. UNCHANGED <<servers, kube, knows, watch>> /\ task[t].pc = "read"
        /\ (WrittenTo(t) \/ Moves(t, "write", task[t].write))
    BY <1>7, ReadRowDoes
  <2>2. Others(t) /\ Goes
    BY <1>1, <1>6, <2>1 DEF Moves
  <2>3. QED
    BY <1>5, <2>1, <2>2
<1>8. CASE WriteRow(t)
  <2>1. /\ UNCHANGED <<kube, knows, watch>> /\ task[t].pc = "write" /\ WrittenTo(t) /\ r \in Server
        /\ \A s \in Server \ {r} : servers'[s] = servers[s]
        /\ servers'[r].status \in {servers[r].status, task[t].write}
    BY <1>8, WriteRowDoes
  <2>2. Concerns(t, r)
    BY <1>1, <1>4, <1>6, <2>1, OwnConcerns
  <2>3. TaskKept(t, r)
    BY <1>1, <2>1, PlainKept
  <2>4. CASE task[t].kind = "stop" /\ task[t].write = "STOPPED"
    <3>1. task'[t].server = r /\ task'[t].pc = "delete"
      BY <2>1, <2>4 DEF WrittenTo, Moves
    <3>2. servers'[r].status # NoRow
      BY <1>0, <2>1, <2>4, <3>1, LifecycleConstants DEF TaskInv, Rows, NoRow
    <3>3. QED
      BY <1>0, <2>1, <2>2, <2>3, <3>1, <3>2, TaskKeepsKubeInv
  <2>5. CASE ~(task[t].kind = "stop" /\ task[t].write = "STOPPED")
    <3>1. task[t].write \in GivenUp => task[t].write = "FAILED_TO_START"
      BY <2>1, <2>5, KindAt DEF Shape, StartShape, AllKinds, GivenUp, QuotaReleasing
    <3>2. task[t].write = "FAILED_TO_START" => kube[r] = "none"
      BY DEF KubeInv, TornDown
    <3>3. task[t].write # NoRow
      BY <1>0 DEF TaskState, AvailabilityStatus, NoRow
    <3>4. RowKept(r)
      BY <2>1, <3>1, <3>2, <3>3 DEF RowKept, KubeInv, RowlessBare
    <3>5. QED
      BY <1>0, <2>2, <2>3, <3>4, TaskKeepsKubeInv
  <2>6. QED
    BY <2>4, <2>5
<1>9. ASSUME NEW s \in Server, Claim(t, s)
      PROVE  KubeInv'
  <2>1. /\ UNCHANGED <<kube, knows, watch>> /\ task[t].pc = "find"
        /\ servers[s].status = "FINISHED" /\ servers'[s].status = "REUSED"
        /\ \A q \in Server \ {s} : servers'[q] = servers[q]
        /\ Others(t) /\ task'[t].server = s /\ task'[t].pc \in {"pods", "own"}
        /\ task'[t].write = task[t].write
    BY <1>9, ClaimDoes
  <2>2. \A u \in Task \ {t} : task[u].pc = "deploy" => task[u].server # s
    BY <2>1 DEF KubeInv, DeployAlone
  <2>3. Concerns(t, s)
    BY <2>1, <2>2 DEF Concerns
  <2>4. task[t].write = "ALIVE"
    BY <2>1, KindAt DEF Shape, StartShape
  <2>5. TaskKept(t, s)
    BY <2>1, <2>4 DEF TaskKept
  <2>6. RowKept(s)
    BY <2>1 DEF RowKept, GivenUp, QuotaReleasing, NoRow
  <2>7. QED
    BY <2>3, <2>5, <2>6, TaskKeepsKubeInv
<1>10. ASSUME NEW s \in Server, Reserve(t, s)
       PROVE  KubeInv'
  <2>1. /\ UNCHANGED <<kube, knows, watch>> /\ task[t].pc = "reserve" /\ servers[s].status = NoRow
        /\ servers'[s] = [status |-> "ALIVE", owner |-> task[t].client, fresh |-> TRUE]
        /\ \A q \in Server \ {s} : servers'[q] = servers[q]
        /\ Others(t) /\ task'[t].server = s /\ task'[t].pc = "deploy"
        /\ task'[t].write = task[t].write
    BY <1>10, ReserveDoes
  <2>2. Untouched(t, s) /\ s \notin watch.todo
    BY <2>1, LifecycleConstants DEF TaskInv, Rows, Untouched
  <2>3. Concerns(t, s)
    BY <2>1, <2>2 DEF Concerns, Untouched
  <2>4. task[t].write = "ALIVE" /\ servers'[s].status = "ALIVE" /\ servers'[s].fresh /\ kube[s] = "none"
    BY <2>1, KindAt DEF Shape, StartShape, KubeInv, RowlessBare
  <2>5. TaskKept(t, s)
    BY <2>1, <2>2, <2>4 DEF TaskKept
  <2>6. QED
    BY <2>2, <2>3, <2>4, <2>5, TaskKeepsKubeInv
<1>11. CASE FindNone(t)
  <2>1. /\ UNCHANGED <<servers, kube, knows, watch>> /\ task[t].pc = "find" /\ Others(t)
        /\ task'[t].server = r /\ task'[t].pc = "reserve" /\ task'[t].write = task[t].write
    BY <1>11, FindNoneDoes
  <2>2. QED
    BY <1>5, <2>1
<1>12. CASE Refuse(t)
  BY <1>4, <1>5, <1>12, EndEnds DEF Refuse
<1>13. CASE Deploy(t)
  <2>1. /\ UNCHANGED <<servers, knows, watch>> /\ task[t].pc = "deploy" /\ r \in Server
        /\ \A s \in Server \ {r} : kube'[s] = kube[s]
        /\ Others(t) /\ task'[t].server = r /\ task'[t].pc \in {"wait", "cleanup"}
        /\ task'[t].write = task[t].write
    BY <1>13, DeployDoes DEF Moves
  <2>2. servers'[r].status = "ALIVE" /\ Untouched(t, r)
    BY <2>1 DEF KubeInv, DeployAlone, Untouched
  <2>3. Concerns(t, r)
    BY <2>1, OwnConcerns
  <2>4. task[t].write = "ALIVE"
    BY <2>1, KindAt DEF Shape, StartShape
  <2>5. TaskKept(t, r)
    BY <2>1, <2>4 DEF TaskKept
  <2>6. QED
    BY <1>0, <2>2, <2>3, <2>5, TaskKeepsKubeInv
<1>14. CASE RestartPods(t)
  <2>1. /\ UNCHANGED <<servers, knows, watch>> /\ task[t].pc = "pods" /\ r \in Server
        /\ \A s \in Server \ {r} : kube'[s] = kube[s]
        /\ kube[r] = "none" <=> kube'[r] = "none"
        /\ ReadyTo(t) \/ Moves(t, "wait", task[t].write) \/ FailsTo(t)
    BY <1>14, RestartPodsDoes
  <2>2. Others(t) /\ Goes
    BY <1>2, <1>3, <1>6, <2>1 DEF Moves
  <2>3. Concerns(t, r)
    BY <1>4, <2>1, <2>2, OwnConcerns
  <2>4. TaskKept(t, r)
    <3>1. task[t].write # "FAILED_TO_START"
      BY <2>1, KindAt DEF Shape, StartShape, AllKinds
    <3>2. QED
      BY <2>1, <2>2, <3>1, PlainKept
  <2>5. RowKept(r)
    BY <2>1, SameRowKept
  <2>6. QED
    BY <1>0, <2>3, <2>4, <2>5, TaskKeepsKubeInv
<1>15. CASE AwaitPods(t)
  <2>1. /\ UNCHANGED <<servers, kube, knows, watch>> /\ task[t].pc = "wait"
        /\ ReadyTo(t) \/ FailsTo(t)
    BY <1>15, AwaitPodsDoes
  <2>2. Others(t) /\ Goes
    BY <1>2, <1>3, <1>6, <2>1
  <2>3. QED
    BY <1>5, <2>1, <2>2
<1>16. CASE TakeOver(t)
  <2>1. /\ UNCHANGED <<kube, knows, watch>> /\ task[t].pc = "own" /\ r \in Server
        /\ \A s \in Server \ {r} : servers'[s] = servers[s]
        /\ servers'[r].status = servers[r].status
        /\ Moves(t, "report", task[t].write) \/ Moves(t, "read", "ALIVE")
    BY <1>16, TakeOverDoes
  <2>2. Others(t) /\ Goes /\ task'[t].server = r
    BY <2>1 DEF Moves
  <2>3. Concerns(t, r)
    BY <2>1, <2>2, OwnConcerns
  <2>4. TaskKept(t, r)
    BY <2>1, <2>2, PlainKept
  <2>5. RowKept(r)
    BY <2>1 DEF RowKept, KubeInv, RowlessBare
  <2>6. QED
    BY <1>0, <2>3, <2>4, <2>5, TaskKeepsKubeInv
<1>17. CASE Cleanup(t)
  <2>1. /\ UNCHANGED <<servers, knows, watch>> /\ task[t].pc = "cleanup" /\ r \in Server
        /\ \A s \in Server \ {r} : kube'[s] = kube[s]
        /\ kube'[r] = "none" /\ Moves(t, "read", "FAILED_TO_START")
    BY <1>17, CleanupDoes
  <2>2. Concerns(t, r)
    BY <2>1, OwnConcerns DEF Moves
  <2>3. TaskKept(t, r)
    BY <2>1 DEF TaskKept, Moves
  <2>4. RowKept(r)
    BY <2>1 DEF RowKept
  <2>5. QED
    BY <1>0, <2>2, <2>3, <2>4, TaskKeepsKubeInv
<1>18. CASE Report(t)
  <2>1. UNCHANGED <<servers, kube, watch>> /\ task[t].pc = "report" /\ Ends(t)
    BY <1>18, ReportDoes
  <2>2. QED
    BY <1>4, <1>5, <2>1
<1>19. CASE Delete(t)
  <2>1. /\ UNCHANGED <<servers, knows, watch>> /\ task[t].pc = "delete" /\ r \in Server
        /\ \A s \in Server \ {r} : kube'[s] = kube[s]
        /\ kube'[r] = "none"
        /\ \/ Moves(t, "read", "DELETION_FAILED") \/ Moves(t, "settle", task[t].write) \/ Ends(t)
    BY <1>19, DeleteDoes
  <2>2. Others(t) /\ (task'[t].server = r \/ Ends(t)) /\ task'[t].pc # "deploy"
    BY <1>4, <2>1 DEF Moves, Ends, NoTask
  <2>3. Concerns(t, r)
    BY <1>4, <2>1, <2>2, OwnConcerns
  <2>4. TaskKept(t, r)
    BY <2>1, <2>2 DEF TaskKept, Ends, NoTask
  <2>5. RowKept(r)
    BY <2>1 DEF RowKept
  <2>6. QED
    BY <1>0, <2>3, <2>4, <2>5, TaskKeepsKubeInv
<1>20. CASE Settle(t)
  <2>1. /\ UNCHANGED <<kube, knows, watch>> /\ task[t].pc = "settle" /\ r \in Server /\ Ends(t)
        /\ \A s \in Server \ {r} : servers'[s] = servers[s]
        /\ servers'[r].status \in {servers[r].status, "STOPPED"}
    BY <1>20, SettleDoes
  <2>2. kube[r] = "none"
    BY <2>1 DEF KubeInv, TornDown
  <2>3. Concerns(t, r)
    BY <1>4, <2>1, OwnConcerns
  <2>4. TaskKept(t, r)
    BY <2>1, PlainKept
  <2>5. RowKept(r)
    BY <2>1, <2>2 DEF RowKept, NoRow
  <2>6. QED
    BY <1>0, <2>3, <2>4, <2>5, TaskKeepsKubeInv
<1>21. CASE Call(t)
  <2>1. /\ UNCHANGED <<servers, kube, knows, watch>> /\ task[t].pc = "call"
        /\ Moves(t, "read", task[t].write) \/ Ends(t)
    BY <1>21, CallDoes
  <2>2. Others(t) /\ Goes
    BY <1>4, <2>1 DEF Moves
  <2>3. QED
    BY <1>5, <2>1, <2>2
<1>22. QED
  BY <1>7, <1>8, <1>9, <1>10, <1>11, <1>12, <1>13, <1>14, <1>15, <1>16, <1>17, <1>18, <1>19, <1>20, <1>21
     DEF Step

\* A client that asks knows the server, which no start is deploying then.
LEMMA BeginKeepsKubeInv ==
    ASSUME TypeOK, TypeOK', TaskInv, TaskInv', HandInv, KubeInv, Orderly, NEW t \in Task, Begin(t)
    PROVE  KubeInv'
<1>1. /\ UNCHANGED <<servers, kube, watch>> /\ Others(t) /\ task[t].pc = "idle"
      /\ \/ OpensStart(t)
         \/ \E c \in Client, s \in Server : OpensOwn(t, c, s)
         \/ \E s \in Server : OpensOrphan(t, s)
  BY BeginDoes
<1>2. ASSUME NEW u \in Task, task[u].pc = "deploy"
      PROVE  /\ task[u].server \in Server /\ kube[task[u].server] = "none"
             /\ \A c \in Client : task[u].server \notin knows[c]
  <2>1. task[u].kind = "start" /\ task[u].server \in Server
    BY <1>2, KindAt, Served
  <2>2. Holds(u, task[u].server)
    BY <2>1 DEF Holds, Has
  <2>3. QED
    BY <1>2, <2>1, <2>2 DEF HandInv, OneHolder, KubeInv, DeployAlone
<1>3. PICK r \in Server \cup {NoServer} :
        /\ task'[t].server = r /\ \A u \in Task \ {t} : task[u].pc = "deploy" => task[u].server # r
  <2>1. CASE OpensStart(t)
    BY <1>2, <2>1, LifecycleConstants DEF OpensStart
  <2>2. ASSUME NEW c \in Client, NEW s \in Server, OpensOwn(t, c, s)
        PROVE  task'[t].server = s /\ \A u \in Task \ {t} : task[u].pc = "deploy" => task[u].server # s
    BY <1>2, <2>2 DEF OpensOwn, Asks
  <2>3. ASSUME NEW s \in Server, OpensOrphan(t, s)
        PROVE  task'[t].server = s /\ \A u \in Task \ {t} : task[u].pc = "deploy" => task[u].server # s
    BY <1>2, <2>3 DEF OpensOrphan, Orphaned
  <2>4. QED
    BY <1>1, <2>1, <2>2, <2>3
<1>4. Concerns(t, r)
  BY <1>1, <1>3 DEF Concerns
<1>5. task'[t].pc \notin {"deploy", "settle"} /\ task'[t].write # "FAILED_TO_START"
  BY <1>1 DEF OpensStart, OpensOwn, OpensOrphan
<1>6. TaskKept(t, r)
  BY <1>1, <1>5 DEF TaskKept
<1>7. r \in Server => RowKept(r)
  BY <1>1, SameRowKept
<1>8. QED
  BY <1>4, <1>6, <1>7, TaskKeepsKubeInv

\* What the watcher and the world outside do: no Deployment comes up, and a row
\* is given up only without one.
LEMMA RestKubeKept ==
    ASSUME TypeOK, TypeOK', TaskInv, KubeInv, task' = task,
           \A s \in Server : RowKept(s),
           watch'.at # NoServer => kube'[watch'.at] = "none",
           \A t \in Task : task[t].pc = "deploy" =>
              LET s == task[t].server
              IN  /\ servers'[s].status = "ALIVE" /\ servers'[s].fresh
                  /\ watch'.at # s /\ (s \in watch'.todo => watch'.phase = "pods")
    PROVE  KubeInv'
<1>1. ASSUME NEW s \in Server, kube[s] = "none" PROVE kube'[s] = "none"
  BY <1>1 DEF RowKept
<1>2. DeployAlone'
  <2> SUFFICES ASSUME NEW t \in Task, task[t].pc = "deploy"
               PROVE  /\ servers'[task[t].server].status = "ALIVE" /\ servers'[task[t].server].fresh
                      /\ kube'[task[t].server] = "none"
                      /\ \A u \in Task \ {t} : task[u].server # task[t].server
                      /\ watch'.at # task[t].server
                      /\ task[t].server \in watch'.todo => watch'.phase = "pods"
    BY DEF DeployAlone
  <2>1. task[t].server \in Server
    BY Served
  <2>2. QED
    BY <1>1, <2>1 DEF KubeInv, DeployAlone
<1>3. TornDown'
  <2>1. ASSUME NEW t \in Task, task[t].pc = "settle" \/ task[t].write = "FAILED_TO_START"
        PROVE  kube'[task[t].server] = "none"
    <3>1. task[t].server \in Server /\ kube[task[t].server] = "none"
      BY <2>1 DEF KubeInv, TornDown, TaskInv, Shape, StartShape, TypeOK, TaskState, AllKinds, NoTask
    <3>2. QED
      BY <1>1, <3>1
  <2>2. QED
    BY <2>1 DEF TornDown
<1>4. RowlessBare'
  BY DEF RowlessBare, RowKept
<1>5. NoOrphan'
  <2> SUFFICES ASSUME NEW s \in Server, kube'[s] # "none", servers'[s].status \in GivenUp
               PROVE  Removing(s)
    BY DEF NoOrphan, Removing, GivenUp
  <2>1. kube[s] # "none" /\ servers[s].status \in GivenUp
    BY <1>1 DEF RowKept
  <2>2. QED
    BY <2>1 DEF KubeInv, NoOrphan, GivenUp
<1>6. QED
  BY <1>2, <1>3, <1>4, <1>5 DEF KubeInv

LEMMA WatchKeepsKubeInv ==
    ASSUME TypeOK, TypeOK', TaskInv, KubeInv, "api" \notin Faults, Watch
    PROVE  KubeInv'
<1>1. ASSUME NEW t \in Task, task[t].pc = "deploy"
      PROVE  /\ task[t].server \in Server /\ servers[task[t].server].status = "ALIVE"
             /\ servers[task[t].server].fresh /\ kube[task[t].server] = "none"
             /\ watch.at # task[t].server
             /\ task[t].server \in watch.todo => watch.phase = "pods"
  BY <1>1, Served DEF KubeInv, DeployAlone
<1>2. servers' = servers /\ kube' = kube => \A s \in Server : RowKept(s)
  BY SameRowKept
<1>3. watch.at # NoServer => watch.at \in Server /\ kube[watch.at] = "none"
  BY DEF KubeInv, TornDown, TypeOK, Pass
<1>4. CASE WatchBegin
  BY <1>1, <1>2, <1>4, WatchBeginDoes, LifecycleConstants, RestKubeKept
<1>5. CASE WatchPods
  <2>1. /\ UNCHANGED <<servers, kube, task, knows>>
        /\ watch'.at \in {watch.at, NoServer}
        /\ \A s \in watch'.todo : kube[s] = "broken"
    BY <1>5, WatchPodsDoes
  <2>2. QED
    BY <1>1, <1>2, <1>3, <2>1, LifecycleConstants, RestKubeKept
<1>6. CASE WatchList
  BY <1>1, <1>2, <1>6, WatchListDoes, LifecycleConstants, RestKubeKept
<1>7. CASE WatchProbe
  BY <1>1, <1>2, <1>3, <1>7, WatchProbeDoes, NoPassTyped, LifecycleConstants, RestKubeKept
<1>8. CASE WatchEnd
  <2>1. UNCHANGED <<servers, kube, task, knows>> /\ watch' = NoPass
    BY <1>8 DEF WatchEnd
  <2>2. QED
    BY <1>1, <1>2, <2>1, NoPassTyped, LifecycleConstants, RestKubeKept
<1>9. CASE WatchMark
  <2>1. /\ UNCHANGED <<kube, task, knows>> /\ watch.at \in Server /\ watch.mark \in AvailabilityStatus
        /\ \A s \in Server \ {watch.at} : servers'[s] = servers[s]
        /\ servers'[watch.at].status = watch.mark
        /\ watch'.phase = watch.phase /\ watch'.at = NoServer
        /\ watch'.todo = watch.todo \ {watch.at}
    BY <1>9, WatchMarkDoes
  <2>2. kube[watch.at] = "none" /\ watch.mark # NoRow
    BY <1>3, <2>1, LifecycleConstants DEF AvailabilityStatus, NoRow
  <2>3. \A s \in Server : RowKept(s)
    BY <2>1, <2>2 DEF RowKept, KubeInv, RowlessBare
  <2>4. QED
    BY <1>1, <2>1, <2>3, LifecycleConstants, RestKubeKept
<1>10. ASSUME NEW s \in Server, WatchRemove(s)
       PROVE  KubeInv'
  <2>1. /\ UNCHANGED <<servers, task, knows>> /\ watch.phase \in {"crash", "reap"} /\ s \in watch.todo
        /\ watch'.phase = watch.phase /\ watch'.todo = watch.todo /\ watch'.at = s
        /\ kube'[s] = "none" /\ \A r \in Server \ {s} : kube'[r] = kube[r]
    BY <1>10, WatchRemoveDoes
  <2>2. \A r \in Server : RowKept(r)
    BY <2>1, SameRowKept
  <2>3. QED
    BY <1>1, <2>1, <2>2, RestKubeKept
<1>11. QED
  BY <1>4, <1>5, <1>6, <1>7, <1>8, <1>9, <1>10 DEF Watch

LEMMA OutsideKeepsKubeInv ==
    ASSUME TypeOK, TypeOK', TaskInv, KubeInv, Faults \cap {"crash", "slow"} = {}, Outside
    PROVE  KubeInv'
<1>1. ASSUME NEW t \in Task, task[t].pc = "deploy"
      PROVE  /\ task[t].server \in Server /\ servers[task[t].server].status = "ALIVE"
             /\ servers[task[t].server].fresh /\ task[t].kind = "start"
             /\ watch.at # task[t].server
             /\ task[t].server \in watch.todo => watch.phase = "pods"
  BY <1>1, Served, KindAt DEF KubeInv, DeployAlone
<1>2. watch.at # NoServer => watch.at \in Server /\ kube[watch.at] = "none"
  BY DEF KubeInv, TornDown, TypeOK, Pass
<1>3. ASSUME NEW s \in Server, PodsReady(s) \/ PodsBreak(s)
      PROVE  KubeInv'
  <2>1. /\ UNCHANGED <<servers, task, knows, watch>>
        /\ \A r \in Server : kube'[r] = "none" <=> kube[r] = "none"
    BY <1>3, PodsDo
  <2>2. \A r \in Server : RowKept(r)
    BY <2>1, SameRowKept
  <2>3. QED
    BY <1>1, <1>2, <2>1, <2>2, RestKubeKept
<1>4. ASSUME NEW s \in Server, Age(s)
      PROVE  KubeInv'
  <2>1. /\ UNCHANGED <<kube, task, knows, watch>>
        /\ \A t \in Task : ~(task[t].server = s /\ task[t].kind \in {"start", "restart"})
        /\ \A r \in Server \ {s} : servers'[r] = servers[r]
        /\ servers'[s].status = servers[s].status
    BY <1>4, AgeDoes
  <2>2. \A r \in Server : RowKept(r)
    BY <2>1 DEF RowKept, KubeInv, RowlessBare
  <2>3. \A t \in Task : task[t].pc = "deploy" => task[t].server # s
    BY <1>1, <2>1
  <2>4. QED
    BY <1>1, <1>2, <2>1, <2>2, <2>3, RestKubeKept
<1>5. ~WatcherDies /\ \A t \in Task : ~Die(t)
  BY DEF WatcherDies, Die
<1>6. QED
  BY <1>3, <1>4, <1>5 DEF Outside

\* Nothing runs on for which nobody pays: a Deployment whose row no longer holds
\* quota is about to be deleted, as long as clients are orderly, Kubernetes
\* answers, nothing dies and no start outlasts the watcher's timeouts.
THEOREM NoOrphanHolds ==
    ASSUME Orderly, Faults \subseteq {"pods"} PROVE Spec => []NoOrphan
<1> DEFINE Inv == TypeOK /\ TaskInv /\ HandInv /\ KubeInv
<1>1. Init => Inv
  <2> SUFFICES ASSUME Init PROVE Inv
    OBVIOUS
  <2>1. TypeOK /\ TaskInv /\ HandInv
    BY InitTaskInv, InitHandInv
  <2>2. \A t \in Task : task[t] = NoTask
    BY DEF Init
  <2>3. DeployAlone /\ TornDown
    BY <2>2, NoPassTyped DEF Init, DeployAlone, TornDown, NoTask
  <2>4. RowlessBare /\ NoOrphan
    BY DEF Init, RowlessBare, NoOrphan
  <2>5. QED
    BY <2>1, <2>3, <2>4 DEF KubeInv
<1>2. Inv /\ [Next]_vars => Inv'
  <2> SUFFICES ASSUME Inv, [Next]_vars PROVE Inv'
    OBVIOUS
  <2>1. TypeOK' /\ TaskInv' /\ HandInv'
    BY NextKeepsTaskInv, NextKeepsHandInv
  <2>2. CASE UNCHANGED vars
    BY <2>1, <2>2
       DEF vars, KubeInv, DeployAlone, TornDown, RowlessBare, NoOrphan, Removing
  <2>3. CASE Next
    BY <2>1, <2>3, BeginKeepsKubeInv, StepKeepsKubeInv, WatchKeepsKubeInv, OutsideKeepsKubeInv DEF Next
  <2>4. QED
    BY <2>1, <2>2, <2>3
<1>3. Inv => NoOrphan
  BY DEF KubeInv
<1>4. QED
  BY <1>1, <1>2, <1>3, PTL DEF Spec
=============================================================================
