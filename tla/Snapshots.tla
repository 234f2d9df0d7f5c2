------------------------------ MODULE Snapshots ------------------------------
(***************************************************************************)
(* Pod snapshots: a batch of pipeline jobs that each start a server,       *)
(* snapshot its pod and take it down again (snapshot_pipeline.py), clients *)
(* that snapshot a running server (router/snapshot.py), the trigger both   *)
(* of them put into Kubernetes (pod_snapshot.py), and the rows that the    *)
(* polling client reads (database.py).                                     *)
(*                                                                         *)
(* A trigger is named for its pod, so that a pod has one at a time.  The   *)
(* pod of a job's server has the name of the job.                          *)
(***************************************************************************)
EXTENDS Integers, FiniteSets

CONSTANTS
  Job, Op, None,
  Live,       \* a pod that runs from the beginning
  TargetOf,   \* the pod that each operation is asked to snapshot
  Faults,     \* what may fail
  MaxFaults   \* bound

AnyPod == Job \cup {Live}
User == Job \cup Op

SnapshotsAssumption ==
  /\ TargetOf \in [Op -> AnyPod]
  /\ Faults \subseteq {"k8s", "db", "crash"} /\ MaxFaults \in Nat
  /\ IsFiniteSet(Job) /\ Job \cap Op = {} /\ Live \notin Job /\ None \notin User

VARIABLES
  pc,       \* where the task of each user is
  mine,     \* the snapshot it got: whose trigger made it
  trigger,  \* the PodSnapshotManualTrigger of each pod
  pod,      \* the pods that run
  server,   \* the row of each job's server: whether it holds its quota
  job,      \* snapshot_jobs
  record,   \* the jobs that have a row in snapshots
  prep,     \* snapshot_prepare_requests: the batch's row
  slips,    \* history: a job that nobody will count, one that is counted twice
  faults

vars == <<pc, mine, trigger, pod, server, job, record, prep, slips, faults>>

Status == {"none", "IN_PROGRESS", "SUCCESS", "FAILURE"}
TriggerState == {"none", "processing", "complete", "failed"}
NoTrigger == [by |-> None, state |-> "none"]

PodOf(u) == IF u \in Job THEN u ELSE TargetOf[u]
InPipeline == {"reserve", "deploy", "ready"}
InService == {"find", "create", "wait", "delete"}
Recording == {"cleanup", "stopped", "record", "succeed", "count"}
Undoing == {"undo", "undone", "fail", "countfail"}
Pc == {"new", "answer", "done"} \cup InPipeline \cup InService \cup Recording \cup Undoing

Fault(kind) == kind \in Faults /\ faults < MaxFaults /\ faults' = faults + 1
NoFault == UNCHANGED faults
At(u, here) == pc[u] = here
Go(u, there) == pc' = [pc EXCEPT ![u] = there]

-----------------------------------------------------------------------------
(* Requests.                                                               *)

\* The batch and its jobs are one transaction.
Prepare ==
  /\ \A j \in Job : pc[j] = "new"
  /\ pc' = [u \in User |-> IF u \in Job THEN "reserve" ELSE pc[u]]
  /\ job' = [j \in Job |-> "IN_PROGRESS"]
  /\ prep' = [prep EXCEPT !.total = Cardinality(Job)]
  /\ UNCHANGED <<mine, trigger, pod, server, record, slips, faults>>

\* validate_server: the row of a server that runs.
Snapshot(o) ==
  /\ At(o, "new") /\ (PodOf(o) \in Job => server[PodOf(o)] = "alive")
  /\ Go(o, "find")
  /\ UNCHANGED <<mine, trigger, pod, server, job, record, prep, slips, faults>>

\* Mutant: the pipeline catches only what the service raises itself.
RaisedUnhandled(u) == IF u \in Op THEN "answer" ELSE "done"
\* What an exception in the service leads to.
Raised(u) == IF u \in Op THEN "answer" ELSE "undo"

-----------------------------------------------------------------------------
(* PodSnapshotService.                                                     *)

\* get_pod_for_server, validate_node_eligible_for_snapshot.
Find(u) ==
  /\ At(u, "find")
  /\ \/ PodOf(u) \in pod /\ Go(u, "create") /\ NoFault
     \/ PodOf(u) \notin pod /\ Go(u, Raised(u)) /\ NoFault
     \/ Go(u, Raised(u)) /\ Fault("k8s")
  /\ UNCHANGED <<mine, trigger, pod, server, job, record, prep, slips>>

\* Mutant: a conflict means that the trigger is there.
CreateTolerant(u) ==
  /\ trigger' = IF trigger[PodOf(u)] # NoTrigger THEN trigger
                ELSE [trigger EXCEPT ![PodOf(u)] = [by |-> u, state |-> "processing"]]
  /\ Go(u, "wait")
Put(u) ==
  /\ trigger[PodOf(u)] = NoTrigger
  /\ trigger' = [trigger EXCEPT ![PodOf(u)] = [by |-> u, state |-> "processing"]]
CreateTrigger(u) ==
  \/ Put(u) /\ Go(u, "wait")
  \/ /\ trigger[PodOf(u)] # NoTrigger   \* 409
     /\ Go(u, Raised(u)) /\ UNCHANGED trigger

\* A create whose answer is lost leaves a trigger that nobody is to delete.
Create(u) ==
  /\ At(u, "create")
  /\ \/ CreateTrigger(u) /\ NoFault
     \/ Go(u, Raised(u)) /\ (Put(u) \/ UNCHANGED trigger) /\ Fault("k8s")
  /\ UNCHANGED <<mine, pod, server, job, record, prep, slips>>

\* Complete, failed, gone, an error, or the deadline: the trigger is deleted.
Wait(u) ==
  /\ At(u, "wait") /\ Go(u, "delete")
  /\ LET t == trigger[PodOf(u)]
     IN  \/ t.state = "complete" /\ mine' = [mine EXCEPT ![u] = t.by] /\ NoFault
         \/ t.state \in {"failed", "none"} /\ UNCHANGED mine /\ NoFault
         \/ UNCHANGED mine /\ Fault("k8s")
  /\ UNCHANGED <<trigger, pod, server, job, record, prep, slips>>

\* A call that fails may have taken effect, here and below.
Delete(u) ==
  /\ At(u, "delete")
  /\ Go(u, IF mine[u] = None THEN Raised(u) ELSE IF u \in Op THEN "answer" ELSE "cleanup")
  /\ \/ trigger' = [trigger EXCEPT ![PodOf(u)] = NoTrigger] /\ (NoFault \/ Fault("k8s"))
     \/ UNCHANGED trigger /\ Fault("k8s")
  /\ UNCHANGED <<mine, pod, server, job, record, prep, slips>>

\* The operation is answered: SUCCEEDED with the snapshot, or the error.
Answer(o) ==
  /\ o \in Op /\ At(o, "answer") /\ Go(o, "done")
  /\ UNCHANGED <<mine, trigger, pod, server, job, record, prep, slips, faults>>

-----------------------------------------------------------------------------
(* The pipeline (run_snapshot_pipeline_job).                               *)

\* No such client, no resources, or no answer: the pipeline knows of no server then.
Reserve(j) ==
  /\ At(j, "reserve")
  /\ \/ Go(j, "deploy") /\ server' = [server EXCEPT ![j] = "held"] /\ NoFault
     \/ Go(j, "fail") /\ UNCHANGED server /\ NoFault
     \/ Go(j, "fail") /\ server' \in {server, [server EXCEPT ![j] = "held"]} /\ Fault("db")
  /\ UNCHANGED <<mine, trigger, pod, job, record, prep, slips>>

Deploy(j) ==
  /\ At(j, "deploy")
  /\ \/ Go(j, "ready") /\ pod' = pod \cup {j} /\ NoFault
     \/ Go(j, "undo") /\ pod' \in {pod, pod \cup {j}} /\ Fault("k8s")
  /\ UNCHANGED <<mine, trigger, server, job, record, prep, slips>>

\* wait_for_pods_ready, then ALIVE: a row that ended meanwhile stays ended.
Alive(j) == [server EXCEPT ![j] = IF @ = "held" THEN "alive" ELSE @]
Ready(j) ==
  /\ At(j, "ready")
  /\ \/ j \in pod /\ Go(j, "find") /\ server' = Alive(j) /\ NoFault
     \/ j \notin pod /\ Go(j, "undo") /\ UNCHANGED server /\ NoFault
     \/ Go(j, "undo") /\ UNCHANGED server /\ Fault("k8s")
     \/ j \in pod /\ Go(j, "undo") /\ server' \in {server, Alive(j)} /\ Fault("db")
  /\ UNCHANGED <<mine, trigger, pod, job, record, prep, slips>>

\* clean_up_server, whose failure is logged; the owner takes its trigger along.
CleanUp(j) ==
  /\ pc[j] \in {"cleanup", "undo"}
  /\ Go(j, IF At(j, "undo") THEN "undone" ELSE "stopped")
  /\ \/ /\ pod' = pod \ {j} /\ trigger' = [trigger EXCEPT ![j] = NoTrigger]
        /\ NoFault \/ Fault("k8s")
     \/ UNCHANGED <<pod, trigger>> /\ Fault("k8s")
  /\ UNCHANGED <<mine, server, job, record, prep, slips>>

\* STOPPED or FAILED_TO_START; a failure to write it is logged, too.
End(j) ==
  /\ pc[j] \in {"stopped", "undone"}
  /\ Go(j, IF At(j, "undone") THEN "fail" ELSE "record")
  /\ \/ server' = [server EXCEPT ![j] = "ended"] /\ (NoFault \/ Fault("db"))
     \/ UNCHANGED server /\ Fault("db")
  /\ UNCHANGED <<mine, trigger, pod, job, record, prep, slips>>

Recorded(j) == record' = record \cup {j} /\ UNCHANGED <<job, prep>>
Settled(j, s) == job' = [job EXCEPT ![j] = s] /\ UNCHANGED <<record, prep>>
Counted(s) ==
  /\ prep' = IF s = "SUCCESS" THEN [prep EXCEPT !.succeeded = @ + 1]
             ELSE [prep EXCEPT !.failed = @ + 1]
  /\ UNCHANGED <<job, record>>

\* Mutant: the batch is counted before the job is settled.
WritesCountFirst(j) ==
  \/ At(j, "record") /\ Recorded(j)
  \/ At(j, "succeed") /\ Counted("SUCCESS")
  \/ At(j, "count") /\ Settled(j, "SUCCESS")
  \/ At(j, "fail") /\ Counted("FAILURE")
  \/ At(j, "countfail") /\ Settled(j, "FAILURE")
\* What each step of the report commits.
Writes(j) ==
  \/ At(j, "record") /\ Recorded(j)
  \/ At(j, "succeed") /\ Settled(j, "SUCCESS")
  \/ At(j, "count") /\ Counted("SUCCESS")
  \/ At(j, "fail") /\ Settled(j, "FAILURE")
  \/ At(j, "countfail") /\ Counted("FAILURE")

NextOf(j) == CASE At(j, "record") -> "succeed" [] At(j, "succeed") -> "count"
               [] At(j, "fail") -> "countfail" [] OTHER -> "done"
Report(j) ==
  /\ Writes(j) /\ Go(j, NextOf(j))
  /\ UNCHANGED <<mine, trigger, pod, server, slips, faults>>

\* A statement of the report fails, or its commit took effect and raises all the
\* same: the handler takes over, and in the handler the task is over.
StatementFails(j) ==
  /\ Fault("db")
  /\ \/ At(j, "count") /\ Writes(j) /\ Go(j, "undo") /\ slips' = slips \cup {"twice"}
     \/ pc[j] \in {"record", "succeed"} /\ Writes(j) /\ Go(j, "undo") /\ UNCHANGED slips
     \/ /\ pc[j] \in {"record", "succeed", "count"} /\ Go(j, "undo")
        /\ UNCHANGED <<job, record, prep, slips>>
     \/ /\ pc[j] \in {"fail", "countfail"} /\ Go(j, "done")
        /\ Writes(j) \/ UNCHANGED <<job, record, prep>>
        /\ slips' = slips \cup {"uncounted"}
  /\ UNCHANGED <<mine, trigger, pod, server>>

-----------------------------------------------------------------------------
(* Kubernetes, the watcher and a crash.                                    *)

\* No snapshot of a pod that is gone.
Controller(p) ==
  /\ trigger[p].state = "processing"
  /\ \E s \in {"complete", "failed"} :
       /\ s = "complete" => p \in pod
       /\ trigger' = [trigger EXCEPT ![p].state = s]
  /\ UNCHANGED <<pc, mine, pod, server, job, record, prep, slips, faults>>

\* The watcher, or a stop of the client, ends the server under the pipeline.
Reaped(j) ==
  /\ server[j] \in {"held", "alive"} /\ j \in pod /\ Fault("k8s")
  /\ server' = [server EXCEPT ![j] = "ended"]
  /\ pod' = pod \ {j} /\ trigger' = [trigger EXCEPT ![j] = NoTrigger]
  /\ UNCHANGED <<pc, mine, job, record, prep, slips>>

Crash(u) ==
  /\ pc[u] \notin {"new", "done"} /\ Fault("crash") /\ Go(u, "done")
  /\ slips' = IF u \in Job THEN slips \cup {"uncounted"} ELSE slips
  /\ UNCHANGED <<mine, trigger, pod, server, job, record, prep>>

-----------------------------------------------------------------------------
Init ==
  /\ pc = [u \in User |-> "new"]
  /\ mine = [u \in User |-> None]
  /\ trigger = [p \in AnyPod |-> NoTrigger]
  /\ pod = {Live}
  /\ server = [j \in Job |-> "none"]
  /\ job = [j \in Job |-> "none"]
  /\ record = {}
  /\ prep = [total |-> 0, succeeded |-> 0, failed |-> 0]
  /\ slips = {}
  /\ faults = 0

Service(u) == Find(u) \/ Create(u) \/ Wait(u) \/ Delete(u)
Pipeline(j) == Reserve(j) \/ Deploy(j) \/ Ready(j) \/ CleanUp(j) \/ End(j) \/ Report(j)
Step(u) == Service(u) \/ (u \in Job /\ Pipeline(u)) \/ Answer(u)

Next ==
  \/ Prepare \/ \E o \in Op : Snapshot(o)
  \/ \E u \in User : Step(u) \/ Crash(u)
  \/ \E j \in Job : StatementFails(j) \/ Reaped(j)
  \/ \E p \in AnyPod : Controller(p)

\* Tasks that live go on, and Kubernetes works on the triggers.
Fairness ==
  /\ \A u \in User : WF_vars(Step(u))
  /\ \A p \in AnyPod : WF_vars(Controller(p))

Spec == Init /\ [][Next]_vars
FairSpec == Spec /\ Fairness

-----------------------------------------------------------------------------
TypeOK ==
  /\ pc \in [User -> Pc] /\ mine \in [User -> User \cup {None}]
  /\ trigger \in [AnyPod -> [by : User \cup {None}, state : TriggerState]]
  /\ pod \subseteq AnyPod /\ server \in [Job -> {"none", "held", "alive", "ended"}]
  /\ job \in [Job -> Status] /\ record \subseteq Job
  /\ prep \in [total : Nat, succeeded : Nat, failed : Nat]
  /\ slips \subseteq {"uncounted", "twice"} /\ faults \in 0 .. MaxFaults

(* The answer that makes a polling client stop, READY, comes only when the *)
(* results that go with it are final and are those it counts, and a        *)
(* snapshot stands behind each success: the counters, the jobs and the     *)
(* snapshots are written one by one, with failures in between.  Only a     *)
(* count that takes effect and raises all the same is counted once more,   *)
(* as a failure (get_prepare_snapshots_status, run_snapshot_pipeline_job). *)
BatchReady == prep.total > 0 /\ prep.succeeded + prep.failed >= prep.total
With(s) == {j \in Job : job[j] = s}
ReadyIsFinal ==
  /\ With("SUCCESS") \subseteq record
  /\ BatchReady /\ "twice" \notin slips =>
       /\ Cardinality(With("SUCCESS")) = prep.succeeded
       /\ Cardinality(With("FAILURE")) = prep.failed

(* What a task reports as its snapshot was made by the trigger it put in,  *)
(* although all tasks for one pod use the same name for it                 *)
(* (PodSnapshotService.snapshot_server).                                   *)
SnapshotIsOwn == \A u \in User : mine[u] \in {u, None}

(* A batch gets ready whatever Kubernetes, the watcher, other snapshots and *)
(* the database do to its jobs, unless a replica dies with one of them or  *)
(* the handler of a failure fails itself.                                  *)
BatchEnds == (prep.total > 0) ~> (BatchReady \/ "uncounted" \in slips)

-----------------------------------------------------------------------------
(* What the source says of this code, and the code does not do: "True if a *)
(* successful snapshot job exists for this configuration"                  *)
(* (SnapshotExistsResponse.exists).  The answer is a row in snapshots.     *)
ExistsMeansSuccess ==
  \A j \in record : pc[j] = "done" => job[j] # "FAILURE"
===============================================================================
