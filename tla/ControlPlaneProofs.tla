------------------------ MODULE ControlPlaneProofs ------------------------
(***************************************************************************)
(* Proofs about Snapshots, Migrations and PodReadiness, as MCControlPlane  *)
(* puts them side by side, for any jobs, operations, replicas, pods,       *)
(* budgets and timeouts.  A step is one of one module and leaves the       *)
(* variables of the others alone, so that each has an invariant of its own.*)
(***************************************************************************)
EXTENDS MCControlPlane, FiniteSetTheorems, TLAPS

\* The instances have these of the same definitions.
LEMMA SameCardinality == ASSUME NEW set PROVE S!Cardinality(set) = Cardinality(set)
  BY DEF S!Cardinality, Cardinality
LEMMA SameFinite == ASSUME NEW set PROVE S!IsFiniteSet(set) <=> IsFiniteSet(set)
  BY DEF S!IsFiniteSet, IsFiniteSet

-----------------------------------------------------------------------------
(* Snapshots: what is true of triggers.                                    *)

\* A job whose server is not deployed yet has no pod, and nobody works on it.
NotDeployed ==
  \A j \in Job : pcS[j] \in {"new", "reserve", "deploy"} =>
    /\ j \notin podS
    /\ \A u \in S!User : S!PodOf(u) = j => pcS[u] \notin {"create", "wait", "delete"}

\* The trigger of a pod that runs belongs to the task that is to delete it.
OwnTrigger ==
  \A u \in S!User : pcS[u] \in {"wait", "delete"} /\ S!PodOf(u) \in podS =>
    trigger[S!PodOf(u)].by = u

\* A snapshot is complete only while its pod is there.
CompleteRuns == \A p \in S!AnyPod : trigger[p].state = "complete" => p \in podS

TriggerInv == S!TypeOK /\ NotDeployed /\ OwnTrigger /\ CompleteRuns /\ S!SnapshotIsOwn

LEMMA SnapshotTypes ==
  ASSUME S!TypeOK, S!Next
  PROVE  S!TypeOK'
<1> USE ControlPlaneAssumption DEF S!SnapshotsAssumption, S!TypeOK, S!User, S!AnyPod, S!Pc, S!InPipeline,
      S!InService, S!Recording, S!Undoing, S!Go, S!At, S!Fault, S!NoFault, S!PodOf, S!NoTrigger, S!TriggerState,
      S!Status
<1>1. CASE S!Prepare
  <2>1. IsFiniteSet(Job) /\ Cardinality(Job) \in Nat /\ S!Cardinality(Job) = Cardinality(Job)
    BY SameFinite, SameCardinality, FS_CardinalityType
  <2> DEFINE size == S!Cardinality(Job)
  <2>2. /\ prep' = [prep EXCEPT !.total = size] /\ jobS' = [j \in Job |-> "IN_PROGRESS"]
        /\ pcS' = [u \in S!User |-> IF u \in Job THEN "reserve" ELSE pcS[u]]
        /\ UNCHANGED <<mine, trigger, podS, server, record, slips, faultsS>>
    BY <1>1 DEF S!Prepare
  <2>3. size \in Nat
    BY <2>1
  <2> HIDE DEF size
  <2>4. QED
    BY <2>2, <2>3
<1>2. ASSUME NEW o \in Op, S!Snapshot(o)
      PROVE  S!TypeOK'
  BY <1>2 DEF S!Snapshot
<1>3. ASSUME NEW u \in S!User, S!Find(u)
      PROVE  S!TypeOK'
  BY <1>3 DEF S!Find, S!Raised
<1>4. ASSUME NEW u \in S!User, S!Create(u)
      PROVE  S!TypeOK'
  BY <1>4 DEF S!Create, S!CreateTrigger, S!Put, S!Raised
<1>5. ASSUME NEW u \in S!User, S!Wait(u)
      PROVE  S!TypeOK'
  BY <1>5 DEF S!Wait
<1>6. ASSUME NEW u \in S!User, S!Delete(u)
      PROVE  S!TypeOK'
  BY <1>6 DEF S!Delete, S!Raised
<1>7. ASSUME NEW u \in S!User, S!Answer(u)
      PROVE  S!TypeOK'
  BY <1>7 DEF S!Answer
<1>8. ASSUME NEW j \in Job
      PROVE  S!Reserve(j) \/ S!Deploy(j) \/ S!Ready(j) \/ S!CleanUp(j) \/ S!End(j) => S!TypeOK'
  <2>1. CASE S!Reserve(j)
    BY <2>1 DEF S!Reserve
  <2>2. CASE S!Deploy(j)
    BY <2>2 DEF S!Deploy
  <2>3. CASE S!Ready(j)
    BY <2>3 DEF S!Ready, S!Alive
  <2>4. CASE S!CleanUp(j)
    BY <2>4 DEF S!CleanUp
  <2>5. CASE S!End(j)
    BY <2>5 DEF S!End
  <2>6. QED
    BY <2>1, <2>2, <2>3, <2>4, <2>5
<1>9. ASSUME NEW j \in Job, S!Report(j)
      PROVE  S!TypeOK'
  BY <1>9 DEF S!Report, S!NextOf, S!Writes, S!Recorded, S!Settled, S!Counted
<1>10. ASSUME NEW j \in Job, S!StatementFails(j) \/ S!Reaped(j)
       PROVE  S!TypeOK'
  <2>1. CASE S!StatementFails(j)
    BY <2>1 DEF S!StatementFails, S!Writes, S!Recorded, S!Settled, S!Counted
  <2>2. CASE S!Reaped(j)
    BY <2>2 DEF S!Reaped
  <2>3. QED
    BY <1>10, <2>1, <2>2
<1>11. ASSUME NEW u \in S!User, S!Crash(u)
       PROVE  S!TypeOK'
  BY <1>11 DEF S!Crash
<1>12. ASSUME NEW p \in S!AnyPod, S!Controller(p)
       PROVE  S!TypeOK'
  BY <1>12 DEF S!Controller
<1>13. QED
  BY <1>1, <1>2, <1>3, <1>4, <1>5, <1>6, <1>7, <1>8, <1>9, <1>10, <1>11, <1>12
     DEF S!Next, S!Step, S!Service, S!Pipeline

\* A task's step that leaves triggers and pods alone and goes to nothing that needs one.
LEMMA PlainKeepsTriggers ==
  ASSUME S!TypeOK, S!TypeOK', TriggerInv, NEW u \in S!User,
         UNCHANGED <<mine, trigger, podS>>, \A v \in S!User \ {u} : pcS'[v] = pcS[v],
         pcS'[u] \in {"create", "wait", "delete"} =>
            IF pcS'[u] = "create" THEN S!PodOf(u) \in podS
            ELSE pcS[u] \in {"wait", "delete"},
         pcS'[u] \in {"new", "reserve", "deploy"} => pcS[u] \in {"new", "reserve", "deploy"}
  PROVE  TriggerInv'
<1>1. S!User' = S!User /\ \A v \in S!User : S!PodOf(v)' = S!PodOf(v)
  BY DEF S!User, S!PodOf
<1>2. NotDeployed'
  BY <1>1 DEF TriggerInv, NotDeployed, S!User, S!PodOf
<1>3. OwnTrigger'
  BY <1>1 DEF TriggerInv, OwnTrigger, S!User, S!PodOf
<1>4. CompleteRuns' /\ S!SnapshotIsOwn'
  BY DEF TriggerInv, CompleteRuns, S!SnapshotIsOwn
<1>5. QED
  BY <1>2, <1>3, <1>4 DEF TriggerInv

\* A pod is taken down together with its trigger.
LEMMA TakenDown ==
  ASSUME S!TypeOK, S!TypeOK', TriggerInv, NEW j \in Job, mine' = mine,
         podS' = podS \ {j}, trigger' = [trigger EXCEPT ![j] = S!NoTrigger],
         \A v \in S!User : pcS'[v] = pcS[v] \/ pcS'[v] \in {"stopped", "undone"}
  PROVE  TriggerInv'
<1>1. j \in S!AnyPod /\ S!NoTrigger.state # "complete"
  BY DEF S!AnyPod, S!NoTrigger
<1>2. NotDeployed'
  BY DEF TriggerInv, NotDeployed, S!User, S!PodOf
<1>3. OwnTrigger'
  BY DEF TriggerInv, OwnTrigger, S!User, S!PodOf, S!TypeOK, S!AnyPod
<1>4. CompleteRuns'
  BY <1>1 DEF TriggerInv, CompleteRuns, S!TypeOK
<1>5. S!SnapshotIsOwn'
  BY DEF TriggerInv, S!SnapshotIsOwn
<1>6. QED
  BY <1>2, <1>3, <1>4, <1>5 DEF TriggerInv

LEMMA ServiceKeepsTriggers ==
  ASSUME S!TypeOK, S!TypeOK', TriggerInv, NEW u \in S!User, S!Service(u)
  PROVE  TriggerInv'
<1> DEFINE p == S!PodOf(u)
<1> USE DEF S!Go, S!At
<1>0. /\ p \in S!AnyPod /\ S!Raised(u) \in {"answer", "undo"} /\ None \notin S!User
      /\ u \in Job => p = u
  BY ControlPlaneAssumption DEF S!SnapshotsAssumption, S!PodOf, S!User, S!AnyPod, S!Raised
<1>1. CASE S!Find(u)
  <2>1. /\ UNCHANGED <<mine, trigger, podS>> /\ \A v \in S!User \ {u} : pcS'[v] = pcS[v]
        /\ \/ pcS'[u] = "create" /\ p \in podS
           \/ pcS'[u] = S!Raised(u)
    BY <1>1 DEF S!Find, S!TypeOK
  <2>2. QED
    BY <1>0, <2>1, PlainKeepsTriggers
<1>2. CASE S!Create(u)
  <2>1. /\ UNCHANGED <<mine, podS>> /\ \A v \in S!User \ {u} : pcS'[v] = pcS[v] /\ pcS[u] = "create"
        /\ pcS'[u] \in {"wait", S!Raised(u)}
        /\ \/ /\ trigger[p] = S!NoTrigger
              /\ trigger' = [trigger EXCEPT ![p] = [by |-> u, state |-> "processing"]]
           \/ trigger' = trigger /\ pcS'[u] = S!Raised(u)
    BY <1>2 DEF S!Create, S!CreateTrigger, S!Put, S!TypeOK
  <2>2. CASE trigger' = trigger /\ pcS'[u] = S!Raised(u)
    BY <1>0, <2>1, <2>2, PlainKeepsTriggers
  <2>3. CASE /\ trigger[p] = S!NoTrigger
             /\ trigger' = [trigger EXCEPT ![p] = [by |-> u, state |-> "processing"]]
    <3>1. trigger'[p].by = u /\ trigger'[p].state = "processing"
          /\ \A q \in S!AnyPod \ {p} : trigger'[q] = trigger[q]
      BY <1>0, <2>3 DEF S!TypeOK
    <3>2. \A v \in S!User : pcS[v] \in {"wait", "delete"} /\ S!PodOf(v) = p => p \notin podS
      BY <1>0, <2>3 DEF TriggerInv, OwnTrigger, S!NoTrigger
    <3>3. NotDeployed'
      BY <1>0, <2>1, <2>3 DEF TriggerInv, NotDeployed, S!User, S!PodOf
    <3>4. OwnTrigger'
      <4> SUFFICES ASSUME NEW v \in S!User, pcS'[v] \in {"wait", "delete"}, S!PodOf(v) \in podS
                   PROVE  trigger'[S!PodOf(v)].by = v
        BY <2>1 DEF OwnTrigger, S!User, S!PodOf
      <4>1. S!PodOf(v) \in S!AnyPod
        BY ControlPlaneAssumption DEF S!SnapshotsAssumption, S!PodOf, S!User, S!AnyPod
      <4>2. QED
        BY <2>1, <3>1, <3>2, <4>1 DEF TriggerInv, OwnTrigger
    <3>5. CompleteRuns' /\ S!SnapshotIsOwn'
      BY <2>1, <3>1 DEF TriggerInv, CompleteRuns, S!SnapshotIsOwn
    <3>6. QED
      BY <3>3, <3>4, <3>5 DEF TriggerInv
  <2>4. QED
    BY <2>1, <2>2, <2>3
<1>3. CASE S!Wait(u)
  <2>1. /\ UNCHANGED <<trigger, podS>> /\ \A v \in S!User \ {u} : pcS'[v] = pcS[v]
        /\ pcS[u] = "wait" /\ pcS'[u] = "delete"
        /\ \/ trigger[p].state = "complete" /\ mine' = [mine EXCEPT ![u] = trigger[p].by]
           \/ mine' = mine
    BY <1>3 DEF S!Wait, S!TypeOK
  <2>2. trigger[p].state = "complete" => trigger[p].by = u
    BY <1>0, <2>1 DEF TriggerInv, CompleteRuns, OwnTrigger
  <2>3. S!SnapshotIsOwn'
    BY <2>1, <2>2 DEF TriggerInv, S!SnapshotIsOwn, S!TypeOK
  <2>4. NotDeployed' /\ OwnTrigger' /\ CompleteRuns'
    BY <2>1 DEF TriggerInv, NotDeployed, OwnTrigger, CompleteRuns, S!User, S!PodOf
  <2>5. QED
    BY <2>3, <2>4 DEF TriggerInv
<1>4. CASE S!Delete(u)
  <2>1. /\ UNCHANGED <<mine, podS>> /\ \A v \in S!User \ {u} : pcS'[v] = pcS[v]
        /\ pcS[u] = "delete" /\ pcS'[u] \in {"answer", "undo", "cleanup"}
        /\ \/ trigger' = [trigger EXCEPT ![p] = S!NoTrigger]
           \/ trigger' = trigger
    BY <1>4, <1>0 DEF S!Delete, S!TypeOK
  <2>2. CASE trigger' = trigger
    BY <2>1, <2>2, PlainKeepsTriggers
  <2>3. CASE trigger' = [trigger EXCEPT ![p] = S!NoTrigger]
    <3>1. trigger'[p] = S!NoTrigger /\ \A q \in S!AnyPod \ {p} : trigger'[q] = trigger[q]
      BY <1>0, <2>3 DEF S!TypeOK
    <3>2. \A v \in S!User \ {u} : pcS[v] \in {"wait", "delete"} /\ S!PodOf(v) = p => p \notin podS
      BY <2>1 DEF TriggerInv, OwnTrigger
    <3>3. NotDeployed'
      BY <2>1 DEF TriggerInv, NotDeployed, S!User, S!PodOf
    <3>4. OwnTrigger'
      <4> SUFFICES ASSUME NEW v \in S!User, pcS'[v] \in {"wait", "delete"}, S!PodOf(v) \in podS
                   PROVE  trigger'[S!PodOf(v)].by = v
        BY <2>1 DEF OwnTrigger, S!User, S!PodOf
      <4>1. S!PodOf(v) \in S!AnyPod /\ v # u
        BY <2>1, ControlPlaneAssumption DEF S!SnapshotsAssumption, S!PodOf, S!User, S!AnyPod
      <4>2. QED
        BY <2>1, <3>1, <3>2, <4>1 DEF TriggerInv, OwnTrigger
    <3>5. CompleteRuns' /\ S!SnapshotIsOwn'
      BY <2>1, <3>1 DEF TriggerInv, CompleteRuns, S!SnapshotIsOwn, S!NoTrigger
    <3>6. QED
      BY <3>3, <3>4, <3>5 DEF TriggerInv
  <2>4. QED
    BY <2>1, <2>2, <2>3
<1>5. QED
  BY <1>1, <1>2, <1>3, <1>4 DEF S!Service

LEMMA SnapshotsKeepTriggers ==
  ASSUME S!TypeOK, TriggerInv, S!Next
  PROVE  TriggerInv'
<1> USE DEF S!Go, S!At
<1>0. S!TypeOK' /\ Job \subseteq S!User
  BY SnapshotTypes DEF S!User
<1>1. CASE S!Prepare
  <2>1. /\ UNCHANGED <<mine, trigger, podS>> /\ \A j \in Job : pcS[j] = "new"
        /\ \A v \in S!User : pcS'[v] = IF v \in Job THEN "reserve" ELSE pcS[v]
    BY <1>1 DEF S!Prepare
  <2>2. NotDeployed'
    BY <2>1 DEF TriggerInv, NotDeployed, S!User, S!PodOf
  <2>3. OwnTrigger'
    BY <2>1 DEF TriggerInv, OwnTrigger, S!User, S!PodOf
  <2>4. CompleteRuns' /\ S!SnapshotIsOwn'
    BY <2>1 DEF TriggerInv, CompleteRuns, S!SnapshotIsOwn
  <2>5. QED
    BY <1>0, <2>2, <2>3, <2>4 DEF TriggerInv
<1>2. ASSUME NEW o \in Op, S!Snapshot(o)
      PROVE  TriggerInv'
  <2>1. o \in S!User
    BY DEF S!User
  <2>2. /\ UNCHANGED <<mine, trigger, podS>> /\ \A v \in S!User \ {o} : pcS'[v] = pcS[v]
        /\ pcS'[o] = "find"
    BY <1>2, <2>1 DEF S!Snapshot, S!TypeOK
  <2>3. QED
    BY <1>0, <2>1, <2>2, PlainKeepsTriggers
<1>3. ASSUME NEW u \in S!User, S!Service(u)
      PROVE  TriggerInv'
  BY <1>0, <1>3, ServiceKeepsTriggers
<1>4. ASSUME NEW u \in S!User, S!Answer(u) \/ S!Crash(u)
      PROVE  TriggerInv'
  <2>1. /\ UNCHANGED <<mine, trigger, podS>> /\ \A v \in S!User \ {u} : pcS'[v] = pcS[v]
        /\ pcS'[u] = "done"
    BY <1>4 DEF S!Answer, S!Crash, S!TypeOK
  <2>2. QED
    BY <1>0, <2>1, PlainKeepsTriggers
<1>5. ASSUME NEW j \in Job, \/ S!Reserve(j) \/ S!Ready(j) \/ S!End(j)
                            \/ S!Report(j) \/ S!StatementFails(j)
      PROVE  TriggerInv'
  <2>1. /\ UNCHANGED <<mine, trigger, podS>> /\ \A v \in S!User \ {j} : pcS'[v] = pcS[v]
        /\ pcS'[j] \notin {"create", "wait", "delete", "new", "reserve"}
        /\ pcS'[j] = "deploy" => pcS[j] = "reserve"
    BY <1>0, <1>5 DEF S!Reserve, S!Ready, S!End, S!Report, S!NextOf, S!StatementFails,
                      S!TypeOK
  <2>2. QED
    BY <1>0, <2>1, PlainKeepsTriggers
<1>6. ASSUME NEW j \in Job, S!Deploy(j)
      PROVE  TriggerInv'
  <2>1. /\ UNCHANGED <<mine, trigger>> /\ podS' \in {podS, podS \cup {j}} /\ pcS[j] = "deploy"
        /\ pcS'[j] \in {"ready", "undo"} /\ \A v \in S!User \ {j} : pcS'[v] = pcS[v]
    BY <1>0, <1>6 DEF S!Deploy, S!TypeOK
  <2>2. \A v \in S!User : S!PodOf(v) = j => pcS[v] \notin {"create", "wait", "delete"}
    BY <2>1 DEF TriggerInv, NotDeployed
  <2>3. NotDeployed'
    BY <2>1 DEF TriggerInv, NotDeployed, S!User, S!PodOf
  <2>4. OwnTrigger'
    BY <2>1, <2>2 DEF TriggerInv, OwnTrigger, S!User, S!PodOf
  <2>5. CompleteRuns' /\ S!SnapshotIsOwn'
    BY <2>1 DEF TriggerInv, CompleteRuns, S!SnapshotIsOwn
  <2>6. QED
    BY <1>0, <2>3, <2>4, <2>5 DEF TriggerInv
<1>7. ASSUME NEW j \in Job, S!CleanUp(j)
      PROVE  TriggerInv'
  <2>1. /\ mine' = mine /\ \A v \in S!User \ {j} : pcS'[v] = pcS[v]
        /\ pcS'[j] \in {"undone", "stopped"}
        /\ \/ podS' = podS \ {j} /\ trigger' = [trigger EXCEPT ![j] = S!NoTrigger]
           \/ UNCHANGED <<podS, trigger>>
    BY <1>0, <1>7 DEF S!CleanUp, S!TypeOK
  <2>2. QED
    BY <1>0, <2>1, PlainKeepsTriggers, TakenDown
<1>8. ASSUME NEW j \in Job, S!Reaped(j)
      PROVE  TriggerInv'
  BY <1>0, <1>8, TakenDown DEF S!Reaped
<1>9. ASSUME NEW p \in S!AnyPod, S!Controller(p)
      PROVE  TriggerInv'
  <2>1. /\ UNCHANGED <<mine, pcS, podS>> /\ \A q \in S!AnyPod : trigger'[q].by = trigger[q].by
        /\ \A q \in S!AnyPod \ {p} : trigger'[q] = trigger[q]
        /\ trigger'[p].state = "complete" => p \in podS
    BY <1>9 DEF S!Controller, S!TypeOK
  <2>2. \A v \in S!User : S!PodOf(v) \in S!AnyPod
    BY ControlPlaneAssumption DEF S!SnapshotsAssumption, S!PodOf, S!User, S!AnyPod
  <2>3. NotDeployed' /\ OwnTrigger'
    BY <2>1, <2>2 DEF TriggerInv, NotDeployed, OwnTrigger, S!User, S!PodOf
  <2>4. CompleteRuns' /\ S!SnapshotIsOwn'
    BY <2>1 DEF TriggerInv, CompleteRuns, S!SnapshotIsOwn
  <2>5. QED
    BY <1>0, <2>3, <2>4 DEF TriggerInv
<1>10. QED
  BY <1>1, <1>2, <1>3, <1>4, <1>5, <1>6, <1>7, <1>8, <1>9 DEF S!Next, S!Step, S!Pipeline

-----------------------------------------------------------------------------
(* Snapshots: what is counted of a batch.                                  *)

\* A job's results are written before it is counted, and the batch's counters
\* are those of jobs that are over, unless a job is counted twice.
Untouched == prep.total = 0 => \A j \in Job : pcS[j] = "new"
BatchSize == prep.total \in {0, Cardinality(Job)}
Recorded ==
  \A j \in Job :
    /\ pcS[j] \in {"succeed", "count"} \/ jobS[j] = "SUCCESS" => j \in record
    /\ pcS[j] = "count" => jobS[j] = "SUCCESS"
    /\ pcS[j] = "countfail" => jobS[j] = "FAILURE"
Among(set, s) == {j \in set : jobS[j] = s}
CountedOf(set) ==
  /\ \A j \in set : pcS[j] = "done" /\ jobS[j] \in {"SUCCESS", "FAILURE"}
  /\ Cardinality(Among(set, "SUCCESS")) = prep.succeeded
  /\ Cardinality(Among(set, "FAILURE")) = prep.failed
Counted == "twice" \notin slips => \E set \in SUBSET Job : CountedOf(set)

BatchInv == S!TypeOK /\ Untouched /\ BatchSize /\ Recorded /\ Counted

LEMMA BatchIsFinal == BatchInv => S!ReadyIsFinal
<1>0. BatchInv => S!With("SUCCESS") \subseteq record
  BY DEF S!With, BatchInv, Recorded
<1> SUFFICES ASSUME BatchInv, S!BatchReady, "twice" \notin slips
             PROVE  /\ S!Cardinality(S!With("SUCCESS")) = prep.succeeded
                    /\ S!Cardinality(S!With("FAILURE")) = prep.failed
  BY <1>0 DEF S!ReadyIsFinal
<1>1. PICK set \in SUBSET Job : CountedOf(set)
  BY DEF BatchInv, Counted
<1> DEFINE won == Among(set, "SUCCESS")
           failed == Among(set, "FAILURE")
<1>2. IsFiniteSet(Job)
  BY ControlPlaneAssumption, SameFinite DEF S!SnapshotsAssumption
<1>3. IsFiniteSet(set) /\ IsFiniteSet(won) /\ IsFiniteSet(failed)
  BY <1>2, FS_Subset DEF Among
<1>4. won \cup failed = set /\ won \cap failed = {}
  BY <1>1 DEF CountedOf, Among
<1> HIDE DEF won, failed
<1>5. Cardinality(set) = Cardinality(won) + Cardinality(failed)
  <2>1. Cardinality(won \cap failed) = 0
    BY <1>4, FS_EmptySet
  <2>2. Cardinality(won) \in Nat /\ Cardinality(failed) \in Nat
    BY <1>3, FS_CardinalityType
  <2>3. Cardinality(won \cup failed)
          = Cardinality(won) + Cardinality(failed) - Cardinality(won \cap failed)
    BY <1>3, FS_Union
  <2>4. Cardinality(set)
          = Cardinality(won) + Cardinality(failed) - Cardinality(won \cap failed)
    BY ONLY <1>4, <2>3
  <2>5. QED
    BY ONLY <2>1, <2>2, <2>4
<1>6. prep.total = Cardinality(Job) /\ prep.succeeded + prep.failed >= prep.total
  BY DEF S!BatchReady, BatchInv, BatchSize
<1>7. Cardinality(set) >= Cardinality(Job)
  BY <1>1, <1>5, <1>6 DEF CountedOf, won, failed
<1>8. set = Job
  <2>1. Cardinality(set) \in Nat /\ Cardinality(Job) \in Nat
    BY <1>2, <1>3, FS_CardinalityType
  <2>2. /\ Cardinality(set) <= Cardinality(Job)
        /\ Cardinality(Job) = Cardinality(set) => Job = set
    <3> HIDE DEF CountedOf
    <3>1. set \in SUBSET Job
      OBVIOUS
    <3>2. QED
      BY ONLY <1>2, <3>1, FS_Subset
  <2>3. QED
    BY <1>7, <2>1, <2>2
<1>9. S!With("SUCCESS") = won /\ S!With("FAILURE") = failed
  BY <1>8 DEF S!With, Among, won, failed
<1>10. QED
  BY <1>1, <1>9, SameCardinality DEF CountedOf, won, failed

\* A step that leaves the counters and the jobs that are over alone.
LEMMA UncountedKeepsBatch ==
  ASSUME S!TypeOK', BatchInv, prep' = prep, slips \subseteq slips', record \subseteq record',
         \A j \in Job : pcS[j] = "done" => pcS'[j] = "done" /\ jobS'[j] = jobS[j],
         \A j \in Job : pcS[j] = "new" => pcS'[j] = "new",
         \A j \in Job :
            /\ pcS'[j] \in {"succeed", "count"} \/ jobS'[j] = "SUCCESS" => j \in record'
            /\ pcS'[j] = "count" => jobS'[j] = "SUCCESS"
            /\ pcS'[j] = "countfail" => jobS'[j] = "FAILURE"
  PROVE  BatchInv'
<1>1. Untouched' /\ BatchSize' /\ Recorded'
  BY DEF BatchInv, Untouched, BatchSize, Recorded
<1> SUFFICES ASSUME "twice" \notin slips' PROVE \E set \in SUBSET Job : CountedOf(set)'
  BY <1>1 DEF BatchInv, Counted
<1>2. PICK set \in SUBSET Job : CountedOf(set)
  BY DEF BatchInv, Counted
<1>3. \A j \in set : pcS'[j] = "done" /\ jobS'[j] = jobS[j]
  BY <1>2 DEF CountedOf
<1>4. \A s : {j \in set : jobS'[j] = s} = {j \in set : jobS[j] = s}
  BY <1>3
<1>5. Among(set, "SUCCESS")' = Among(set, "SUCCESS") /\ Among(set, "FAILURE")' = Among(set, "FAILURE")
  BY <1>4 DEF Among
<1>6. CountedOf(set)'
  BY <1>2, <1>3, <1>5 DEF CountedOf
<1>7. QED
  BY <1>6

LEMMA CountKeepsBatch ==
  ASSUME S!TypeOK, S!TypeOK', BatchInv, NEW j \in Job, UNCHANGED <<jobS, record>>, slips \subseteq slips',
         pcS[j] \in {"count", "countfail"}, pcS'[j] = "done",
         \A v \in S!User \ {j} : pcS'[v] = pcS[v],
         prep' = IF pcS[j] = "count" THEN [prep EXCEPT !.succeeded = @ + 1]
                 ELSE [prep EXCEPT !.failed = @ + 1]
  PROVE  BatchInv'
<1>0. \A i \in Job \ {j} : pcS'[i] = pcS[i]
  BY DEF S!User
<1>1. /\ prep'.total = prep.total
      /\ prep'.succeeded = IF pcS[j] = "count" THEN prep.succeeded + 1 ELSE prep.succeeded
      /\ prep'.failed = IF pcS[j] = "count" THEN prep.failed ELSE prep.failed + 1
  <2>1. prep \in [total : Nat, succeeded : Nat, failed : Nat]
    BY DEF S!TypeOK
  <2>2. QED
    BY <2>1
<1>2. Untouched' /\ BatchSize'
  BY <1>0, <1>1 DEF BatchInv, Untouched, BatchSize
<1>3. Recorded'
  BY <1>0 DEF BatchInv, Recorded
<1> SUFFICES ASSUME "twice" \notin slips' PROVE \E set \in SUBSET Job : CountedOf(set)'
  BY <1>2, <1>3 DEF BatchInv, Counted
<1>4. PICK set \in SUBSET Job : CountedOf(set)
  BY DEF BatchInv, Counted
<1> DEFINE all == set \cup {j}
<1>5. j \notin set /\ jobS[j] = IF pcS[j] = "count" THEN "SUCCESS" ELSE "FAILURE"
  BY <1>4 DEF CountedOf, BatchInv, Recorded
<1>6. IsFiniteSet(Among(set, "SUCCESS")) /\ IsFiniteSet(Among(set, "FAILURE"))
  BY ControlPlaneAssumption, SameFinite, FS_Subset DEF S!SnapshotsAssumption, Among
<1>7. \A s \in {"SUCCESS", "FAILURE"} :
        Among(all, s) = IF jobS[j] = s THEN Among(set, s) \cup {j} ELSE Among(set, s)
  BY DEF Among
<1>8. \A s \in {"SUCCESS", "FAILURE"} :
        Cardinality(Among(all, s)) = IF jobS[j] = s THEN Cardinality(Among(set, s)) + 1
                                                    ELSE Cardinality(Among(set, s))
  <2>1. \A s \in {"SUCCESS", "FAILURE"} : j \notin Among(set, s)
    BY <1>5 DEF Among
  <2>2. \A s \in {"SUCCESS", "FAILURE"} :
          Cardinality(Among(set, s) \cup {j}) = Cardinality(Among(set, s)) + 1
    <3> SUFFICES ASSUME NEW s \in {"SUCCESS", "FAILURE"}
                 PROVE  Cardinality(Among(set, s) \cup {j}) = Cardinality(Among(set, s)) + 1
      OBVIOUS
    <3> DEFINE before == Among(set, s)
    <3>1. IsFiniteSet(before) /\ j \notin before
      BY <1>6, <2>1
    <3> HIDE DEF before
    <3>2. Cardinality(before \cup {j}) = Cardinality(before) + 1
      BY <3>1, FS_AddElement
    <3>3. QED
      BY <3>2 DEF before
  <2>3. QED
    BY <1>7, <2>2
<1>9. \A s : Among(all, s)' = Among(all, s)
  BY DEF Among
<1>10. CountedOf(all)'
  BY <1>0, <1>1, <1>4, <1>5, <1>8, <1>9 DEF CountedOf
<1>11. QED
  BY <1>10

LEMMA SnapshotsKeepBatch ==
  ASSUME S!TypeOK, BatchInv, S!Next
  PROVE  BatchInv'
<1> USE DEF S!Go, S!At
<1>0. S!TypeOK' /\ Job \subseteq S!User /\ Job \cap Op = {}
  BY SnapshotTypes, ControlPlaneAssumption DEF S!User, S!SnapshotsAssumption
<1>1. CASE S!Prepare
  <2>1. /\ \A j \in Job : pcS[j] = "new" /\ pcS'[j] = "reserve" /\ jobS'[j] = "IN_PROGRESS"
        /\ slips' = slips /\ prep' = [prep EXCEPT !.total = S!Cardinality(Job)] /\ record' = record
    BY <1>0, <1>1 DEF S!Prepare
  <2>2. /\ prep'.total = Cardinality(Job)
        /\ prep'.succeeded = prep.succeeded /\ prep'.failed = prep.failed
    BY <2>1, SameCardinality DEF S!TypeOK
  <2>5. Counted'
    <3> SUFFICES ASSUME "twice" \notin slips PROVE \E set \in SUBSET Job : CountedOf(set)'
      BY <2>1 DEF Counted
    <3>1. PICK set \in SUBSET Job : CountedOf(set)
      BY DEF BatchInv, Counted
    <3>2. set = {}
      BY <2>1, <3>1 DEF CountedOf
    <3>3. \A s : Among(set, s) = {} /\ Among(set, s)' = {}
      BY <3>2 DEF Among
    <3>4. QED
      BY <2>2, <3>1, <3>2, <3>3 DEF CountedOf
  <2>6. Untouched'
    <3>1. IsFiniteSet(Job)
      BY ControlPlaneAssumption, SameFinite DEF S!SnapshotsAssumption
    <3>2. Cardinality(Job) = 0 => Job = {}
      BY <3>1, FS_EmptySet
    <3>3. QED
      BY <2>2, <3>2 DEF Untouched
  <2>7. BatchSize' /\ Recorded'
    BY <2>1, <2>2 DEF BatchSize, BatchInv, Recorded
  <2>8. QED
    BY <1>0, <2>5, <2>6, <2>7 DEF BatchInv
<1>2. ASSUME UNCHANGED <<jobS, record, prep>>, slips \subseteq slips', NEW u \in S!User,
             \A v \in S!User \ {u} : pcS'[v] = pcS[v], pcS[u] \notin {"new", "done"} \/ u \notin Job,
             pcS'[u] \notin {"succeed", "count", "countfail"}
      PROVE  BatchInv'
  <2>1. \A j \in Job :
          /\ pcS[j] = "done" => pcS'[j] = "done"
          /\ pcS[j] = "new" => pcS'[j] = "new"
          /\ pcS'[j] \in {"succeed", "count", "countfail"} => pcS'[j] = pcS[j]
    BY <1>0, <1>2
  <2>2. QED
    BY <1>0, <1>2, <2>1, UncountedKeepsBatch DEF BatchInv, Recorded
<1>3. ASSUME NEW o \in Op, S!Snapshot(o)
      PROVE  BatchInv'
  BY <1>0, <1>2, <1>3 DEF S!Snapshot, S!TypeOK, S!User
<1>4. ASSUME NEW u \in S!User, S!Service(u) \/ S!Crash(u)
      PROVE  BatchInv'
  <2>1. /\ UNCHANGED <<jobS, record, prep>> /\ \A v \in S!User \ {u} : pcS'[v] = pcS[v]
        /\ slips \subseteq slips' /\ pcS[u] \notin {"new", "done"}
        /\ pcS'[u] \notin {"succeed", "count", "countfail"}
    BY <1>4 DEF S!Service, S!Find, S!Create, S!CreateTrigger, S!Put, S!Wait, S!Delete, S!Crash, S!Raised, S!TypeOK
  <2>2. QED
    BY <1>2, <2>1
<1>5. ASSUME NEW o \in S!User, S!Answer(o)
      PROVE  BatchInv'
  BY <1>0, <1>2, <1>5 DEF S!Answer, S!TypeOK
<1>6. ASSUME NEW j \in Job, S!Reserve(j) \/ S!Deploy(j) \/ S!Ready(j) \/ S!CleanUp(j) \/ S!End(j)
      PROVE  BatchInv'
  <2>1. /\ UNCHANGED <<jobS, record, prep, slips>> /\ \A v \in S!User \ {j} : pcS'[v] = pcS[v]
        /\ pcS[j] \notin {"new", "done"}
        /\ pcS'[j] \notin {"succeed", "count", "countfail"}
    BY <1>0, <1>6 DEF S!Reserve, S!Deploy, S!Ready, S!CleanUp, S!End, S!TypeOK
  <2>2. QED
    BY <1>0, <1>2, <2>1
<1>7. ASSUME NEW j \in Job, \A v \in S!User \ {j} : pcS'[v] = pcS[v], slips \subseteq slips', S!Writes(j),
             \/ pcS'[j] = S!NextOf(j)
             \/ pcS[j] \in {"record", "succeed"} /\ pcS'[j] = "undo"
             \/ pcS[j] \in {"fail", "countfail"} /\ pcS'[j] = "done"
      PROVE  BatchInv'
  <2>1. \A i \in Job \ {j} : pcS'[i] = pcS[i]
    BY <1>0, <1>7
  <2>2. CASE pcS[j] = "record"
    <3>1. /\ UNCHANGED <<jobS, prep>> /\ record' = record \cup {j}
          /\ pcS'[j] \in {"succeed", "undo"}
      BY <1>7, <2>2 DEF S!Writes, S!Recorded, S!NextOf
    <3>2. QED
      BY <1>0, <1>7, <2>1, <2>2, <3>1, UncountedKeepsBatch DEF BatchInv, Recorded
  <2>3. CASE pcS[j] \in {"succeed", "fail"}
    <3>1. /\ UNCHANGED <<record, prep>>
          /\ \/ /\ pcS[j] = "succeed" /\ pcS'[j] \in {"count", "undo"}
                /\ jobS' = [jobS EXCEPT ![j] = "SUCCESS"]
             \/ /\ pcS[j] = "fail" /\ pcS'[j] \in {"countfail", "done"}
                /\ jobS' = [jobS EXCEPT ![j] = "FAILURE"]
      BY <1>7, <2>3 DEF S!Writes, S!Settled, S!NextOf
    <3>2. /\ \A i \in Job \ {j} : jobS'[i] = jobS[i]
          /\ jobS'[j] = IF pcS[j] = "succeed" THEN "SUCCESS" ELSE "FAILURE"
      BY <3>1 DEF S!TypeOK
    <3>3. QED
      BY <1>0, <1>7, <2>1, <3>1, <3>2, UncountedKeepsBatch DEF BatchInv, Recorded
  <2>4. CASE pcS[j] \in {"count", "countfail"}
    <3>1. /\ UNCHANGED <<jobS, record>> /\ pcS'[j] = "done"
          /\ prep' = IF pcS[j] = "count" THEN [prep EXCEPT !.succeeded = @ + 1]
                     ELSE [prep EXCEPT !.failed = @ + 1]
      BY <1>7, <2>4 DEF S!Writes, S!Counted, S!NextOf
    <3>2. QED
      BY <1>0, <1>7, <2>4, <3>1, CountKeepsBatch
  <2>5. QED
    BY <1>7, <2>2, <2>3, <2>4 DEF S!Writes
<1>8. ASSUME NEW j \in Job, S!StatementFails(j)
      PROVE  BatchInv'
  <2>1. /\ \A v \in S!User \ {j} : pcS'[v] = pcS[v]
        /\ pcS[j] \notin {"new", "done"} /\ slips \subseteq slips'
        /\ \/ /\ S!Writes(j)
              /\ \/ pcS[j] \in {"record", "succeed"} /\ pcS'[j] = "undo"
                 \/ pcS[j] \in {"fail", "countfail"} /\ pcS'[j] = "done"
           \/ /\ pcS[j] = "count" /\ S!Writes(j) /\ pcS'[j] = "undo" /\ "twice" \in slips'
           \/ UNCHANGED <<jobS, record, prep>> /\ pcS'[j] \in {"undo", "done"}
    BY <1>0, <1>8 DEF S!StatementFails, S!TypeOK
  <2>2. CASE pcS[j] = "count" /\ S!Writes(j) /\ pcS'[j] = "undo" /\ "twice" \in slips'
    <3>1. /\ UNCHANGED <<jobS, record>>
          /\ prep' = [prep EXCEPT !.succeeded = @ + 1]
      BY <2>2 DEF S!Writes, S!Counted
    <3>2. prep'.total = prep.total /\ \A i \in Job \ {j} : pcS'[i] = pcS[i]
      BY <1>0, <2>1, <3>1 DEF S!TypeOK
    <3>3. Untouched' /\ BatchSize' /\ Recorded'
      BY <2>2, <3>1, <3>2 DEF BatchInv, Untouched, BatchSize, Recorded
    <3>4. QED
      BY <1>0, <2>2, <3>3 DEF BatchInv, Counted
  <2>3. QED
    BY <1>0, <1>2, <1>7, <2>1, <2>2
<1>9. ASSUME NEW j \in Job, S!Report(j)
      PROVE  BatchInv'
  <2>1. /\ \A v \in S!User \ {j} : pcS'[v] = pcS[v]
        /\ slips' = slips /\ S!Writes(j) /\ pcS'[j] = S!NextOf(j)
    BY <1>0, <1>9 DEF S!Report, S!TypeOK
  <2>2. QED
    BY <1>7, <2>1
<1>10. ASSUME UNCHANGED <<pcS, jobS, record, prep, slips>>
       PROVE  BatchInv'
  BY <1>0, <1>10, UncountedKeepsBatch DEF BatchInv, Recorded
<1>11. ASSUME NEW j \in Job, S!Reaped(j)
       PROVE  BatchInv'
  BY <1>10, <1>11 DEF S!Reaped
<1>12. ASSUME NEW p \in S!AnyPod, S!Controller(p)
       PROVE  BatchInv'
  BY <1>10, <1>12 DEF S!Controller
<1>13. QED
  BY <1>1, <1>3, <1>4, <1>5, <1>6, <1>7, <1>8, <1>9, <1>11, <1>12 DEF S!Next, S!Step, S!Pipeline

LEMMA SnapshotsStart == S!Init => TriggerInv /\ BatchInv
<1> SUFFICES ASSUME S!Init
             PROVE  TriggerInv /\ BatchInv
  OBVIOUS
<1>1. S!TypeOK
  <2>1. /\ pcS \in [S!User -> S!Pc] /\ mine \in [S!User -> S!User \cup {None}]
        /\ podS \subseteq S!AnyPod /\ record \subseteq Job /\ slips = {} /\ faultsS = 0
    BY DEF S!Init, S!Pc, S!AnyPod
  <2>2. trigger \in [S!AnyPod -> [by : S!User \cup {None}, state : S!TriggerState]]
    BY DEF S!Init, S!NoTrigger, S!TriggerState
  <2>3. jobS \in [Job -> S!Status] /\ server \in [Job -> {"none", "held", "alive", "ended"}]
    BY DEF S!Init, S!Status
  <2>4. prep \in [total : Nat, succeeded : Nat, failed : Nat] /\ SnapshotFaults \in Nat
    BY ControlPlaneAssumption DEF S!Init, S!SnapshotsAssumption
  <2>5. QED
    BY <2>1, <2>2, <2>3, <2>4 DEF S!TypeOK
<1>2. NotDeployed /\ OwnTrigger /\ CompleteRuns /\ S!SnapshotIsOwn
  BY ControlPlaneAssumption DEF S!SnapshotsAssumption, S!Init, NotDeployed, OwnTrigger, CompleteRuns,
     S!SnapshotIsOwn, S!User, S!AnyPod, S!NoTrigger
<1>3. Untouched /\ BatchSize /\ Recorded
  BY DEF S!Init, S!User, Untouched, BatchSize, Recorded
<1>4. CountedOf({})
  <2>1. Among({}, "SUCCESS") = {} /\ Among({}, "FAILURE") = {}
    BY DEF Among
  <2>2. QED
    BY <2>1, FS_EmptySet DEF S!Init, CountedOf
<1>5. QED
  BY <1>1, <1>2, <1>3, <1>4 DEF TriggerInv, BatchInv, Counted

\* What the two are about does not change in a step of the other modules.
LEMMA SnapshotsUntouched ==
  ASSUME TriggerInv, BatchInv, UNCHANGED sVars
  PROVE  TriggerInv' /\ BatchInv'
<1> USE DEF sVars
<1>1. S!TypeOK'
  BY DEF TriggerInv, S!TypeOK
<1>2. TriggerInv'
  BY <1>1 DEF TriggerInv, NotDeployed, OwnTrigger, CompleteRuns, S!SnapshotIsOwn, S!User, S!AnyPod, S!PodOf
<1>3. Untouched' /\ BatchSize' /\ Recorded'
  BY DEF BatchInv, Untouched, BatchSize, Recorded
<1>4. \A set \in SUBSET Job : CountedOf(set) => CountedOf(set)'
  BY DEF CountedOf, Among
<1>5. QED
  BY <1>1, <1>2, <1>3, <1>4 DEF BatchInv, Counted

LEMMA SnapshotsInductive == Spec => [](TriggerInv /\ BatchInv)
<1>1. Init => TriggerInv /\ BatchInv
  BY SnapshotsStart DEF Init
<1>2. TriggerInv /\ BatchInv /\ [Next]_vars => (TriggerInv /\ BatchInv)'
  <2> SUFFICES ASSUME TriggerInv, BatchInv, [Next]_vars
               PROVE  TriggerInv' /\ BatchInv'
    OBVIOUS
  <2>1. CASE SnapshotsNext
    BY <2>1, SnapshotsKeepTriggers, SnapshotsKeepBatch DEF SnapshotsNext, TriggerInv
  <2>2. CASE MigrationsNext \/ ReadinessNext \/ UNCHANGED vars
    BY <2>2, SnapshotsUntouched DEF MigrationsNext, ReadinessNext, vars
  <2>3. QED
    BY <2>1, <2>2 DEF Next
<1>3. QED
  BY <1>1, <1>2, PTL DEF Spec

(* Whatever fails and whoever dies, a task that reports a snapshot reports *)
(* the one of the trigger that it made itself: never that of another       *)
(* operation on the same pod, nor of a server that had the name before     *)
(* (PodSnapshotService.create_snapshot).                                   *)
THEOREM SnapshotIsOwnHolds == Spec => []SnapshotIsOwn
<1>1. TriggerInv => SnapshotIsOwn
  BY DEF TriggerInv, SnapshotIsOwn
<1>2. QED
  BY <1>1, SnapshotsInductive, PTL

(* For any number of jobs: each success has its row in snapshots; and once *)
(* the counters say that a batch is complete, they are the numbers of its  *)
(* jobs that succeeded and failed, unless a count took effect and raised   *)
(* (get_snapshot_prepare_status).                                          *)
THEOREM ReadyIsFinalHolds == Spec => []ReadyIsFinal
<1>1. BatchInv => ReadyIsFinal
  BY BatchIsFinal DEF ReadyIsFinal
<1>2. QED
  BY <1>1, SnapshotsInductive, PTL

-----------------------------------------------------------------------------
(* Migrations: what is known of the Job.                                   *)

\* A Job succeeds by reverting the schema, and Helm is run after one that did.
Reverted ==
  /\ jobM.pc = "succeeded" => jobM.reverted
  /\ op \in {"helm", "rollout", "verify"} /\ OldHead # NewHead => jobM.reverted

MigrationInv == M!TypeOK /\ Reverted

LEMMA ReplicasKeepTypes ==
  ASSUME M!TypeOK, NEW p \in Replica,
         M!Startup(p) \/ M!Dies(p) \/ M!Terminate(p) \/ M!Gone(p)
  PROVE  M!TypeOK' /\ UNCHANGED <<jobM, op>>
<1> USE DEF M!Released, M!Fault, M!NoFault
<1>0. OldHead \in Nat /\ NewHead \in Nat /\ OldHead <= NewHead /\ MigrationFaults \in Nat
  BY ControlPlaneAssumption DEF M!MigrationsAssumption
<1>a. M!NoPod \in M!ReplicaState
  BY <1>0 DEF M!NoPod, M!ReplicaState, M!Release, M!PodPc, M!Revision
<1>b. podM[p] \in M!ReplicaState /\ podM[p].seen \in M!Revision /\ M!Head(p) \in M!Revision
  BY <1>0 DEF M!TypeOK, M!ReplicaState, M!Head, M!HeadOf, M!Revision
<1>c. ASSUME NEW to \in M!PodPc, NEW read \in M!Revision, M!Set(p, to, read)
      PROVE  podM' \in [Replica -> M!ReplicaState]
  <2> DEFINE new == [podM[p] EXCEPT !.pc = to, !.seen = read]
  <2>1. new \in M!ReplicaState
    BY <1>b DEF M!ReplicaState
  <2>2. podM' = [podM EXCEPT ![p] = new]
    BY <1>c DEF M!Set
  <2> HIDE DEF new
  <2>3. QED
    BY <2>1, <2>2 DEF M!TypeOK
<1>d. ASSUME NEW to \in M!PodPc, M!Go(p, to)
      PROVE  podM' \in [Replica -> M!ReplicaState]
  BY <1>b, <1>c, <1>d DEF M!Go
<1>e. ASSUME M!Exits(p)
      PROVE  podM' \in [Replica -> M!ReplicaState]
  <2> DEFINE again == [podM[p] EXCEPT !.pc = "lock"]
  <2>1. again \in M!ReplicaState
    BY <1>b DEF M!ReplicaState, M!PodPc
  <2>2. podM' = [podM EXCEPT ![p] = IF podM[p].dying THEN M!NoPod ELSE again]
    BY <1>e DEF M!Exits
  <2> HIDE DEF again
  <2>3. QED
    BY <1>a, <2>1, <2>2 DEF M!TypeOK
<1>1. CASE M!Start(p)
  <2> DEFINE new == [M!NoPod EXCEPT !.image = release, !.pc = "lock"]
  <2>1. new \in M!ReplicaState
    BY <1>a DEF M!TypeOK, M!ReplicaState, M!PodPc
  <2>2. /\ podM' = [podM EXCEPT ![p] = new]
        /\ UNCHANGED <<rev, rule, lock, release, want, jobM, op, overlap, faultsM>>
    BY <1>1 DEF M!Start
  <2> HIDE DEF new
  <2>3. QED
    BY <2>1, <2>2 DEF M!TypeOK
<1>2. CASE M!TryLock(p)
  <2>1. podM' \in [Replica -> M!ReplicaState]
    BY <1>2, <1>c, <1>d DEF M!TryLock, M!TypeOK, M!PodPc
  <2>2. QED
    BY <1>2, <2>1 DEF M!TryLock, M!TypeOK
<1>3. CASE M!Migrated(p)
  <2>1. rev' \in M!Revision /\ lock' \in Replica \cup {None, "job"}
    BY <1>b, <1>3 DEF M!Migrated, M!TypeOK
  <2>2. podM' \in [Replica -> M!ReplicaState]
    BY <1>3, <1>d, <1>e DEF M!Migrated, M!PodPc
  <2>3. UNCHANGED <<rule, release, want, jobM, op, overlap, faultsM>>
    BY <1>3 DEF M!Migrated
  <2>4. QED
    BY <2>1, <2>2, <2>3 DEF M!TypeOK
<1>4. CASE M!Waited(p)
  <2>1. podM' \in [Replica -> M!ReplicaState]
    BY <1>4, <1>d DEF M!Waited, M!PodPc
  <2>2. QED
    BY <1>4, <2>1 DEF M!Waited, M!TypeOK
<1>5. CASE M!TimesOut(p)
  <2>1. lock' \in Replica \cup {None, "job"} /\ faultsM' \in 0 .. MigrationFaults
    BY <1>0, <1>5 DEF M!TimesOut, M!TypeOK
  <2>2. podM' \in [Replica -> M!ReplicaState]
    BY <1>5, <1>d, <1>e DEF M!TimesOut, M!PodPc
  <2>3. UNCHANGED <<rev, rule, release, want, jobM, op, overlap>>
    BY <1>5 DEF M!TimesOut
  <2>4. QED
    BY <2>1, <2>2, <2>3 DEF M!TypeOK
<1>6. CASE M!Seed(p)
  <2>1. rule' = rule \/ rule' = TRUE
    BY <1>6 DEF M!Seed
  <2>2. rule' \in BOOLEAN
    BY <2>1 DEF M!TypeOK
  <2>3. podM' \in [Replica -> M!ReplicaState]
    <3>1. M!Go(p, "serving") \/ M!Go(p, "insert") \/ M!Exits(p)
      BY <1>6 DEF M!Seed
    <3>2. QED
      BY <3>1, <1>d, <1>e DEF M!PodPc
  <2>4. UNCHANGED <<rev, lock, release, want, jobM, op, overlap, faultsM>>
    BY <1>6 DEF M!Seed
  <2>5. QED
    BY <2>2, <2>3, <2>4 DEF M!TypeOK
<1>7. CASE M!Dies(p)
  BY <1>0, <1>7, <1>e DEF M!Dies, M!TypeOK
<1>8. CASE M!Terminate(p)
  <2> DEFINE new == [podM[p] EXCEPT !.dying = TRUE]
  <2>1. new \in M!ReplicaState
    BY <1>b DEF M!ReplicaState
  <2>2. /\ podM' = [podM EXCEPT ![p] = new]
        /\ UNCHANGED <<rev, rule, lock, release, want, jobM, op, overlap, faultsM>>
    BY <1>8 DEF M!Terminate
  <2> HIDE DEF new
  <2>3. QED
    BY <2>1, <2>2 DEF M!TypeOK
<1>9. CASE M!Gone(p)
  BY <1>a, <1>9 DEF M!Gone, M!TypeOK
<1>10. QED
  BY <1>1, <1>2, <1>3, <1>4, <1>5, <1>6, <1>7, <1>8, <1>9 DEF M!Startup

LEMMA JobAndScriptKeepInv ==
  ASSUME MigrationInv,
         \/ M!JobLocks \/ M!JobMigrates \/ M!JobBreaks
         \/ M!HelmUpgrade \/ M!Begin \/ M!Script \/ M!Recover
  PROVE  MigrationInv'
<1> USE DEF M!Released, M!Fault, M!NoFault, M!OpAt, M!OpGo, M!NoJob
<1>0. /\ OldHead \in M!Revision /\ MigrationFaults \in Nat
      /\ jobM \in [pc : M!JobPc, seen : M!Revision, reverted : BOOLEAN]
  BY ControlPlaneAssumption DEF M!MigrationsAssumption, M!Revision, MigrationInv, M!TypeOK, M!JobRecord
<1>1. CASE M!JobLocks
  <2>1. jobM' \in M!JobRecord /\ jobM'.reverted = jobM.reverted /\ jobM'.pc # "succeeded"
    BY <1>0, <1>1 DEF M!JobLocks, M!JobRecord, M!JobPc, MigrationInv, M!TypeOK
  <2>2. lock' \in Replica \cup {None, "job"} /\ UNCHANGED <<rev, rule, release, want, podM, op, overlap, faultsM>>
    BY <1>1 DEF M!JobLocks, MigrationInv, M!TypeOK
  <2>3. QED
    BY <2>1, <2>2 DEF MigrationInv, M!TypeOK, Reverted
<1>2. CASE M!JobMigrates
  <2> DEFINE done == jobM.seen = rev
  <2>1. jobM' \in M!JobRecord
    BY <1>0, <1>2 DEF M!JobMigrates, M!JobRecord, M!JobPc
  <2>2. jobM'.reverted = (jobM.reverted \/ done)
    BY <1>0, <1>2 DEF M!JobMigrates
  <2>3. jobM'.pc = "succeeded" => done
    BY <1>0, <1>2 DEF M!JobMigrates
  <2>4. rev' \in M!Revision /\ lock' \in Replica \cup {None, "job"}
        /\ UNCHANGED <<rule, release, want, podM, op, overlap, faultsM>>
    BY <1>0, <1>2 DEF M!JobMigrates, M!Target, MigrationInv, M!TypeOK
  <2> HIDE DEF done
  <2>5. Reverted'
    BY <2>2, <2>3, <2>4 DEF MigrationInv, Reverted
  <2>6. QED
    BY <2>1, <2>4, <2>5 DEF MigrationInv, M!TypeOK
<1>3. CASE M!JobBreaks
  <2>1. jobM' \in M!JobRecord /\ jobM'.reverted = jobM.reverted /\ jobM'.pc # "succeeded"
    BY <1>0, <1>3 DEF M!JobBreaks, M!JobRecord, M!JobPc
  <2>2. /\ lock' \in Replica \cup {None, "job"} /\ faultsM' \in 0 .. MigrationFaults
        /\ UNCHANGED <<rev, rule, release, want, podM, op, overlap>>
    BY <1>0, <1>3 DEF M!JobBreaks, MigrationInv, M!TypeOK
  <2>3. QED
    BY <2>1, <2>2 DEF MigrationInv, M!TypeOK, Reverted
<1>4. CASE M!HelmUpgrade
  BY <1>4 DEF M!HelmUpgrade, MigrationInv, M!TypeOK, M!Release, Reverted
<1>5. CASE M!Begin
  BY <1>5 DEF M!Begin, MigrationInv, M!TypeOK, M!OpPc, Reverted
<1>6. CASE M!Preflight
  BY <1>0, <1>6 DEF M!Preflight, MigrationInv, M!TypeOK, M!OpPc, Reverted
<1>7. CASE M!ScaleDown
  <2>1. want' = FALSE \/ want' = want
    BY <1>7 DEF M!ScaleDown
  <2>2. want' \in BOOLEAN
    BY <2>1 DEF MigrationInv, M!TypeOK
  <2>3. \/ faultsM' = faultsM
        \/ faultsM < MigrationFaults /\ faultsM' = faultsM + 1
    BY <1>7 DEF M!ScaleDown
  <2>4. op' \in {"drain", "failed"} /\ UNCHANGED <<rev, rule, lock, release, podM, jobM, overlap>>
    BY <1>7 DEF M!ScaleDown
  <2>5. faultsM' \in 0 .. MigrationFaults
    BY <1>0, <2>3 DEF MigrationInv, M!TypeOK
  <2>6. QED
    BY <2>2, <2>4, <2>5 DEF MigrationInv, M!TypeOK, M!OpPc, Reverted
<1>8. CASE M!Drain
  BY <1>0, <1>8 DEF M!Drain, MigrationInv, M!TypeOK, M!OpPc, Reverted
<1>9. CASE M!CreateJob
  <2>1. /\ jobM' \in M!JobRecord
        /\ jobM' = jobM \/ jobM'.pc = "lock"
    BY <1>0, <1>9 DEF M!CreateJob, M!JobRecord, M!JobPc
  <2>2. /\ faultsM' \in 0 .. MigrationFaults /\ op' \in {"await", "failed"}
        /\ UNCHANGED <<rev, rule, lock, release, want, podM>>
    BY <1>0, <1>9 DEF M!CreateJob, MigrationInv, M!TypeOK
  <2>3. overlap' = overlap \/ overlap' = (overlap \/ \E p \in Replica : podM[p].pc # "none")
    BY <1>9 DEF M!CreateJob
  <2>4. overlap' \in BOOLEAN
    BY <2>3 DEF MigrationInv, M!TypeOK
  <2>5. QED
    BY <2>1, <2>2, <2>4 DEF MigrationInv, M!TypeOK, M!OpPc, Reverted
<1>10. CASE M!AwaitJob
  <2>1. /\ jobM' \in M!JobRecord /\ jobM'.reverted = jobM.reverted
        /\ jobM'.pc = "succeeded" => jobM.pc = "succeeded"
        /\ op' = "helm" => jobM.pc = "succeeded"
        /\ op' \in {"helm", "failed"} /\ faultsM' \in 0 .. MigrationFaults
        /\ UNCHANGED <<rev, rule, lock, release, want, podM, overlap>>
    BY <1>0, <1>10 DEF M!AwaitJob, M!Awaited, M!JobRecord, M!JobPc, MigrationInv, M!TypeOK
  <2>2. QED
    BY <2>1 DEF MigrationInv, M!TypeOK, M!OpPc, Reverted
<1>11. CASE M!HelmRollback
  <2>1. want' = TRUE \/ want' = want
    BY <1>11 DEF M!HelmRollback
  <2>2. want' \in BOOLEAN
    BY <2>1 DEF MigrationInv, M!TypeOK
  <2>3. /\ op = "helm" /\ op' \in {"rollout", "failed"} /\ faultsM' \in 0 .. MigrationFaults
        /\ release' \in M!Release /\ UNCHANGED <<rev, rule, lock, podM, jobM, overlap>>
    BY <1>0, <1>11 DEF M!HelmRollback, M!Release, MigrationInv, M!TypeOK
  <2>4. QED
    BY <2>2, <2>3 DEF MigrationInv, M!TypeOK, M!OpPc, Reverted
<1>12. CASE M!Verify
  BY <1>0, <1>12 DEF M!Verify, MigrationInv, M!TypeOK, M!OpPc, Reverted
<1>13. CASE M!Recover
  <2>1. /\ jobM' \in M!JobRecord /\ jobM'.pc = "none" /\ op' \in {"done", "idle"}
        /\ UNCHANGED <<rev, rule, lock, release, podM, overlap, faultsM>>
    BY <1>0, <1>13 DEF M!Recover, M!JobRecord, M!JobPc
  <2>2. want' = TRUE \/ want' = want
    BY <1>13 DEF M!Recover
  <2>3. want' \in BOOLEAN
    BY <2>2 DEF MigrationInv, M!TypeOK
  <2>4. QED
    BY <2>1, <2>3 DEF MigrationInv, M!TypeOK, M!OpPc, Reverted
<1>14. QED
  BY <1>1, <1>2, <1>3, <1>4, <1>5, <1>6, <1>7, <1>8, <1>9, <1>10, <1>11, <1>12, <1>13 DEF M!Script

LEMMA MigrationsInductive == Spec => []MigrationInv
<1>1. ASSUME Init
      PROVE  MigrationInv
  <2>1. 0 \in M!Revision /\ MigrationFaults \in Nat
    BY ControlPlaneAssumption DEF M!MigrationsAssumption, M!Revision
  <2>2. M!NoPod \in M!ReplicaState
    BY <2>1 DEF M!NoPod, M!ReplicaState, M!Release, M!PodPc
  <2>3. podM \in [Replica -> M!ReplicaState]
    BY <1>1, <2>2 DEF Init, M!Init
  <2>4. jobM \in M!JobRecord /\ jobM.pc # "succeeded"
    BY <1>1, <2>1 DEF Init, M!Init, M!JobRecord, M!JobPc
  <2>5. rule \in BOOLEAN /\ want \in BOOLEAN /\ overlap \in BOOLEAN
    BY <1>1 DEF Init, M!Init
  <2>6. rev = 0 /\ lock = None /\ release = "old" /\ op = "idle" /\ faultsM = 0
    BY <1>1 DEF Init, M!Init
  <2>7. QED
    BY <2>1, <2>3, <2>4, <2>5, <2>6 DEF MigrationInv, Reverted, M!TypeOK, M!Release, M!OpPc
<1>2. MigrationInv /\ [Next]_vars => MigrationInv'
  <2> SUFFICES ASSUME MigrationInv, [Next]_vars
               PROVE  MigrationInv'
    OBVIOUS
  <2>1. CASE MigrationsNext
    <3>1. CASE \E p \in Replica : M!Startup(p) \/ M!Dies(p) \/ M!Terminate(p) \/ M!Gone(p)
      BY <3>1, ReplicasKeepTypes DEF MigrationInv, Reverted
    <3>2. CASE \/ M!JobLocks \/ M!JobMigrates \/ M!JobBreaks
               \/ M!HelmUpgrade \/ M!Begin \/ M!Script \/ M!Recover
      BY <3>2, JobAndScriptKeepInv
    <3>3. QED
      BY <2>1, <3>1, <3>2 DEF MigrationsNext, M!Next
  <2>2. CASE SnapshotsNext \/ ReadinessNext \/ UNCHANGED vars
    BY <2>2 DEF SnapshotsNext, ReadinessNext, vars, mVars, MigrationInv, M!TypeOK, Reverted
  <2>3. QED
    BY <2>1, <2>2 DEF Next
<1>3. QED
  BY <1>1, <1>2, PTL DEF Spec

(* For any replicas and revisions, and whatever fails: Helm is never run   *)
(* for a rollback whose downgrade has not committed; while it brings the   *)
(* older release back, the Job of this very attempt has restored its       *)
(* schema (_rollback).                                                     *)
THEOREM HelmAfterDowngradeHolds == Spec => []HelmAfterDowngrade
<1>1. MigrationInv => HelmAfterDowngrade
  BY DEF MigrationInv, Reverted, HelmAfterDowngrade, M!HelmAfterDowngrade
<1>2. QED
  BY <1>1, MigrationsInductive, PTL

-----------------------------------------------------------------------------
(* PodReadiness: what a wait knows of its stint.                           *)

\* The clock of a stint runs since the poll that began it.
SinceSeen ==
  /\ seen = since
  /\ pcW \in {"ask", "events"} => since # W!Never
  /\ since = W!Never => told = FALSE
\* What was promised is granted.
Granted ==
  since # W!Never => /\ granted >= W!Seconds(budget[1])
                     /\ told = TRUE => granted >= W!Seconds(budget[2])
InTime == W!Awaits => now <= WaitTimeout
PullsLeft == pcW # "done" => pulls < MaxPulls
\* An outcome is the end.
Undecided == pcW # "done" => outcome = "none"

ReadinessInv ==
  W!TypeOK /\ SinceSeen /\ Granted /\ InTime /\ PullsLeft /\ Undecided /\ W!BudgetsKept

\* The constants and a budget, as numbers.
LEMMA Numbers ==
  ASSUME W!TypeOK
  PROVE  /\ WaitTimeout \in Nat \ {0} /\ DiagnosisTimeout \in Nat /\ MaxPulls \in Nat \ {0}
         /\ budget[1] \in Nat /\ budget[2] \in Nat
         /\ W!Unbounded \in Nat /\ W!Unbounded > WaitTimeout
         /\ W!Seconds(budget[1]) \in Nat /\ W!Seconds(budget[2]) \in Nat
         /\ W!Never = -1
<1>1. WaitTimeout \in Nat \ {0} /\ DiagnosisTimeout \in Nat /\ MaxPulls \in Nat \ {0}
  BY ControlPlaneAssumption DEF W!PodReadinessAssumption
<1>2. budget[1] \in Nat /\ budget[2] \in Nat
  BY ControlPlaneAssumption DEF W!PodReadinessAssumption, W!TypeOK
<1>3. QED
  BY <1>1, <1>2 DEF W!Unbounded, W!Seconds, W!Never

\* The pods of a poll that failed are counted, and end the wait at the limit.
LEMMA CountedPulls ==
  ASSUME W!TypeOK, PullsLeft, pcW # "done", NEW failed \in BOOLEAN, W!CountPulls(failed)
  PROVE  /\ pulls' \in 0 .. MaxPulls
         /\ pcW' # "done" => pulls' < MaxPulls
         /\ \/ pcW' = "done" /\ outcome' = "pull errors"
            \/ pcW' = "sleep" /\ outcome' = outcome
<1>1. MaxPulls \in Nat \ {0} /\ pulls \in 0 .. MaxPulls /\ pulls < MaxPulls
  BY Numbers DEF W!TypeOK, PullsLeft
<1>2. CASE failed
  <2>1. /\ pulls' = pulls + 1
        /\ pulls + 1 >= MaxPulls => pcW' = "done" /\ outcome' = "pull errors"
        /\ ~(pulls + 1 >= MaxPulls) => pcW' = "sleep" /\ outcome' = outcome
    BY <1>2, Zenon DEF W!CountPulls, W!Ends, W!Go
  <2>2. pulls' = pulls + 1
    BY <2>1
  <2>3. pulls' \in 0 .. MaxPulls /\ (~(pulls + 1 >= MaxPulls) => pulls' < MaxPulls)
    BY <1>1, <2>2
  <2>4. QED
    BY <2>1, <2>3, Zenon
<1>3. CASE ~failed
  <2>1. pulls' = 0 /\ pcW' = "sleep" /\ outcome' = outcome
    BY <1>3, Zenon DEF W!CountPulls, W!Ends, W!Go
  <2>2. QED
    BY <1>1, <2>1
<1>4. QED
  BY <1>2, <1>3

LEMMA PollKeepsInv ==
  ASSUME ReadinessInv, W!Poll
  PROVE  ReadinessInv'
<1>0. /\ WaitTimeout \in Nat /\ DiagnosisTimeout \in Nat /\ granted \in Nat
      /\ W!Seconds(budget[1]) \in Nat /\ W!Seconds(budget[2]) \in Nat
      /\ since = W!Never \/ since \in 0 .. WaitTimeout
      /\ since # W!Never => granted >= W!Seconds(budget[1])
  BY Numbers DEF ReadinessInv, W!TypeOK, Granted
<1>1. /\ pcW = "list" /\ UNCHANGED <<pods, budget, now, asked>> /\ failing' \in BOOLEAN
      /\ now \in 0 .. WaitTimeout /\ W!PullError \in BOOLEAN
  <2>1. pcW = "list" /\ UNCHANGED <<pods, budget, now, asked>> /\ failing' = W!PullError
    BY DEF W!Poll
  <2>2. W!PullError \in BOOLEAN
    BY DEF W!PullError
  <2>3. now \in 0 .. WaitTimeout
    <3>1. now \in 0 .. WaitTimeout + DiagnosisTimeout /\ now <= WaitTimeout
      BY <2>1 DEF ReadinessInv, W!TypeOK, InTime, W!Awaits
    <3>2. QED
      BY <1>0, <3>1
  <2>4. QED
    BY <2>1, <2>2, <2>3
<1>2. CASE W!Ready /\ ~W!Terminating
  <2>1. pcW' = "done" /\ outcome' = "ready" /\ UNCHANGED <<since, granted, pulls, seen, told>>
    BY <1>2 DEF W!Poll, W!Ends
  <2>2. QED
    BY <1>1, <2>1 DEF ReadinessInv, W!TypeOK, SinceSeen, Granted, W!Seconds, W!Unbounded, InTime, W!Awaits,
       PullsLeft, Undecided, W!BudgetsKept
<1>3. CASE ~(W!Ready /\ ~W!Terminating) /\ W!Unscheduled = {}
  <2>1. /\ since' = W!Never /\ seen' = W!Never /\ told' = FALSE /\ granted' = granted
        /\ W!CountPulls(W!PullError)
    BY <1>3 DEF W!Poll, W!NoStint
  <2>2. /\ pulls' \in 0 .. MaxPulls
        /\ pcW' # "done" => pulls' < MaxPulls
        /\ \/ pcW' = "done" /\ outcome' = "pull errors"
           \/ pcW' = "sleep" /\ outcome' = outcome
    BY <1>1, <2>1, CountedPulls DEF ReadinessInv
  <2>3. W!TypeOK'
    BY <1>1, <2>1, <2>2 DEF ReadinessInv, W!TypeOK, Undecided
  <2>4. SinceSeen' /\ Granted'
    BY <2>1, <2>2 DEF SinceSeen, Granted
  <2>5. InTime' /\ PullsLeft' /\ Undecided' /\ W!BudgetsKept'
    BY <1>1, <2>1, <2>2 DEF ReadinessInv, InTime, W!Awaits, PullsLeft, Undecided, W!BudgetsKept
  <2>6. QED
    BY <2>3, <2>4, <2>5 DEF ReadinessInv
<1>4. CASE ~(W!Ready /\ ~W!Terminating) /\ W!Unscheduled # {}
  <2>1. /\ since' = W!Stint /\ granted' = W!GrantOfStint /\ told' = told
        /\ seen' = W!Stint
        /\ \/ pcW' = "ask" /\ UNCHANGED <<outcome, pulls>>
           \/ W!CountPulls(W!PullError)
    BY <1>4 DEF W!Poll, W!Go, W!Stint, ReadinessInv, SinceSeen
  <2>2. /\ pulls' \in 0 .. MaxPulls
        /\ pcW' # "done" => pulls' < MaxPulls
        /\ \/ pcW' = "done" /\ outcome' = "pull errors"
           \/ pcW' \in {"ask", "sleep"} /\ outcome' = outcome
    <3>1. CASE pcW' = "ask" /\ UNCHANGED <<outcome, pulls>>
      BY <1>1, <3>1 DEF ReadinessInv, W!TypeOK, PullsLeft
    <3>2. CASE W!CountPulls(W!PullError)
      BY <1>1, <3>2, CountedPulls DEF ReadinessInv
    <3>3. QED
      BY <2>1, <3>1, <3>2
  <2>3. /\ since' \in 0 .. WaitTimeout /\ granted' \in Nat /\ granted' >= W!Seconds(budget[1])
        /\ since = W!Never => told = FALSE
        /\ since # W!Never => granted' = granted
    <3>1. since' \in 0 .. WaitTimeout
      BY <1>0, <1>1, <2>1 DEF W!Stint
    <3>2. granted' \in Nat /\ granted' >= W!Seconds(budget[1]) /\ (since # W!Never => granted' = granted)
      BY <1>0, <2>1 DEF W!GrantOfStint
    <3>3. QED
      BY <3>1, <3>2 DEF ReadinessInv, SinceSeen
  <2>4. W!TypeOK'
    BY <1>1, <2>1, <2>2, <2>3 DEF ReadinessInv, W!TypeOK, Undecided
  <2>5. W!Seconds(budget[1])' = W!Seconds(budget[1]) /\ W!Seconds(budget[2])' = W!Seconds(budget[2])
    BY <1>1 DEF W!Seconds, W!Unbounded
  <2>6. since' # W!Never
    BY <2>3, Numbers DEF ReadinessInv
  <2>7. told = TRUE => granted' >= W!Seconds(budget[2])
    BY <2>3 DEF ReadinessInv, Granted
  <2>8. SinceSeen' /\ Granted'
    BY <2>1, <2>3, <2>5, <2>6, <2>7 DEF SinceSeen, Granted
  <2>9. InTime' /\ PullsLeft' /\ Undecided' /\ W!BudgetsKept'
    BY <1>1, <2>2 DEF ReadinessInv, InTime, W!Awaits, PullsLeft, Undecided, W!BudgetsKept
  <2>10. QED
    BY <2>4, <2>8, <2>9 DEF ReadinessInv
<1>5. QED
  BY <1>2, <1>3, <1>4

LEMMA AskKeepsInv ==
  ASSUME ReadinessInv, W!AskPods \/ W!AskEvents
  PROVE  ReadinessInv'
<1>0. /\ WaitTimeout \in Nat \ {0} /\ DiagnosisTimeout \in Nat /\ granted \in Nat
      /\ budget[1] \in Nat /\ budget[2] \in Nat
      /\ W!Unbounded \in Nat /\ W!Unbounded > WaitTimeout
      /\ W!Seconds(budget[1]) \in Nat /\ W!Seconds(budget[2]) \in Nat
  BY Numbers DEF ReadinessInv, W!TypeOK
<1>1. CASE W!AskPods
  <2>1. /\ pcW = "ask" /\ pcW' = "events" /\ asked' \subseteq Pod
        /\ UNCHANGED <<pods, budget, now, since, granted, failing, pulls, seen, told, outcome>>
    BY <1>1 DEF W!AskPods, W!Go, W!Unscheduled, W!Remaining, W!Present
  <2>2. W!TypeOK'
    BY <2>1 DEF ReadinessInv, W!TypeOK
  <2>3. SinceSeen' /\ Granted'
    BY <2>1 DEF ReadinessInv, SinceSeen, Granted, W!Seconds, W!Unbounded
  <2>4. InTime' /\ PullsLeft' /\ Undecided' /\ W!BudgetsKept'
    BY <2>1 DEF ReadinessInv, InTime, W!Awaits, PullsLeft, Undecided, W!BudgetsKept
  <2>5. QED
    BY <2>2, <2>3, <2>4 DEF ReadinessInv
<1>2. CASE W!AskEvents
  <2>1. PICK verdict \in W!Verdicts :
          /\ granted' = W!Extended(verdict)
          /\ told' = (told \/ verdict = "in flight")
          /\ IF now - since >= W!Extended(verdict)
             THEN W!Ends("unschedulable") /\ UNCHANGED <<pulls, asked>>
             ELSE W!CountPulls(failing) /\ asked' = {}
    BY <1>2 DEF W!AskEvents
  <2>2. pcW = "events" /\ UNCHANGED <<pods, budget, now, since, failing, seen>>
    BY <1>2 DEF W!AskEvents
  <2>3. since # W!Never /\ since \in 0 .. WaitTimeout /\ now \in Nat /\ now <= WaitTimeout /\ seen = since
    <3>1. since # W!Never /\ seen = since /\ now <= WaitTimeout
      BY <2>2 DEF ReadinessInv, SinceSeen, InTime, W!Awaits
    <3>2. now \in 0 .. WaitTimeout + DiagnosisTimeout /\ since \in {W!Never} \cup 0 .. WaitTimeout
      BY DEF ReadinessInv, W!TypeOK
    <3>3. QED
      BY <1>0, <3>1, <3>2
  <2>4. /\ granted' \in Nat /\ granted' >= W!Seconds(budget[1])
        /\ granted' >= granted
    <3>1. granted >= W!Seconds(budget[1])
      BY <2>3 DEF ReadinessInv, Granted
    <3>2. granted' \in {granted, W!Larger(granted, W!Seconds(budget[2]))}
      BY <2>1 DEF W!Extended
    <3>3. QED
      BY <1>0, <3>1, <3>2 DEF W!Larger
  <2>a. verdict = "in flight" => granted' >= W!Seconds(budget[2])
    <3>1. verdict = "in flight" => granted' = W!Larger(granted, W!Seconds(budget[2]))
      BY <2>1 DEF W!Extended
    <3>2. W!Larger(granted, W!Seconds(budget[2])) >= W!Seconds(budget[2])
      BY <1>0 DEF W!Larger
    <3>3. QED
      BY <3>1, <3>2
  <2>5. told' \in BOOLEAN /\ (told' = TRUE => told = TRUE \/ verdict = "in flight")
    BY <2>1 DEF ReadinessInv, W!TypeOK
  <2>6. told' = TRUE => granted' >= W!Seconds(budget[2])
    <3>1. told = TRUE => granted >= W!Seconds(budget[2])
      BY <2>3 DEF ReadinessInv, Granted
    <3>2. told = TRUE => granted' >= W!Seconds(budget[2])
      BY <1>0, <2>4, <3>1
    <3>3. QED
      BY <2>a, <2>5, <3>2
  <2>7. W!Seconds(budget[1])' = W!Seconds(budget[1]) /\ W!Seconds(budget[2])' = W!Seconds(budget[2])
    BY <2>2 DEF W!Seconds, W!Unbounded
  <2>8. SinceSeen' /\ Granted'
    BY <2>2, <2>3, <2>4, <2>6, <2>7 DEF SinceSeen, Granted, W!Never
  <2>9. CASE now - since >= W!Extended(verdict)
    <3>1. pcW' = "done" /\ outcome' = "unschedulable" /\ UNCHANGED <<pulls, asked>>
      BY <2>1, <2>9 DEF W!Ends
    <3>2. W!TypeOK'
      BY <2>2, <2>4, <2>5, <3>1 DEF ReadinessInv, W!TypeOK
    <3>3. now - since <= WaitTimeout /\ now - since >= granted'
      <4>1. granted' = W!Extended(verdict)
        BY <2>1
      <4>2. now - since >= granted'
        BY <2>9, <4>1
      <4>3. QED
        BY <1>0, <2>3, <4>2
    <3>4. /\ budget[1] # 0 /\ now - since >= budget[1]
          /\ told' = TRUE => budget[2] # 0 /\ now - since >= budget[2]
      BY <1>0, <2>3, <2>4, <2>6, <3>3 DEF W!Seconds
    <3>5. told' => told' = TRUE
      BY <2>5
    <3>6. W!BudgetsKept'
      BY <2>2, <2>3, <3>4, <3>5 DEF W!BudgetsKept
    <3>7. InTime' /\ PullsLeft' /\ Undecided'
      BY <3>1 DEF InTime, W!Awaits, PullsLeft, Undecided
    <3>8. QED
      BY <2>8, <3>2, <3>6, <3>7 DEF ReadinessInv
  <2>10. CASE ~(now - since >= W!Extended(verdict))
    <3>1. W!CountPulls(failing) /\ asked' = {} /\ failing \in BOOLEAN
      BY <2>1, <2>10 DEF ReadinessInv, W!TypeOK
    <3>2. /\ pulls' \in 0 .. MaxPulls
          /\ pcW' # "done" => pulls' < MaxPulls
          /\ \/ pcW' = "done" /\ outcome' = "pull errors"
             \/ pcW' = "sleep" /\ outcome' = outcome
      BY <2>2, <3>1, CountedPulls DEF ReadinessInv
    <3>3. W!TypeOK'
      BY <2>2, <2>4, <2>5, <3>1, <3>2 DEF ReadinessInv, W!TypeOK, Undecided
    <3>4. InTime' /\ PullsLeft' /\ Undecided' /\ W!BudgetsKept'
      BY <2>2, <2>3, <3>2 DEF ReadinessInv, InTime, W!Awaits, PullsLeft, Undecided, W!BudgetsKept
    <3>5. QED
      BY <2>8, <3>3, <3>4 DEF ReadinessInv
  <2>11. QED
    BY <2>9, <2>10
<1>3. QED
  BY <1>1, <1>2

\* Time passes, or the wait ends for another reason.
LEMMA ClockKeepsInv ==
  ASSUME ReadinessInv,
         W!Sleep \/ W!TimesOut \/ W!Describe \/ W!CallFails \/ W!Tick
  PROVE  ReadinessInv'
<1>0. WaitTimeout \in Nat /\ DiagnosisTimeout \in Nat
  BY Numbers DEF ReadinessInv
<1>1. UNCHANGED <<pods, budget, since, granted, failing, pulls, asked, seen, told>>
  BY DEF W!Sleep, W!TimesOut, W!Describe, W!CallFails, W!Tick, W!locals
<1>2. /\ now' \in 0 .. WaitTimeout + DiagnosisTimeout
      /\ pcW' \in {"list", "ask", "events", "sleep"} => now' <= WaitTimeout
      /\ pcW' \in {"list", "ask", "events", "sleep"} => pcW \in {"list", "ask", "events", "sleep"}
      /\ pcW' \in {"ask", "events"} => pcW' = pcW
      /\ pcW # "done" /\ pcW' \in {"list", "ask", "events", "sleep", "describe", "done"}
  <2>1. now \in 0 .. WaitTimeout + DiagnosisTimeout
    BY DEF ReadinessInv, W!TypeOK
  <2>2. pcW \in {"list", "ask", "events", "sleep"} => now <= WaitTimeout
    BY DEF ReadinessInv, InTime, W!Awaits
  <2>3. CASE W!Sleep
    BY <1>0, <2>1, <2>3 DEF W!Sleep, W!Go
  <2>4. CASE W!TimesOut
    BY <2>1, <2>4 DEF W!TimesOut, W!Go, W!Awaits
  <2>5. CASE W!Describe
    BY <2>1, <2>5 DEF W!Describe, W!Ends
  <2>6. CASE W!CallFails
    BY <2>1, <2>6 DEF W!CallFails, W!Ends
  <2>7. CASE W!Tick
    BY <1>0, <2>1, <2>2, <2>7 DEF W!Tick, W!Until
  <2>8. QED
    BY <2>3, <2>4, <2>5, <2>6, <2>7
<1>3. /\ outcome' \in {"none", "timeout", "error"}
      /\ pcW' # "done" => outcome' = "none"
  BY <1>2 DEF ReadinessInv, Undecided, W!Sleep, W!TimesOut, W!Describe, W!CallFails, W!Tick, W!Go, W!Ends
<1>4. W!TypeOK'
  BY <1>1, <1>2, <1>3 DEF ReadinessInv, W!TypeOK
<1>5. SinceSeen' /\ Granted'
  BY <1>1, <1>2 DEF ReadinessInv, SinceSeen, Granted, W!Seconds, W!Unbounded
<1>6. InTime' /\ PullsLeft' /\ Undecided' /\ W!BudgetsKept'
  BY <1>1, <1>2, <1>3 DEF ReadinessInv, InTime, W!Awaits, PullsLeft, Undecided, W!BudgetsKept
<1>7. QED
  BY <1>4, <1>5, <1>6 DEF ReadinessInv

LEMMA ClusterKeepsInv ==
  ASSUME ReadinessInv, NEW p \in Pod, W!Cluster(p)
  PROVE  ReadinessInv'
<1>1. UNCHANGED <<budget, now, pcW, since, granted, failing, pulls, asked, seen, told, outcome>>
  BY DEF W!Cluster, W!PodCreated, W!AutoscalerSays, W!PodMoves, W!PodLeaves, W!ClusterOnly, W!locals
<1> DEFINE State == [stage : W!Stage, leaving : BOOLEAN, event : W!Event]
<1>2. pods \in [Pod -> State] /\ pods[p] \in State /\ W!NoPod \in State
  BY DEF ReadinessInv, W!TypeOK, W!NoPod, W!Stage, W!Event
<1>3. \E to \in State : W!Becomes(p, to)
  <2>1. CASE W!PodCreated(p)
    <3>1. \A at \in {"unschedulable", "creating"} : [W!NoPod EXCEPT !.stage = at] \in State
      BY <1>2 DEF W!Stage
    <3>2. QED
      BY <2>1, <3>1 DEF W!PodCreated
  <2>2. CASE W!AutoscalerSays(p)
    <3>1. \A e \in {"refused", "in flight"} : [pods[p] EXCEPT !.event = e] \in State
      BY <1>2 DEF W!Event
    <3>2. QED
      BY <2>2, <3>1 DEF W!AutoscalerSays
  <2>3. CASE W!PodMoves(p)
    <3>1. W!Follows(pods[p].stage) \subseteq W!Stage
      BY DEF W!Follows, W!Stage
    <3>2. \A to \in W!Stage : [pods[p] EXCEPT !.stage = to, !.event = "none"] \in State
      BY <1>2 DEF W!Event
    <3>3. QED
      BY <2>3, <3>1, <3>2 DEF W!PodMoves
  <2>4. CASE W!PodLeaves(p)
    <3>1. [pods[p] EXCEPT !.leaving = TRUE] \in State
      BY <1>2
    <3>2. QED
      BY <1>2, <2>4, <3>1 DEF W!PodLeaves
  <2>5. QED
    BY <2>1, <2>2, <2>3, <2>4 DEF W!Cluster
<1>4. pods' \in [Pod -> State]
  <2> HIDE DEF State
  <2>1. QED
    BY <1>2, <1>3 DEF W!Becomes
<1>5. W!TypeOK'
  BY <1>1, <1>4 DEF ReadinessInv, W!TypeOK
<1>6. SinceSeen' /\ Granted'
  BY <1>1 DEF ReadinessInv, SinceSeen, Granted, W!Seconds, W!Unbounded
<1>7. InTime' /\ PullsLeft' /\ Undecided' /\ W!BudgetsKept'
  BY <1>1 DEF ReadinessInv, InTime, W!Awaits, PullsLeft, Undecided, W!BudgetsKept
<1>8. QED
  BY <1>5, <1>6, <1>7 DEF ReadinessInv

LEMMA ReadinessInductive == Spec => []ReadinessInv
<1>1. ASSUME Init
      PROVE  ReadinessInv
  <2>1. /\ budget \in Budgets /\ now = 0 /\ pcW = "list" /\ since = W!Never /\ granted = W!Seconds(budget[1])
        /\ failing = FALSE /\ pulls = 0 /\ asked = {} /\ outcome = "none" /\ seen = W!Never /\ told = FALSE
    BY <1>1 DEF Init, W!Init
  <2>2. pods \in [Pod -> [stage : W!Stage, leaving : BOOLEAN, event : W!Event]]
    <3>1. {W!NoPod, [stage |-> "ready", leaving |-> TRUE, event |-> "none"]}
            \subseteq [stage : W!Stage, leaving : BOOLEAN, event : W!Event]
      BY DEF W!NoPod, W!Stage, W!Event
    <3>2. QED
      BY <1>1, <3>1 DEF Init, W!Init
  <2>3. WaitTimeout \in Nat \ {0} /\ DiagnosisTimeout \in Nat /\ MaxPulls \in Nat \ {0} /\ granted \in Nat
    BY <2>1, ControlPlaneAssumption DEF W!PodReadinessAssumption, W!Seconds, W!Unbounded
  <2>4. W!TypeOK
    <3>1. pulls = 0 /\ now = 0
      BY <2>1
    <3>2. pulls \in 0 .. MaxPulls /\ now \in 0 .. WaitTimeout + DiagnosisTimeout
      BY <2>3, <3>1
    <3>3. QED
      BY <2>1, <2>2, <2>3, <3>2, Zenon DEF W!TypeOK
  <2>5. QED
    BY <2>1, <2>3, <2>4 DEF ReadinessInv, SinceSeen, Granted, InTime, PullsLeft, Undecided, W!BudgetsKept
<1>2. ReadinessInv /\ [Next]_vars => ReadinessInv'
  <2> SUFFICES ASSUME ReadinessInv, [Next]_vars
               PROVE  ReadinessInv'
    OBVIOUS
  <2>1. CASE ReadinessNext
    BY <2>1, PollKeepsInv, AskKeepsInv, ClockKeepsInv, ClusterKeepsInv DEF ReadinessNext, W!Next, W!Waiter
  <2>2. CASE SnapshotsNext \/ MigrationsNext \/ UNCHANGED vars
    <3>1. UNCHANGED wVars
      BY <2>2 DEF SnapshotsNext, MigrationsNext, vars
    <3>2. W!TypeOK'
      BY <3>1 DEF wVars, ReadinessInv, W!TypeOK
    <3>3. SinceSeen' /\ Granted'
      BY <3>1 DEF wVars, ReadinessInv, SinceSeen, Granted, W!Seconds, W!Unbounded
    <3>4. InTime' /\ PullsLeft' /\ Undecided' /\ W!BudgetsKept'
      BY <3>1 DEF wVars, ReadinessInv, InTime, W!Awaits, PullsLeft, Undecided, W!BudgetsKept
    <3>5. QED
      BY <3>2, <3>3, <3>4 DEF ReadinessInv
  <2>3. QED
    BY <2>1, <2>2 DEF Next
<1>3. QED
  BY <1>1, <1>2, PTL DEF Spec

(* For any budgets, pods and timeouts, whatever the cluster does: pods that*)
(* wait for a node are given up only after the whole first budget, and,    *)
(* once the autoscaler has said that a node is on its way, only after the  *)
(* second, however it changes its mind; never if that budget is none       *)
(* (wait_for_pods_ready).                                                  *)
THEOREM BudgetsKeptHolds == Spec => []BudgetsKept
<1>1. ReadinessInv => BudgetsKept
  BY DEF ReadinessInv, BudgetsKept
<1>2. QED
  BY <1>1, ReadinessInductive, PTL

\* The variables of the three modules keep to their types.
THEOREM TypesHold == Spec => [](S!TypeOK /\ M!TypeOK /\ W!TypeOK)
<1>1. TriggerInv /\ MigrationInv /\ ReadinessInv => S!TypeOK /\ M!TypeOK /\ W!TypeOK
  BY DEF TriggerInv, MigrationInv, ReadinessInv
<1>2. QED
  BY <1>1, SnapshotsInductive, MigrationsInductive, ReadinessInductive, PTL
=============================================================================
