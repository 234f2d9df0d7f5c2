--------------------------- MODULE MCControlPlane ---------------------------
(***************************************************************************)
(* Small instances of Snapshots, Migrations and PodReadiness for TLC, side *)
(* by side: they share no state, and a behaviour is one of one of them.    *)
(***************************************************************************)
EXTENDS Integers

CONSTANTS
  Job, Op, Live, TargetOf, Faults, SnapshotFaults,
  Replica, OldHead, NewHead, Irreversible, MigrationFaults, None,
  Pod, Budgets, WaitTimeout, DiagnosisTimeout, MaxPulls

VARIABLES
  which,
  pcS, mine, trigger, podS, server, jobS, record, prep, slips, faultsS,
  rev, rule, lock, release, want, podM, jobM, op, overlap, faultsM,
  pods, budget, now, pcW, since, granted, failing, pulls, asked, outcome, seen, told

\* The operations are asked to snapshot the pod of a job.
AJob == [o \in Op |-> CHOOSE j \in Job : TRUE]
\* A second budget that is larger, and no limit of the first kind.
TwoBudgets == {<<1, 2>>, <<0, 2>>}

S == INSTANCE Snapshots WITH pc <- pcS, pod <- podS, job <- jobS,
       faults <- faultsS, MaxFaults <- SnapshotFaults
M == INSTANCE Migrations WITH pod <- podM, job <- jobM, faults <- faultsM, MaxFaults <- MigrationFaults
W == INSTANCE PodReadiness

ASSUME ControlPlaneAssumption ==
  S!SnapshotsAssumption /\ M!MigrationsAssumption /\ W!PodReadinessAssumption

InSnapshots == which = "snapshots"
InMigrations == which = "migrations"
InReadiness == which = "readiness"

sVars == <<pcS, mine, trigger, podS, server, jobS, record, prep, slips, faultsS>>
mVars == <<rev, rule, lock, release, want, podM, jobM, op, overlap, faultsM>>
wVars == <<pods, budget, now, pcW, since, granted, failing, pulls, asked, outcome, seen, told>>
vars == <<which, sVars, mVars, wVars>>

Init ==
  /\ which \in {"snapshots", "migrations", "readiness"}
  /\ S!Init /\ M!Init /\ W!Init
  /\ ~InReadiness => budget = (CHOOSE b \in Budgets : TRUE) /\ \A p \in Pod : pods[p] = W!NoPod
SnapshotsNext == InSnapshots /\ S!Next /\ UNCHANGED <<which, mVars, wVars>>
MigrationsNext == InMigrations /\ M!Next /\ UNCHANGED <<which, sVars, wVars>>
ReadinessNext == InReadiness /\ W!Next /\ UNCHANGED <<which, sVars, mVars>>
Next == SnapshotsNext \/ MigrationsNext \/ ReadinessNext

Spec == Init /\ [][Next]_vars

\* Fairness of the modules, for the one whose turn it is.
FairSpec ==
  /\ Spec
  /\ \A u \in Job \cup Op : WF_sVars(InSnapshots /\ S!Step(u))
  /\ \A p \in Job \cup {Live} : WF_sVars(InSnapshots /\ S!Controller(p))
  /\ \A p \in Replica :
       /\ WF_mVars(InMigrations /\ M!Startup(p))
       /\ WF_mVars(InMigrations /\ M!Terminate(p))
       /\ WF_mVars(InMigrations /\ M!Gone(p))
  /\ WF_mVars(InMigrations /\ (M!JobLocks \/ M!JobMigrates))
  /\ WF_wVars(InReadiness /\ W!Waiter)

-----------------------------------------------------------------------------
\* The answer that stops a polling client is final and is what it counts.
ReadyIsFinal == S!ReadyIsFinal
\* A task reports a snapshot that its own trigger made.
SnapshotIsOwn == S!SnapshotIsOwn
\* An older release is brought back only after its schema.
HelmAfterDowngrade == M!HelmAfterDowngrade
\* Pods that wait for a node are given up only after what they were promised.
BudgetsKept == W!BudgetsKept
\* A batch gets ready, unless a replica dies or the handler of a failure fails; all
\* replicas of the installed release come to serve; a wait for pods ends.
OperationsEnd ==
  S!BatchEnds /\ (InMigrations => M!ReplicasServe) /\ (InReadiness => W!WaitEnds)

\* What the source says, and the code does not do (see the modules).
ExistsMeansSuccess == S!ExistsMeansSuccess
OneMigrator == M!OneMigrator
WritersStoppedFirst == M!WritersStoppedFirst
StillUnschedulable == W!StillUnschedulable
=============================================================================
