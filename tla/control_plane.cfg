\* Two jobs and an operation on the pod of one; two replicas, one release back;
\* the wait for two pods.
CONSTANTS
    Job = {"j1", "j2"}
    Op = {"o1"}
    Live = "live"
    TargetOf <- AJob
    Faults = {"k8s", "db", "crash"}
    SnapshotFaults = 2
    Replica = {"p1", "p2"}
    OldHead = 1
    NewHead = 2
    Irreversible = {}
    MigrationFaults = 1
    None = None
    Pod = {"old", "new"}
    Budgets <- TwoBudgets
    WaitTimeout = 3
    DiagnosisTimeout = 1
    MaxPulls = 2
SPECIFICATION FairSpec
INVARIANTS
    ReadyIsFinal
    SnapshotIsOwn
    HelmAfterDowngrade
    BudgetsKept
PROPERTIES
    OperationsEnd
CHECK_DEADLOCK FALSE
