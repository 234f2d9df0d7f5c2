\* Two transactions at a time on two servers, while a rule is created, deleted or
\* tightened; one request on nodes at a time, but any call may fail and any replica die;
\* two holds at a time while a server is finished, handed over and reaped.
CONSTANTS
    all = all  vip = vip  alice = alice
    Txn = {t1, t2}
    Server = {s1, s2}
    Name = {alice}
    Rule = {all, vip}
    NoRule = NoRule
    Cpu = {1, 2}
    Written = {"FINISHED", "STOPPED", "DELETION_FAILED"}
    Edits <- MCEdits
    FirstRules <- MCFirstRules
    Client = {c1, c2, c3}
    NoClient = NoClient
    Task = {n1}
    MaxNodes = 2
    Beats = {"ALIVE", "REUSED", "STOPPED", "DELETION_FAILED"}
    Faults = {"api", "crash"}
    Alone = {"register", "stop", "finish", "beat", "reap"}
    Owner = {"a", "b"}
    First = "a"
    Holder = {h1, h2}
    Durations = {2}
    InactiveTimeout = 1
    FinishedTimeout = 0
    LastRequest = 1
    MaxTime = 4
SPECIFICATION AllSpec
SYMMETRY Slots
INVARIANTS
    PodsNotLeaked
    CpuNotLeaked
    NodesMatchDemand
    ExcessOnRecord
    PromisesKept
PROPERTIES
    AdmissionChargedWithinLimit
    SettleReleasesOnce
CHECK_DEADLOCK FALSE
