\* Orderly clients, a Kubernetes API that answers: every kind of request.
CONSTANTS
    Client = {c1, c2}
    Server = {s1}
    NoServer = NoServer
    Task = {t1, t2, t3}
    Kinds = {"start", "stop", "finish", "restart", "forward", "orphan"}
    Reuse = {"NONE", "RESTART", "RESET", "ADOPT"}
    Faults = {"pods"}
    Orderly = TRUE
SPECIFICATION Spec
INVARIANTS
    NoOrphan
    NotShared
CHECK_DEADLOCK FALSE
SYMMETRY Symmetry
