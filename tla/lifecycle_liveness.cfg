\* Anything may fail, anything may die, and a client does as it likes.
CONSTANTS
    Client = {c1}
    Server = {s1}
    NoServer = NoServer
    Task = {t1, t2}
    Kinds = {"start", "finish", "stop", "orphan"}
    Reuse = {"NONE", "RESTART"}
    Faults = {"api", "pods", "crash", "slow"}
    Orderly = FALSE
SPECIFICATION FairSpec
PROPERTY AbandonedServersEnd
CHECK_DEADLOCK FALSE
