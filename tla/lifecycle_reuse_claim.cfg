\* The old owner finishes a server twice while it is handed on.
CONSTANTS
    Client = {c1, c2}
    Server = {s1}
    NoServer = NoServer
    Task = {t1, t2, t3}
    Kinds = {"start", "finish"}
    Reuse = {"NONE", "RESTART"}
    Faults = {}
    Orderly = FALSE
SPECIFICATION Spec
INVARIANT ReuseExclusive
CHECK_DEADLOCK FALSE
