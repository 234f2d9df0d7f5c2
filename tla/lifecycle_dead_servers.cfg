\* A restart whose pods never become ready.
CONSTANTS
    Client = {c1}
    Server = {s1}
    NoServer = NoServer
    Task = {t1}
    Kinds = {"start", "restart"}
    Reuse = {"NONE"}
    Faults = {"pods"}
    Orderly = TRUE
SPECIFICATION FairSpec
PROPERTY DeadServersGoAway
INVARIANT TypeOK
CHECK_DEADLOCK FALSE
