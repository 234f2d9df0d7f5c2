\* A close marks the terminal, and an operation ahead of it unmarks it.
CONSTANTS
    Task = {t1, t2, t3}
    Boot = Boot
    Default = Default
    None = None
    Kinds = {"create", "default", "execute", "input", "poll", "interrupt",
             "reset", "restart", "close", "reset_all"}
    MaxTerminals = 2
    MaxCancels = 0
SPECIFICATION Spec
INVARIANT TypeOK
CHECK_DEADLOCK FALSE
PROPERTIES
    RejectedOnceClosing
