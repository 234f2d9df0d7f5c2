\* Two registrations overlap.
CONSTANTS
    Client = {c1, c2}
    NoClient = NoClient
    Task = {t1, t2}
    MaxNodes = 2
    Beats = {"ALIVE", "REUSED", "STOPPED", "DELETION_FAILED"}
    Faults = {}
    Alone = {}
SPECIFICATION Spec
INVARIANT NodesReserved
CHECK_DEADLOCK FALSE
