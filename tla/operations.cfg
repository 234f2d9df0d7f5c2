\* A call with two attempts, the first perhaps refused or left behind; anything may go wrong.
CONSTANTS
    Call = {c1}
    Op = {o1, o2}
    None = None
    MaxClock = 2
    MaxServers = 2
    Fifo = TRUE
    Faults = {"api", "db", "cancel", "crash"}
SPECIFICATION FairSpec
INVARIANTS
    OneServerPerCall
    NoMissedSuccess
PROPERTIES
    NobodyWaits
CHECK_DEADLOCK FALSE
