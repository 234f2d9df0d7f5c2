\* Three tasks with five kinds of call, and the deduplicator keeps one completed entry;
\* three requests on terminals, any of them, and one cancellation.
CONSTANTS
    Task = {t1, t2, t3}
    Keys = 2
    Id = {id1, id2}
    id1 = id1
    id2 = id2
    NoId = NoId
    Menu <- MCMenu
    CacheSize = 1
    MaxResets = 2
    NoFlight = NoFlight
    Boot = Boot
    Default = Default
    None = None
    Kinds = {"create", "default", "execute", "input", "poll", "interrupt",
             "reset", "restart", "close", "reset_all"}
    MaxTerminals = 2
    MaxCancels = 1
SPECIFICATION BothSpec
INVARIANTS
    Exclusion
    NoLostWakeup
    NoneStuck
    FlightsSound
    QuotaHeld
    CommandsTracked
    ClosedAlone
    NoShellLost
    NoTerminalStuck
PROPERTIES
    Implements
SYMMETRY Symmetry
CHECK_DEADLOCK FALSE
