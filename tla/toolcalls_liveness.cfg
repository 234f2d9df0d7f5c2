\* Three tasks with three kinds of request.
CONSTANTS
    Task = {t1, t2, t3}
    Keys = 2
    Id = {id1}
    id1 = id1
    id2 = id2
    NoId = NoId
    Menu <- MCReadersAndWriters
    CacheSize = 1
    MaxResets = 1
    NoFlight = NoFlight
SPECIFICATION FairSpec
PROPERTIES
    WriterServed
CHECK_DEADLOCK FALSE
