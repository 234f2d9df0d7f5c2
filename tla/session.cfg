\* Definitions of three plugins; Dockerfiles of four lines; two local builds; two threads of
\* a client; a start; a bash command, an output stream, a transfer each way, a terminal
\* session; three transactions, so that their waits can form a circle, on one server; the
\* artifacts of tool calls; a forwarded socket.
CONSTANTS
    None = None
    Base <- Bases
    Plugin <- Plugins
    Numeric = {"1000"}
    Variable = {"$USER"}
    Own = {None}
    MaxPlugins = 3
    MaxLines = 4
    Builder = {"d1", "d2"}
    File = {"f1", "f2"}
    Given = {"f1"}
    StagingFaults = 1
    Caller = {"c1", "c2"}
    Scoped = {"c1"}
    Timed = {"c2"}
    OwnsHttp = TRUE
    ClientFaults = 1
    Deadline = 4
    RetryDelay = 1
    Allowance = 1
    ResetLimit = 2
    HasTimeout = TRUE
    MaxCancels = 2
    BashFaults = 1
    Limits = {0, 1, 2, 3, 5}
    MaxChunk = 4
    MaxBytes = 10
    Uploader = {"u1"}
    Downloader = {"d1"}
    Total = 3
    ChunkBytes = 2
    FirstSize = 4
    TransferFaults = 1
    MaxWrites = 1
    MaxInputs = 2
    IdleTimeout = 2
    Txn = {"t1", "t2", "t3"}
    Server = {"s1"}
    Rule = {"all"}
    NoRule = NoRule
    Written = {"STOPPED", "DELETION_FAILED"}
    Budget = 2
    MaxArtifacts = 2
    MaxTotal = 5
    MaxSingle = 3
    Reader = {"r1"}
    MaxSaves = 5
    StoreFaults = 2
SPECIFICATION FairSpec
INVARIANTS
    PrivilegedAsRoot
    ImageAsDefined
    ReportsTrue
    LeavesNothing
    DataKept
    PeersReleased
PROPERTIES
    ArtifactsKept
    OperationsEnd
CHECK_DEADLOCK FALSE
