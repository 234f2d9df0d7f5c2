# A TLA+ model of IdeGYM

IdeGYM hands out disposable sandboxes ("servers") on Kubernetes. An orchestrator keeps
clients, servers, quotas and operations in PostgreSQL and drives Kubernetes; a watcher
reconciles the two in the background; clients poll for the outcome of their requests; plugins
define images and run tools inside a sandbox. This directory holds TLA+ modules that model the
parts of it where several actors meet, the TLC configurations that check them, and TLAPS proofs
of what matters most. `PROJECT.json` is the machine-readable index: components, runs, mutants,
the map from definitions to source lines, findings, hazards and theorems.

Paths below leave out the leading `src/`; `O/` stands for
`orchestrator/src/idegym/orchestrator/`.

## 1. Inventory

### Components, their state and operations

| Component | State | Operations | Correct when |
|---|---|---|---|
| Resource quotas (`O/database/database.py`, `O/router/dashboard_actions.py`) | `resource_limit_rules` rows (regex, priority, limits, counters), `servers` rows | reserve at start, release at a status write, settle, create/update/delete a rule, rebuild counters | counters equal what live servers hold; admissions stay within limits; each share released once |
| Server lifecycle (`O/router/server.py`, `O/router/forwarding.py`, `backend-utils/.../kubernetes_client.py`) | `servers` rows, Deployments | start (new, RESTART, RESET, OpenEnv), stop, finish, restart, forward, delete an orphan | no Deployment without a row that pays for it; one owner at a time; rows end |
| Pod readiness (`backend-utils/.../kubernetes_client.py`) | budgets of one wait | poll pods, ask the autoscaler, count failed pulls, diagnose | pods are given up only after what they were promised; a wait ends |
| Watcher (`watcher/`) | a pass over listed rows, an advisory lock | crash detection, reaping idle servers and clients, ageing operations, orphaned builds | dead things go away, live ones do not; one pass at a time |
| Clients and node holder (`O/router/client.py`, `O/nodes_holder.py`) | `clients` rows, one Deployment per client name | register, heartbeat, finish, stop, reap | the holder keeps what the most demanding live client asked for |
| Keepalive hold (`O/router/server.py`, `O/database/database.py`) | `keepalive_until` | extend, clear at hand-over, skip when reaping | a hold is only ever extended, and honoured |
| Async operations (`O/database/database.py`, `O/router/async_operation.py`, `client/.../operations/utils.py`) | `async_operations` rows, tasks, polling clients | schedule, progress, finish, cancel, mark stale, delete old, poll; FIFO reuse queue | every operation ends; its answer stands |
| WebSocket forwarding (`O/router/forwarding.py`) | two relay tasks, two sockets | check, connect, relay, close | both peers are let go of; all is well only if the server ended |
| Snapshots (`O/snapshot_pipeline.py`, `O/pod_snapshot.py`, `O/router/snapshot.py`) | snapshot records, jobs, prepare requests, triggers in Kubernetes | prepare a batch, snapshot a running server, poll | a batch ends when its jobs have; what is READY is final; triggers are not mixed up |
| Image builds (`O/image_build_service.py`, `backend-utils/.../image_builder/`) | `job_statuses` rows, build backends, a registry | submit, skip, monitor, reconcile by the watcher, poll, switch the backend | a success is an image; failures are real; rows settle |
| Migrations (`O/migration_manager.py`, `scripts/rollback.py`) | schema version, an advisory lock, a Job | migrate at start-up under a lock, roll back release and schema | Helm follows the schema; replicas come to serve |
| Dashboard, health, MCP (`O/router/dashboard*.py`, `O/dashboard_health.py`, `O/mcp.py`, `O/pod_shell.py`) | a shell session | show state, the actions above, a shell in a pod | as the operations they call; a session leaves nothing behind |
| Client library (`client/`) | a shared loop, registration, heartbeat task, HTTP session | the operations above with retries and deadlines | a caller learns the outcome; nothing leaks |
| Image definition (`image-builder/.../builder.py`, `plugins/defaults`, `plugins/plugin-utils`, `plugins/openhands`) | the build context | choose a base, apply plugins, compile | what needs root runs as root; the image ends as its definition says |
| Dockerfile reading (`utils/dockerfile.py`) | none | find instructions, BuildKit features, context copies | instructions are what Docker takes for them |
| Local image builds (`image-builder/.../docker_service.py`) | assets in the caller's context | stage, build, remove | the context is as it was |
| Bash executor (`backend-utils/.../bash_executor.py`) | process groups, pipes, private files | run with a timeout, truncate output, kill | no process and no file outlives its command |
| File tools (`tools/`, `client/.../operations/files.py`) | a file, chunks on their way | upload, download, edit | uploads are whole, a download is a version of its file |
| OpenHands tool calls (`plugins/openhands/.../runtime/{service,rwlock,scheduler,dedup}.py`) | environment lease, resource locks and their registry, in-flight and answered request ids, generation | call a tool, reset the environment | conflicting tools exclude each other; equal calls run once; no deadlock, no lost wakeup |
| OpenHands terminals (`plugins/openhands/.../runtime/terminal/`) | registry of handles and of creations under way, a lock per handle, sessions and their shells | create, execute, input, poll, interrupt, reset, close, close all | one command at a time in a shell; the quota holds; no shell is left behind |
| OpenHands artifacts (`plugins/openhands/.../runtime/artifacts.py`) | entries, files, their total | bound a result, save, evict, download, purge | results are bounded; the store knows what it keeps |
| Rewards, server, inspect plugin, instrumentation, configuration | none between calls | one call each | functional correctness |

### How they interact

A replica answers a request with an operation id and runs the work as an asyncio task. Every
database helper opens its own session (`with_db_session`), so an `await` between two helpers is
a point where any other task, replica or the watcher may run. Sessions run under READ
COMMITTED with `autoflush=False` and `expire_on_commit=False`: an object already in a session
keeps what it first loaded. Kubernetes calls retry and then give up. The watcher keeps one
session for a whole pass and so decides by rows as they were when it listed them.

### What is hard here

Check-then-act across awaits (`validate_server` then a status write; the terminal check of
`update_idegym_server_heartbeat`); tasks that die with their replica; deletions that fail or
only seem to succeed; a watcher working from a list; locks that end with an early commit; a
claim and a change of owner in two transactions. `PROJECT.json` lists each hazard at its line,
with the properties that look for it.

In the OpenHands runtime everything runs on one event loop, and the hazards are cancellations: at
any await a call may be given up while it holds some locks, queues for another, leads others that
wait for its result, or has a thread at work in the workspace. A terminal adds a second program, the
shell, that goes its own way between two looks at its output.

At the edges it is what others have not finished: a trigger of an earlier snapshot, a build of
another backend, a thread that goes on after its timeout, a chunk that arrives after its client
gave it up, a process that left its group, a task on a loop that is about to stop.

## 2. Modules

Component modules:

| Module | Models | Checked by |
|---|---|---|
| `ServerStatus` | `AvailabilityStatus` and its classes | (extended by others) |
| `ResourceQuota` | quota counters under concurrent transactions | `MCAccounting`; liveness: `MCSession`; `MCResourceQuota` |
| `ServerLifecycle` | servers, Deployments, request tasks, the watcher's passes over servers | `MCServerLifecycle` |
| `ClientNodes` | clients of one name, the node holder, the watcher's passes over clients | `MCAccounting`, `MCClientNodes` |
| `KeepaliveHold` | the hold of one server, beside all that touches its row | `MCAccounting` |
| `AsyncOperations` | the operation of a start, from the client library's POST to its deletion | `MCAsyncOperations` |
| `ImageBuild` | image builds over two backends, monitors, the watcher, polling clients | `MCImageBuild` |
| `Snapshots` | a batch of snapshot jobs, snapshots of running servers, triggers | `MCControlPlane` |
| `Migrations` | replicas that migrate as they start; the rollback script | `MCControlPlane` |
| `PodReadiness` | the wait for the pods of a Deployment | `MCControlPlane` |
| `Workspace` | what the OpenHands runtime promises its tools (abstract) | implemented by `ToolCalls` |
| `ToolCalls` | tool calls and resets of the OpenHands runtime: lease, locks, single flight | `MCOpenHands`, `MCToolCalls` |
| `Terminals` | the terminals of the OpenHands runtime, with the threads and shells behind them | `MCOpenHands`, `MCTerminals` |
| `ImageDefinition` | bases and plugins, and the image Docker makes of their Dockerfile | `MCSession` |
| `Dockerfile` | how a Dockerfile's text is read, against Docker | `MCSession` |
| `ContextStaging` | plugin assets in the context of local builds | `MCSession` |
| `ClientSession` | a registration that several threads share, and its end | `MCSession` |
| `StartDeadline` | the time that a start takes in the client | `MCSession` |
| `BashCommand` | one command of the bash executor, with its processes | `MCSession` |
| `OutputCollector` | the truncation of a command's output | `MCSession` |
| `FileTransfer` | uploads and downloads in chunks | `MCSession` |
| `PodShell` | a shell in a pod, relayed to a browser | `MCSession` |
| `Artifacts` | the bounding of tool results and the artifact store | `MCSession` |
| `SocketForward` | a forwarded WebSocket | `MCSession`; by itself: `socket_close` |

Proof modules (section 4):

| Module | Proves about |
|---|---|
| `AccountingProofs` | `ResourceQuota`, and `ClientNodes` and `KeepaliveHold` as they are in `MCAccounting` |
| `ServerLifecycleProofs` | `ServerLifecycle` |
| `AsyncOperationsProofs` | `AsyncOperations` |
| `ImageBuildProofs` | `ImageBuild` |
| `ControlPlaneProofs` | `Snapshots`, `Migrations` and `PodReadiness`, as they are in `MCControlPlane` |
| `OpenHandsProofs` | `ToolCalls`, `Workspace` and `Terminals`, as they are in `MCOpenHands` |
| `ImageProofs` | `ImageDefinition` and `Dockerfile`, as they are in `MCSession` |
| `SessionProofs` | `ContextStaging`, `ClientSession`, `StartDeadline`, `BashCommand`, `OutputCollector`, `FileTransfer`, `Artifacts`, `PodShell` and `SocketForward`, as they are in `MCSession` |

`MCAccounting`, `MCControlPlane`, `MCOpenHands` and `MCSession` put modules that share no state
side by side: `which` says in the initial state whose behaviour it is, the others' variables keep
their initial values, and the properties are those of the modules, joined where they say the
same of their subject (`LeavesNothing`, `DataKept`, `OperationsEnd`). The state spaces add up and
do not multiply.

### ResourceQuota

A transaction is a process with a program counter; each statement that reads shared rows or may
wait for a lock is a step, and its writes become visible in the last step, its commit. Who holds
which lock follows from the program counters (`HoldsShared`, `HoldsExclusive`, `HoldsRule`,
`HoldsServer`). `mem` is the session: what was loaded stays loaded, which is how a stale read and
a net-change-only UPDATE (`NetChange`) come about. Actions: `BeginReserve`, `BeginHeartbeat`,
`BeginSettle`, `BeginEdit`, `Claim`, then the statements `ReadServer`, `CommitHeartbeat`,
`ShareRuleSet`, `MatchRule`, `LockRule`, `RelockServer`, `CommitReserve`, `CommitRelease`,
`ExcludeQuota`, `CountUsage`, `CommitEdit`.

Abstractions: one CPU figure stands for CPU and RAM, which the code treats alike; it is a whole
number, so float rounding is left out. A regex is the set of names it matches. Ties of priority
are broken the same way each time (the query orders nothing else). `save_idegym_server`, used
by tests only, is left out.

### ServerLifecycle

`servers` is the table (status, owner, whether the last heartbeat is within its timeout), `kube`
the Deployments (`none`, `pending`, `ready`, `broken`), `task` the request tasks of all replicas,
`knows` what each client was told, `watch` the watcher's pass. A start is
`BeginStart`, then `Claim`/`FindNone`, `Reserve`/`Refuse`, `Deploy`, `RestartPods`, `AwaitPods`,
`TakeOver`, `ReadRow`+`WriteRow`, `Report`, or `Cleanup` when it fails; a stop is `ReadRow`,
`WriteRow`, `Delete`; a forward is `Call` and then the heartbeat. `Faults` says what may go wrong
and `Orderly` whether clients wait for an answer before they ask again and drop what they
finish. `WatchBegin` to `WatchEnd` are one pass: crash detection, then the idle servers, each
deleted before its row is written, by the row as listed.

`DeployRejects` is a start whose pod overrides are refused before anything is created.

Abstractions: quota is in `ResourceQuota`, holds in `KeepaliveHold`, the wait for pods in
`PodReadiness`; the FIFO check's refusal is `Refuse`, and a client stop behaves as a stop of each
of its servers.

### ClientNodes

Clients share one name because names do not interact. `holder` is the number of replicas of the
node holder. A registration is its commit (`Register`) and, unlocked, `CheckSpinUp`, `Create`,
`Patch`; a stop is `CheckRelease` and a deletion or a patch, then the row's read and write; the
watcher lists idle clients (`WatchList`) and treats them one by one (`Reap`). `Alone` names the
kinds of request that overlap with nothing, so that the same module states what holds when
requests come one at a time and shows what does not when they overlap. A heartbeat writes whatever
status its request names (`Beats`, any of `AvailabilityStatus`): one that is neither ALIVE nor
FINISHED takes the client out of the count without a release, and as REUSED is not terminal a later
one may bring it back. Two history variables let one run state what holds with such heartbeats and
faults and what holds without: `left`, the clients a heartbeat took out until a stop has released
their nodes, and `troubled`, true once a call failed, a replica died or a client came back. The run
takes one status of each sort the code tells apart: live, neither live nor terminal, terminal, and
the one that records a failed release. The PodDisruptionBudget that follows the Deployment, and the
wait for its pods, change nothing that is modelled.

### AsyncOperations

`call` is a call of `start_server` in a client program: `post`, `poll`, `pause` before another
attempt, or how it returned. `ops` are the rows; `task` is the task a replica runs for one. `Post`
sends the request; `Schedule` is the commit of `save_async_operation`, after which the task is
started and the POST answered, and `CutOff` is a replica that never gets to one or both of these.
A task looks for a server to reuse (`Find`, `Blocked`, `Claim`), marks its operation (`Begin`),
works (`Work`, `ServerLifecycle`'s subject, here: it succeeds, is refused or fails) and writes the
result (`Record`); `Interrupt` is a statement that raises or a cancellation and the handler that
then writes FAILED or CANCELLED, `Die` the end of the replica. `Poll` with `AfterPoll` is the
client's loop, whose last poll comes after its deadline; `Age`, `MarkStale` and `DeleteOld` are
the watcher's.

Abstractions: a clock of milliseconds orders operations and nothing else; `age` stands for the two
ages the watcher distinguishes; deadlines pass at any time (`over`, `late`).

### ToolCalls

Lock 0 is the environment lease (`RWLock`), the others are the scheduler's keys in the order it
sorts them; both lock classes have the same code, so that one array stands for them. Its counters
are the sets of the tasks counted, and `parked` are those asleep in `_cond.wait()`. A call goes
through `pc`: `gate` (asks for the lease), `join` (looks its request id up), `follow` and `told`, or
`locks`, then `run`, and `drain` when it was cancelled while its thread worked (`running`).
A reset goes `gate`, `teardown`, `settle`. `Take` and `Park` are one turn of `_acquire`; `Leave` is
the whole chain of `finally` clauses, which runs without a suspension: conditions and guards are
never held across one. An await that need not suspend is a step of its own, which adds
interleavings to those of the loop. `stop` takes the lease as a reset does and changes nothing
else here, and terminal calls hold the lease only; both are left out, as are validation errors,
which leave before anything is taken.

Abstractions: which of the completed entries `_evict` drops (the oldest) makes no difference to what
is checked, so any may go; a body hash is the request with its generation.

### Terminals

A task serves one request and ends. `terminals` and `creating` are the registry (`_handles`,
`_creating`); its lock is never held across an await, so that what it guards is one step. `state`,
`session`, `holder` and `queue` are the handles with their FIFO `op_lock`; `shell` holds the
sessions: the session's own fields (`pending`, `flag`, `dead`) beside the lines the shell has yet
to read, what it runs and the sentinels in the output nobody has read. Handles and sessions are
named for the task that made them, since none makes two of either.

A creation goes `start`, or `joined` if another makes that id, and `abort` when it is cancelled with
a shell to close. The other requests look a handle up (`BeginOperation`, `BeginResetAll`) and go
`wait` or `close`; with the lock (`Turn`) they take the first step of their guarded part
(`Reject`, `Execute`, `Input`, `Poll`, `Interrupt`, `Reset`, `Close`), and then `drain`, `resync`,
`window`, `signal`, `swap`, `teardown` or `close`. An interrupt that finds the lock taken signals
without it (`signalled`). `Cancel` leaves queues and releases locks and does nothing else; the
threads `Spawn`, `Kill` and `Signal` go on. A shell reads a line when it is idle (`ReadsLine`); what
it runs may eat the line instead (`TakesInput`), end with its sentinel or, by SIGINT, without
(`Ends`), or take the shell down (`Exits`).

Abstractions: output is its sentinels, input its lines, time any outcome a deadline allows.
`C-c` as input does what an interrupt does; listing and capturing change nothing. The sessions of
the OpenHands library, which the repository only wraps, and the lease (in `ToolCalls`), which keeps
a terminal call and a reset of the environment apart, are left out.

### KeepaliveHold

One server's `row` (status, owner, last heartbeat, `until`), requests that hold it (`hold`), a start
that reuses it (`handover`), the watcher's `pass`. The UPDATE of a hold takes the greatest of the
old and the new time in one statement; the row is then loaded for the answer, another
statement. `ReadOwner`, `WriteOwner` and `Report` are the hand-over, which clears a hold that it has
seen and no other. `promised` is a history variable: the latest time the owner has been told.
A tick stands for a minute; nothing is asked after `LastRequest`.

### ImageBuild

`row` is `job_statuses`; a row is named by its job, and that of a build which was skipped, because
its image exists, by its tag. `job` is what the backend has, and which backend that is: `backend`
is the one configured now. A request's `client` submits its builds in order and then polls; `mon`
is the task that monitors a build (`save`, `poll`, `write`, or `late`: the failure it writes after its
deadline or an error); `watch` is the watcher's pass over rows that are IN_PROGRESS (`WatchList`,
`WatchAsk`, `WatchWrite`, `WatchDies`). `SwitchBackend` is the operator. A failed call and a
replica that dies each cost one of `MaxFaults`; a Kaniko Job that has ended may expire any time.
`lost` has the builds that run although no answer named them: a `create_build` that is tried again
after its answer was lost, a Job whose PodDisruptionBudget could not be created. Nobody monitors
those, they have no row, and all they can do is push their tag (`LostEnds`).

Abstractions: a build definition is what decides its way (BuildKit, the scheme of its context,
its files, its tag); what a backend does inside a build is external.

### Snapshots

`pc` is the task of each job of the batch and of each operation on a running server; `mine` is the
snapshot it got, named for whose trigger made it; `trigger` is the one object each pod has, which
`Controller` serves. `job`, `record` and `prep` are the three tables that a job writes one after
the other. A job goes through its server (`InPipeline`), the service (`InService`), the records
(`Recording`), or the clean-up of a failure (`Undoing`). A call that fails may have taken effect all
the same: a trigger is created and nobody deletes it, a server is reserved that the pipeline does not
know of, a commit counts and raises. `slips` is the history of the two that a batch cannot make good:
a job that is counted twice, as a success and then by the handler, and one that nobody will count.

### Migrations

`rev` is the schema, `lock` the advisory lock, `release` and `want` what Helm has installed and
scaled. A replica's pod goes `lock`, `migrate`, perhaps `late` (its timeout has passed, the lock is
released, the thread goes on) or `wait`, then `seed`, `insert`, `serving`. A migration is one
transaction: its end has no effect when the revision has moved since it began. The script goes
`Preflight`, `ScaleDown`, `Drain`, `CreateJob`, `AwaitJob`, `HelmRollback`, `Verify`, and `Recover`
is the operator, who brings the installed release back up or tries again. What the migrations change, and that some are irreversible
(`Irreversible`, empty in the run: the script then refuses at once), is data.

### PodReadiness

A tick is the poll interval. `Poll`, `AskPods`, `AskEvents`, `Sleep`, `TimesOut` and `Describe` are
the awaits of `wait_for_pods_ready`; `pods` is the cluster, which goes its own way (`Cluster`).
`since`, `granted` and `pulls` are the wait's locals; `seen` and `told` are history: since when every
poll has found a pod without a node, and whether the autoscaler has promised one since then.

### Workspace

The abstract specification of the OpenHands runtime: who is at work on what, and how often the
environment was renewed. Tools whose requests clash take turns, a reset has the environment to
itself. `ToolCalls` implements it (`Implements`), with `work` the tasks that run or drain and
`environment` the generation.

### ImageDefinition, Dockerfile, ContextStaging

`ImageDefinition` keeps two things apart: `ctx`, what the compiler knows (user, home, project root),
and `box`, what the emitted fragments come to when Docker runs them (the active user, what was
denied to it, where the project is, whose it is). Each plugin is an action that first updates one
and then extends the other; `EnterRoot` and `LeaveRoot` are `as_root`. A base is a registry image
or stages, each with an alias, an image and a user. Package lists, checksums and the text of
fragments are left out.

`Dockerfile` writes a text a line at a time. A physical line is what reading tells apart: what it
says, its escape, a heredoc, a flag, a copy; all heredocs have one delimiter, so that what is done
about an unterminated one beside others is not told apart (`Absorbed`). `LogicalLines` is the
repository's reading and `DockerInstructions` Docker's.

`ContextStaging`: builds that run on one directory, the assets each writes and removes, failing
writes and dying processes.

### ClientSession, StartDeadline

`ClientSession` is `SharedIdeGYMClient` with its loop in a thread: `owner` enters, leaves and goes
through `release`, `close`, `drain`, `cancel`, `hooks`; each other thread (`caller`) submits a
coroutine, whose task goes `queued`, `post`, `poll`, `body`, `close`; `cut` are cancellations not yet
delivered, `fut` the futures threads wait for. Work put on a loop runs in the order it came.
A request without a timeout of its own (`make_request` passes `timeout=None`, which switches the HTTP
client's off) need not end: neither `Deregister`, so that an orchestrator that hangs keeps `__exit__`
before its drain, and with it the threads that wait without a timeout; nor an attempt to close a
server, as long as the HTTP client is open.

`StartDeadline` counts ticks: `Begin`, `Post`, `Poll`, `Sleep` and `Reset` with the time that is left
for each. It says nothing of what others do, which is `AsyncOperations`.

### BashCommand, OutputCollector

`BashCommand` is one call: its steps (`pc`), the thread that writes its private files, a leader
(shell or sudo), a child in the group and a process that has left it (`away`), who holds the pipes,
and the task that reads them. Processes may end, fork, close their output or leave at any time. A
cancellation may come at any await. `OutputCollector` is the head and the ring of chunks of the
tail; a byte is its position in the stream.

### FileTransfer

A byte is named for its transfer and its place. `wire` holds the requests on their way, also those
whose client has given up; `Arrive` serves any of them. `Change` is what tools and commands do to
the file, and to a source, meanwhile; a download's size is looked at (`ArriveDownload`) before its chunk
is read (`Read`), and a command, but no other request, may come between. A gap that a write leaves is
filled with zeros, as the file system does. What a download returns is compared with the versions the
file has had since it began (`held`); `torn` are the downloads that had a place they count on
written anew, of which nothing tells the client.

### PodShell, SocketForward

The handlers with their checks, and the relays: tasks, one for each peer (and one for the idle
timeout), of which the first to end decides. `PodShell` has the process in the pod, the exec
stream and its error channel; `SocketForward` has the upstream connection and the codes with which
the client is closed. Of the messages, only what ends a task is modelled, a frame that makes no sense
among them, and the input that keeps a shell open. Nothing in the code ends the process in the pod:
the relay closes its stream, and the process may outlive the session, which no property denies.

### Artifacts

A result is a sequence of blocks with a size and a structured part. Beyond the budget stands a notice,
a link or a stub for each artifact that was saved, of one unit (`StandIn`) whatever its length.
Bounding a result never awaits and is one step, in which artifacts are saved, and saving evicts. Files are written before they are
entered, writes may fail half-way, downloads find an artifact and open it later, the service
restarts and purges.

## 3. Runs

Every passing run's properties have a mutant: a plausible bug in a mapped definition
(`...Late`, `...Skipped`, `...Any`) under which TLC finds the property violated.

| Run | Properties | Bounds |
|---|---|---|
| `accounting` | counters of unmoved rules never exceed what their servers hold (`PodsNotLeaked`, `CpuNotLeaked`), admissions stay within limits, a settle releases once; the node holder has what the most demanding live client asked for, or one that left by a heartbeat (`NodesMatchDemand`), and excess is on record (`ExcessOnRecord`); a hold the owner was told of binds the passes that list the server after it (`PromisesKept`) | 2 transactions, 2 servers, 2 rules, created, deleted and tightened; 3 clients, up to 2 nodes, requests one at a time, failing calls and dying replicas; 2 holds of one server, times up to 4 |
| `lifecycle_orderly` | no Deployment outlives its share (`NoOrphan`), no server in two hands (`NotShared`) | 2 clients, 1 server, 3 tasks, all requests and reuse strategies, crashing pods; contention is for one server |
| `lifecycle_liveness` | a server no request touches ends in a terminal status (`AbandonedServersEnd`) | 1 client, 1 server, 2 tasks; calls fail, pods crash, replicas and the watcher die, starts outlast timeouts |
| `operations` | a call gets one server at most (`OneServerPerCall`), no success before the deadline is missed (`NoMissedSuccess`), calls return and operations do not stay IN_PROGRESS (`NobodyWaits`) | 1 call with 2 attempts, 2 servers on offer, FIFO check on, all faults |
| `openhands` | conflicting tools never work at once nor during a reset (`Exclusion`), nobody sleeps for nothing (`NoLostWakeup`), somebody can always go on (`NoneStuck`), one leader per id and generation (`FlightsSound`), all of it a `Workspace` (`Implements`); the quota of terminals counts creations under way (`QuotaHeld`), an idle terminal has no command in it (`CommandsTracked`), nobody works on a shell that is being killed (`ClosedAlone`), a shell has an owner (`NoShellLost`), no operation waits for ever (`NoTerminalStuck`) | 3 tasks, 2 keys, 2 ids, a cache of one, 5 kinds of request, 2 resets, any cancellation and failure; 3 requests of any kind, 2 terminals, one cancellation at any await |
| `toolcalls_liveness` | readers do not starve a queued writer, at the lease, the workspace or a file (`WriterServed`) | 3 tasks, a patch, a write, a read and one reset |
| `builds` | no SUCCESS without an image (`SuccessIsPushed`), no invented FAILURE (`FailureIsReal`), rows settle unless a Job hangs for ever (`RowsSettle`) | 1 request, 2 images of one tag, one of them for BuildKit, 2 faults, switches of the backend |
| `control_plane` | READY is final (`ReadyIsFinal`), a task reports its own snapshot (`SnapshotIsOwn`), Helm follows the schema (`HelmAfterDowngrade`), budgets are kept (`BudgetsKept`), batches, start-ups and waits end (`OperationsEnd`) | 2 jobs, 1 operation on the pod of one, 2 faults; 2 replicas, 1 revision back, 1 fault; 2 pods, a wait of 3 intervals, two pairs of budgets |
| `session` | what needs root runs as root (`PrivilegedAsRoot`); images end as defined and Dockerfiles are read as Docker does (`ImageAsDefined`); calls and starts report what happened (`ReportsTrue`); clients, commands and local builds leave nothing (`LeavesNothing`); output and uploads are whole, a download is a version of its file (`DataKept`); shells and sockets end as their peers made them, and leave nothing open in the orchestrator (`PeersReleased`); results are bounded, but for a stand-in per artifact, and the store accounted for (`ArtifactsKept`); all that was begun and is answered ends (`OperationsEnd`) | 8 bases and up to 3 plugins of all kinds (`Bases`, `Plugins`, which the cfg gives to `Base` and `Plugin`); 4 lines; 2 local builds, 2 assets; 2 threads beside the owner; a deadline of 4 ticks; 2 cancellations of a command; limits up to 5 and streams up to 10 bytes; uploads of 2 chunks, a file of 4 bytes; 3 transactions on 1 server; 2 artifacts, 5 saves, 2 faults |

Why these are enough. Three tasks are the fewest with a holder, a queued writer and a reader that
gives way to it, and with a leader, its follower and a reset; for terminals, with one that holds,
one that closes and one that waits; for transactions, those whose waits can form a circle. Two
images of one tag meet at the registry and at the row named for the tag. A job and an operation on
its pod meet at the trigger, and a second job shares the batch's counters. Two replicas contend for
the migration lock and the script's Job is a third party. Three plugins are a user, a service and
one after both. A limit of 5 over chunks of up to 4 has heads and tails that cut a chunk, tails of
several chunks, and streams that just fit. One cancellation hits an operation at every await; a second
one, of a creation that is cleaning up, leaves those who joined it (`NobodyLeftWaiting`, below).
`NoTerminalStuck`, which makes an exception of them, holds with two as well, and is proved for any
number.

Runs that end in a violation state what a comment or a page of the docs says and the code does
not do; `PROJECT.json` quotes the line.

| Run | What happens |
|---|---|
| `quota_double_release` | two releasing writes of one server both take off its share |
| `nodes_register_race` | two registrations leave the nodes to each other |
| `socket_close` | a WebSocket whose server cannot be reached is dropped without a close code: the route is the function as it was before the wrapper that closes it |

### Further configurations

Configurations beside those runs, each violated:

| Configuration (module) | What happens |
|---|---|
| `lifecycle_dead_servers` (`MCServerLifecycle`) | a failed restart leaves a Deployment nothing deletes |
| `lifecycle_reuse_claim` (`MCServerLifecycle`) | the old owner's second finish offers a server that is being handed on |
| `terminals_closing` (`MCTerminals`) | the operation that runs takes away the mark a close has set, and the one behind it runs too |

Formulas that are in the modules because the code, its comments or its docs suggest them, and that
the code does not keep. Each is violated when it replaces the properties of the configuration
named, as INVARIANT unless it says PROPERTY, with the constants changed as noted. The comment
above each quotes what it is taken from.

| Formula | Configuration | What happens |
|---|---|---|
| `TerminalIsFinal` | `quota_double_release`, `Written = {"FINISHED", "STOPPED"}`, PROPERTY | a heartbeat overwrites a terminal row |
| `RebuildIsExact` | `quota_double_release`, `Written = {"ALIVE", "FINISHED", "STOPPED", "DELETION_FAILED"}`, PROPERTY | a rebuild is out of date when it commits |
| `EditLeavesNoExcess` | `quota_double_release`, `Edits <- CreateThenDemote`, PROPERTY | a rebuilt counter equal to a stale value is not written |
| `EndedStaysEnded` | `nodes_register_race`, `Alone = {"register"}`, PROPERTY | a heartbeat brings an ended client back |
| `TextOnlyToCommands` | `terminals_closing`, PROPERTY | text meant for a command that has just ended is run by the shell |
| `StopRemoves` | `lifecycle_orderly`, `Faults = {"api"}`, PROPERTY | a stop succeeds and the Deployment runs on |
| `ReapsOnlyIdle` | `lifecycle_orderly`, PROPERTY | the watcher deletes a server that had a heartbeat since it was listed |
| `ResetLeavesFinished` | `lifecycle_orderly`, PROPERTY | a server reused by RESET is REUSED, not FINISHED |
| `NodesReleased` | `nodes_register_race`, `Beats = {"ALIVE"}` | a stop deletes the holder before a registration creates it, or two stops leave the nodes to each other |
| `NodesReleased` | `nodes_register_race`, `Alone` all kinds | a heartbeat that says STOPPED ends the client's row and releases nothing |
| `RegistrationSpinsUp` | `nodes_register_race`, PROPERTY | a registration with nodes has no operation |
| `NoInheritedHold` | `accounting` | a hold taken between the read and the write of a hand-over goes to the new owner |
| `HeldNotReaped` | `accounting` | a pass reaps a server whose hold came after it was listed |
| `RefusedBehindAnother` | `operations`, PROPERTY | a start finds its own operation in the queue and is refused the server on offer |
| `DrainedFirst` | `openhands` | a call cancelled a second time while it drains releases its locks with its thread at work |
| `NoShellLostEver` | `terminals_closing`, `MaxCancels = 1` | a start cancelled while the shell is spawned leaves the shell to nobody |
| `NobodyLeftWaiting` | `terminals_closing`, `MaxCancels = 2` | a creation cancelled again while it cleans up keeps its place in the quota, and those who joined it wait for ever |
| `ClientsCanQuery` | `builds` | a skipped build is named by its tag, whose slashes no segment of the route takes: the client is told that it failed |
| `NoFailureInFlight` | `builds` | a call that fails makes a failure of a build that is still running |
| `RecordsHaveContext` | `builds` | a skipped build has a row without a context |
| `ExistsMeansSuccess` | `control_plane` | a job that failed after its snapshot was recorded is found to exist |
| `OneMigrator` | `control_plane` | a migration that timed out goes on while the next holds the lock |
| `WritersStoppedFirst` | `control_plane` | the status of a Deployment does not count pods that terminate: one still runs when the downgrade begins |
| `StillUnschedulable` | `control_plane` | pods that got their node between two lists are given up |
| `BlanksAsDocker` | `session` | a blank line ends an instruction that Docker continues |
| `McpWriteSucceeds`, `LinesRunAsRoot` | `session`, `Own = {None, "app"}` | after a service that leaves a user of its own active, what needs root runs as that user |
| `CopiesResolve` | `session` | a build removes the asset that another on the same context is about to copy |
| `DirectoryRemoved` | `session`, `Given = {}` | the directory of the assets stays |
| `TimedOutStartsNothing` | `session` | a call given up by its thread goes on and its server is nobody's |
| `CancelReleases` | `session`, `OwnsHttp = FALSE` | the loop stops with a caller's future unanswered |
| `WithinDeadline` | `session` | a reset takes a time of its own after the deadline |
| `CleanupReached` | `session` | a second cancellation skips the removal of private files |
| `KilledOnTimeout` | `session` | a cancellation, or a signal that cannot be sent, leaves processes of a timed-out command |
| `SizeIsTheFiles` | `session` | a chunk that arrives after it was retried changes the file of a finished upload |
| `OneBudget` | `session` | text and structured part keep to the budget each, not together, the stand-ins left aside |
| `LinksLive` | `session`, PROPERTY | a result evicts its own first artifacts |
| `DiskIsIndex` | `session` | the file of a failed write is not seen by eviction |
| `FoundIsServed` | `session` | an artifact is evicted between its look-up and its download |

Each module with a state of its own has one `TypeOK` (the pure readings have none to state). It is
the type invariant for the constants of the run that has the module; it is not among the properties
above, and holds there: put it in place of them, with the module's name if a composite has it
(`S!TypeOK` in `MCControlPlane`). Most are proved for all constants, see section 4.

Deadlock is not checked where the system may rightly stop: every id of a bounded table has been
used, a transfer or a wait is over, nothing is left to ask. What it would have found,
`NoneStuck`, `NoTerminalStuck` and the liveness properties say of requests under way.
`quota_double_release` does check it.

### Fairness

Event loops run their tasks: weak fairness on each task's next step. PostgreSQL queues those who
wait for a lock: strong fairness on each transaction's next step (`ResourceQuota`, in `session`). The
watcher loops for ever (`cleanup_inactive_pods`): weak fairness on its steps, and it is not killed
for ever; as a pass that ends looks like one that is killed, `FairSpec` of `ServerLifecycle` says
that from some time on the watcher dies in its passes only by ending them. A timeout passes: strong
fairness on `Age`, which is disabled while a pass holds its clock. Kubernetes, asked again and again
whether a pod lives, answers some time (`Answered`, strong fairness): a watcher that never gets an
answer can end nothing. Pods that can become ready do. The client library's loop
goes on, its deadlines pass, and scheduled operations are recorded and age (`AsyncOperations`, weak
fairness); no task of an operation is obliged to get anywhere. A tool returns or raises, and a lock
that can be taken by a task that is awake is taken (`ToolCalls`, weak fairness); no order among
woken tasks is assumed, so that patches may overtake for ever a call that has its file and wants
the workspace, and who waits for that file waits with it (`Overtaken`). Nothing is assumed of clients: they need not ask, and may ask for ever.

In `builds`, monitors and the watcher go on without a fault, a monitor runs out of time, and Cloud
Build ends a build at the timeout it was given (weak fairness on `MonitorStep`, `WatchStep`,
`TimeOut`, `CloudBuildEnds`). Nothing ends a Kaniko Job, which has no active deadline, and it may
hang: with its monitor alive the monitor's timeout ends the row; with the monitor's replica dead
only the watcher is left, which asks for ever, and `RowsSettle` says that this is the only row
never settled (`Hangs`; without that exception TLC finds the behaviour). In `control_plane`, tasks
go on and the snapshot controller answers a trigger; start-ups go on, pods that are told to go do,
and the Job goes on (the operator need not: he may leave the rollback at any time); the loop that
waits for pods goes on, and time passes only because it sleeps. In `session`, a client's owner,
once deregistered, its tasks and the threads that wait for them go on (a request without a timeout
only once the HTTP client is closed), and a start that was posted ends; the timeout of a command
and the threads and readers around it go on, and nothing is assumed of its processes; the requests
of transfers are answered (a chunk's POST has no timeout unless its caller gives one; without an
answer a transfer does not end) and clients of transfers go on; the handlers of sockets go on,
time passes for an idle one, and a reader whose peer has gone notices; nothing is assumed of
browsers, pods and servers. In the composite modules each of these is the module's own fairness
for the behaviours in which it is that module's turn.

## 4. Proofs

`AccountingProofs` proves of `ResourceQuota`, for any number of transactions, servers, names and rules
and any CPU figures and edits (assumption `QuotaConstants`):

- `QuotaInvariant`: `Spec => []QuotaInv`. The invariant says that locks exclude each other, that
  what a transaction has matched or loaded under a lock still stands while it relies on it, and
  that a rule whose regex and priority never moved counts no more than its servers hold, less what
  is already marked for release. The counters alone are not inductive: a release subtracts what it
  read earlier, so the invariant must tie each session's memory to the tables.
- `TypeCorrect`, `NoPodLeaks`, `NoCpuLeaks`, `AdmissionWithinLimit`, `SettlesReleaseOnce`: the
  properties `TypeOK`, `PodsNotLeaked`, `CpuNotLeaked`, `AdmissionChargedWithinLimit` and
  `SettleReleasesOnce`, from that invariant.

The proof has one lemma per action and rests on lemmas about sums over servers (`CpuOf`, which
counts units of CPU so that the library's theorems about cardinality apply) and about `RuleOf`.

`OpenHandsProofs` proves of `ToolCalls`, for any set of tasks, number of keys, menu of requests and size of the
cache (assumption `RuntimeAssumption`: a call holds the lease shared and some lock, a reset the
lease exclusively and nothing else):

- `Invariance`: `Spec => []Inv`, with `Inv` the conjunction of `Typing`, `LockInv` and `FlightInv`.
- `ExclusionHolds`: whoever works holds every lock he needs (`Complete`), in his mode (`Held`), and
  a writer holds alone (`Alone`). `Exclusion` itself says nothing of tasks between two locks and
  so is not inductive.
- `NoLostWakeupHolds` and `RegistryTightHolds` need each other: an entry is only dropped when its
  count says that nobody waits (`Registered`), and only then may its sleepers be forgotten.
- `FlightsSoundHolds`: a follower has a leader because an entry in flight has one (`Led`), and the
  ids in flight are those of this generation; a reset may drop all entries because it holds the
  lease alone, and leaders and followers hold it too, so that there are none.
- `Implementation`: `Spec => Implements`, that `ToolCalls` is a `Workspace`. Every step of a task
  that starts, ends or renews is one of `Workspace`'s, allowed because of `Exclusion`; all others
  stutter.
- `NoneStuckHolds`: a call takes its locks in the order of their keys, the lease first (`Ordered`), and
  who sleeps in a lock or queues for it takes that one next (`Sleeping`). Of the locks that anybody
  sleeps in take the last: its holders sleep in none, and so one of them can go on. (Of some numbers
  one is the least, `LeastNumber`, by the library's order on the natural numbers.) Who follows has a
  leader, which is past the lease.
- `DeduplicatorBounded`: beyond `CacheSize` the deduplicator keeps entries in flight only, and
  `TypeOK` of `ToolCalls` with it. `TypeOK` is not inductive: of several entries too many that are in
  flight the last may fail. What is, is that the completed ones are never more than `CacheSize`
  (`CacheInv`), since entries are evicted whenever one completes. `Id` and `Task` need not be finite.
- `CallsBesideTerminals`: `BothSpec => Spec`, so that all this holds in `MCOpenHands` too, and with it
  the types of both (`TypesHold`).

It proves of `Terminals`, for any finite set of tasks, kinds of request, quota and number of
cancellations (assumption `OpenHandsAssumption`), from the invariant `TerminalsInv`, which is the
conjunction of `OwnInv`, `LinesInv` and `QuotaHeld`:

- `QuotaIsHeld`: registered handles and creations under way are sets of ids without a common member,
  because a place is reserved only where nothing is registered (`Reserved`). Their cardinalities
  then change by one where the quota was looked at in the same step.
- `ClosesAlone`: who holds a handle's lock works on that handle alone (`AtOne`), and found it open
  when the lock was given to him (`Holders`); a close marks it while it holds the lock. A session
  is that of one handle (`OneHandle`), since a task that may yet start a shell has given it to none
  (`Unused`). `ClosedAlone` says nothing of handles to be and is not inductive.
- `ShellsAreOwned`: a handle that is not closed is registered or a reset_all has it (`Kept`), and
  its shell lives until it is closed, its close is cancelled, or the holder of its lock closes it
  (`Lives`); a shell without a handle is that of a task that starts it or was cancelled while it did
  (`ShellOwned`).
- `CommandsAreTracked`: a shell has one command at most, in one place, and the session takes it for
  pending (`Tracked`), because a command is typed only when none is pending. A drain gives the pending
  one up for its sentinel, which comes after it. A resync does so for the answer to its probe: every
  command is before the probe (`Probed`), as the lock has been held since it was typed. A task that
  has not typed anything is not heard of in any shell (`Silent`).

- `NoTerminalStuckHolds`: as long as an operation is under way some task or some thread can go on.
  `NoneStuck` of `Terminals` states the guards of the steps (`ThreadRuns`, `CanGo`) and not ENABLED,
  which nothing can be proved of; that they are the guards is `GuardsExact` of `MCTerminals`, which TLC
  finds true on `terminals_closing`, with one and with two cancellations. A task on its way holds the
  lock it works with, or is once in the queue of each that it needs, and the shell it awaits has been
  started or is being killed (`OnItsWay`, `GoInv`). So the holder of a lock can go on, or a thread can
  for him (`HolderGoes`); who is first in the queue of a free lock can, and a lock that is held has a
  holder who can (`QueueGoes`); and who has joined a creation has the task that creates
  (`SomebodyGoes`). The exception is `LeftWaiting`: `create` frees its place after it has closed the
  shell, and a second cancellation falls into that close, which only suppresses an `Exception`. The
  place is kept for ever, and so is everybody who joined.

`ImageProofs` proves of `ImageDefinition` and `Dockerfile` in `MCSession` (assumption
`SessionAssumption`, the conjunction of those of its modules):

- `PrivilegedAsRootHolds`, for any bases and plugins and definitions of any length: no command that
  needs root runs as another user, as long as the plugins keep to users the context knows
  (`KnownUsers`, in the property). A fragment sees the context and not the image; it is enough that
  a context whose user is root means an image whose active user is root (`Agree`), since otherwise a
  fragment switches there and back. One lemma about a plugin added (`AddKeepsImage`), one step for
  each kind of plugin.
- `ImageAsDefinedHolds`, for definitions and Dockerfiles of any length, in three parts.
  *The user.* What the reading of a base makes of its stages is what Docker does, stage by stage
  (`DockerUsersAre`, `BaseUserIsDockers`); from there the context's user is the one named last, or the
  base's, and the image's in the end (`UserInv`).
  *The project.* While plugins come in order the first project is where the context says, is the
  user's, and services look for it there (`InPlace`, `PlaceInv`).
  *The reading.* `Dockerfile` recurs from the end of the text. That such functions exist, and are what
  they are defined to be, is proved by extending them line by line (`PartsAre`, `FromAre`, `StatesAre`).
  Docker goes from the beginning; where an instruction begins both read the same lines as one
  (`InstructionJoins`) and the same ones as the bodies of its heredocs, whose delimiters Docker counts
  down and the code counts up (`CountReached`, `BodiesEnd`); what follows agrees by induction from the
  end (`FaithfulFrom`).

`SessionProofs` proves of nine more modules of `MCSession`, under the same assumption:

- `ReportsTrueHolds`, for any callers, deadlines and faults. A cause is written when the body is left
  and reported when the closing ends (`Reported`); who is refused knows it until it asks again
  (`StartInv`).
- `LeavesNothingHolds`. A local build has every asset it wrote on a list (`Listed`) and nothing of the
  caller's (`Spared`), for any number of builds at once. A future that is pending has a task
  (`Awaits`), and no task outlasts a client whose HTTP session is closed (`Shutting`). What a command
  has left behind depends on how far its ending has come; a group that was ended stays so, since
  only a process that is up forks (`BashInv`).
- `DataKeptHolds`, for any commands, streams, limits, chunks and transfers. A result that says it is
  complete is one that nobody can add to any more (`ResultInv`). Of an output that is too long the
  head is the beginning and the tail the end, of the lengths that the limits leave them
  (`OutputInv`). `Bytes` and `Adds` recur over the sequence of chunks; what they yield is proved by
  induction in the form the prover accepts, from the least number of chunks for which it would fail
  (`LeastNumber`, which rests on the library's theorem that < on the naturals is well-founded). While
  an uploader has its file for itself and no answer comes late, one request is on its way at a time
  and the file is what the uploader has been told of, with or without the chunk on its way
  (`Uploads`). A download has one request at a time (`Alone`), and what it has read agrees with one
  version of the file as far as that goes (`Follows`), unless a place it counts on was written anew.
- `ArtifactsKeptHolds`, an action property, for any budgets, limits, failures and restarts, and for
  the results that `MCSession` defines. The ids of a store grow, so that evicting the oldest entries
  takes their files and no other's, and the rest fits or is one entry (`Keeps`); a write that fails
  leaves one file that nobody knows. Bounding a result is a fold over its blocks; after each the
  inline bytes are within the budget and a stand-in per artifact saved, and no link is newer than what
  the store keeps last (`Sound`).
  `FoldLeft` recurs over the subsets of a domain: that the recursion has a solution for each number
  of elements, and what it yields, is again proved from a least number (`SizesSum`, `ResultKeeps`).
- `PeersReleasedHolds`: why a task of a relay has ended is still true when the relay ends, because
  peers do not come back (`Reasons`, `RelayInv`).
- `TypesHold`: the types of `ClientSession`, `BashCommand`, `FileTransfer`, `PodShell` and
  `SocketForward`. That of `tries` is not inductive: the attempt of a close that fails last ends the
  call, so the count stays below `MaxAttempts` (`TriesLeft`).

`ServerLifecycleProofs` proves, for any number of clients, servers and tasks and any kinds of
requests (assumption `LifecycleConstants`):

- `TypesHold`: the types, and that a task is only where its handler can be (`Shape`, `Rows`),
  whatever clients do and whatever fails.
- `NotSharedHolds`, for orderly clients and any faults. A server is on offer, or one start or finish
  holds it (`OneHolder`), or one client knows it; what a client knows is not on offer
  (`KnownNotOffered`), and a start that is to own a row does (`StarterOwns`). `NotShared` sees only
  the last of these places and is not inductive.
- `NoOrphanHolds`, for orderly clients if nothing but pods fails (`Faults \subseteq {"pods"}`).
  Where a Deployment may come to be, one start has the row (`DeployAlone`); where a row is given up,
  its Deployment goes first or its deleter is on its way (`TornDown`). Both hypotheses are needed:
  `lifecycle_dead_servers` and `StopRemoves` show what happens otherwise.

`AsyncOperationsProofs` proves, for any calls, ids, bounds and faults (assumption `OperationsConstants`):

- `TypesHold`, and `OneServerPerCallHolds`: only the operation a call posted last may still start a
  server, and not even that one while the call pauses before the next (`OnlyTheLast`).
- `NoMissedSuccessHolds`: once an operation is one that no poll waits for, no step of its task, of
  the watcher or of a fault makes it one again (`InTimeIsSettled`, `OutcomeIsLate`), so that the
  last poll after the deadline finds it.

`ImageBuildProofs` proves, for any requests, builds, tags, switches and faults (assumption
`ImageBuildAssumption`: a build is one image of one request):

- `TypesHold`, and `SuccessIsPushedHolds`: what is known of a build passes from the backend to the
  monitor or the watcher, from there to the row, and from the row to the client; the invariant says
  so of every place (`SuccessAnywhere`). The row of a skipped build is named for its tag and other
  builds may share it; it is never the watcher's (`WatchedHaveJobs`).
- `FailureIsRealHolds`: with `FailureSeen` for the watcher, and images not yet reached untouched.

`ControlPlaneProofs` proves of the three modules of `MCControlPlane`, for any jobs, operations,
replicas, pods, budgets and timeouts (assumption `ControlPlaneAssumption`; the set of jobs is finite):

- `TypesHold`.
- `SnapshotIsOwnHolds`: the trigger of a pod that runs belongs to the task that is to delete it
  (`OwnTrigger`), because nobody works on a job's pod before its server is deployed (`NotDeployed`).
- `ReadyIsFinalHolds`: the counters are cardinalities of a set of jobs that have been counted
  (`Counted`), and those, once the batch is full, are all (`BatchSize`); no job is counted twice
  unless the commit of its success raised after it took effect.
- `HelmAfterDowngradeHolds`: a Job succeeds only by reverting the schema, and Helm is reached only
  past one that succeeded in this attempt (`Reverted`).
- `BudgetsKeptHolds`: a stint is measured from the poll that first saw it (`SinceSeen`), by the budget
  that the autoscaler has earned it (`Granted`), up to the outcome (`Undecided`).

`AccountingProofs` proves of `ClientNodes` and `KeepaliveHold` in `MCAccounting` (assumption
`AccountingAssumption`):

- `PromisesKeptHolds`: for any holders, owners, durations and timeouts, by itself inductive once the
  times are numbers. `HoldTypes`: nothing has a time to come (`UpToMaxTime`).
- `NodesMatchDemandHolds` and `ExcessOnRecordHolds`, for any clients, nodes, tasks and faults, if the
  requests on one name follow each other (`Alone` is all kinds, as the run has it; when they overlap
  both are false, see `nodes_register_race`) and whatever statuses heartbeats name. The invariant `NodesInv` says of the one task that is
  under way which clients it has read (`Shaped`), on what grounds it will change the holder
  (`Grounds`, `LeftToOthers`) and whom the holder already matches (`Matched`); and of the table that
  nodes are asked for by a client that is live or on record (`Backed`), and that who left does not
  count (`Outside`).

In `MCAccounting`, `MCControlPlane`, `MCOpenHands` and `MCSession` a step is one of one module and leaves the others' variables
alone, so that each module has an invariant of its own and the theorem is of the whole
specification. TLC was given each of these invariants on the run's instance before it was proved.

Model-checked only: the liveness properties (`AbandonedServersEnd`, `NobodyWaits`, `WriterServed`,
`RowsSettle`, `OperationsEnd`), as TLAPS proves none under fairness; `GuardsExact`, which is stated
with ENABLED. Every other property of the runs is proved.

## 5. Plan

The components that have a protocol are modelled. What is left of the plan, in this order:

1. An abstract specification of an operation that is answered once, implemented by
   `AsyncOperations`.
2. The operations of other requests than a start, where they differ from it.

## 6. Not modelled

- Rewards, the sandbox server and the inspect plugin: one call of the bash executor or of a tool
  each, with no state between calls.
- Instrumentation, configuration, templates, examples, charts and the changelog script: settings,
  deployment material and sequential programs.
- The pages of the dashboard, the capabilities of a server and the capture and listing of terminals:
  they only read.
- The watcher's advisory lock and two passes at once: a pass has one connection of its own.
- Patches and edits of files, test reports, checksums and manifests: sequential transformations of
  text, where the tests say more than a model would.
- The terminal sessions of the OpenHands library, which the repository only wraps, and what happens
  inside a build of Cloud Build, Kaniko or the local Docker.
