----------------------------- MODULE MCSession -----------------------------
(***************************************************************************)
(* Small instances of what defines, starts and serves a sandbox, side by   *)
(* side for TLC: ImageDefinition, Dockerfile and ContextStaging on the      *)
(* author's machine, ClientSession and StartDeadline in the client,        *)
(* ResourceQuota and SocketForward in the orchestrator, BashCommand,       *)
(* OutputCollector, FileTransfer, PodShell and Artifacts at the sandbox    *)
(* (MCAccounting has a larger instance of ResourceQuota).                  *)
(* They share no state, and a behaviour is one of one of them.             *)
(***************************************************************************)
EXTENDS Integers

CONSTANTS
  Base, Plugin, Numeric, Variable,
  Own,          \* the users that a service plugin may name for itself (None or a name)
  MaxPlugins, None,
  MaxLines,
  Builder, File, Given, StagingFaults,
  Caller, Scoped, Timed, OwnsHttp, ClientFaults,
  Deadline, RetryDelay, Allowance, ResetLimit,
  HasTimeout, MaxCancels, BashFaults,
  Limits, MaxChunk, MaxBytes,
  Uploader, Downloader, Total, ChunkBytes, FirstSize, TransferFaults, MaxWrites,
  MaxInputs, IdleTimeout,
  Txn, Server, Rule, NoRule, Written,
  Budget, MaxArtifacts, MaxTotal, MaxSingle, Reader, MaxSaves, StoreFaults

VARIABLES
  which,
  phase, base, plugins, ctx, box, warnings,
  text,
  pcC, todo, asset, created, made, found, content, dir, faultsC,
  owner, caller, taskS, cut, tries, cause, fut, loop, http, beat, reg, server, faultsS,
  pcD, now, remaining, refused, answer, outcome,
  pcB, reason, cutB, sudo, thread, files, proc, holds, reader, cancels, faultsB,
  maxBytes, total, head, tail,
  file, source, xfer, wire, look, held, torn, writes, faultsX,
  pcP, browser, stream, shell, status, task, told, since, inputs,
  rules, used, servers, pcQ, req, mem,
  store, saved, reply, up, dl, broken, faultsA,
  pcR, client, upstream, relay, closed

\* Bases: a registry image; one stage with a user and its group; a user that is a
\* variable; a reserved name; a stage that is not there; a user inherited from a stage
\* of a name declared twice; a pick that is the last stage, and one that is not.
User(name, group) == [name |-> name, group |-> group]
Alias(name, upper) == [name |-> name, upper |-> upper]
Stage(image, alias, user) == [image |-> image, alias |-> alias, user |-> user]
Inline(stages, pick) == [stages |-> stages, pick |-> pick]
debian == Alias("debian", FALSE)
Bases ==
  {Inline(<<>>, None),
   Inline(<<Stage(debian, None, User("dev", "staff"))>>, None),
   Inline(<<Stage(debian, None, User("$USER", None))>>, None),
   Inline(<<Stage(debian, Alias("idegym_base", FALSE), None)>>, None),
   Inline(<<Stage(debian, Alias("a", FALSE), User("dev", None))>>, Alias("c", FALSE)),
   Inline(<<Stage(debian, Alias("a", FALSE), User("dev", None)),
            Stage(debian, Alias("a", TRUE), User("1000", None)),
            Stage(Alias("a", FALSE), Alias("b", FALSE), None)>>, Alias("b", TRUE)),
   Inline(<<Stage(debian, Alias("a", TRUE), User("root", "staff")),
            Stage(debian, Alias("a", FALSE), User("1000", None)),
            Stage(Alias("a", TRUE), None, None)>>, None),
   Inline(<<Stage(debian, Alias("a", TRUE), User("dev", None)),
            Stage(Alias("a", FALSE), Alias("a", FALSE), None),
            Stage(Alias("a", FALSE), None, User("root", None))>>, Alias("a", FALSE))}

\* The plugins: every kind, with and without the fields that matter.
Plugins ==
  {[kind |-> "system"], [kind |-> "server"],
   [kind |-> "user", user |-> User("app", None), home |-> <<"home", "app">>],
   [kind |-> "raw", user |-> None], [kind |-> "raw", user |-> User("dev", "staff")],
   [kind |-> "project", source |-> "git", target |-> None, owner |-> None],
   [kind |-> "project", source |-> "local", target |-> <<"srv">>, owner |-> None],
   [kind |-> "project", source |-> "archive", target |-> None, owner |-> User("dev", "dev")]}
  \cup {[kind |-> "service", name |-> n, always |-> n = "openhands", user |-> u] :
          n \in {"idea", "openhands"}, u \in Own}

\* One rule, and requests of one CPU; an operator has the counters rebuilt.
AllRow == [stage |-> "present", match |-> {"alice"}, priority |-> -1,
           limit |-> [cpu |-> 3, pods |-> 2]]
Q == INSTANCE ResourceQuota WITH
       Name <- {"alice"}, Cpu <- {1}, Edits <- {[op |-> "recalculate"]},
       FirstRules <- [r \in Rule |-> AllRow], pc <- pcQ
\* Results that fit, that are cut, whose parts are each too large, and images.
Text(size) == [kind |-> "text", size |-> size]
Image(size) == [kind |-> "image", size |-> size]
ToolResults ==
  {[content |-> <<Text(1)>>, structured |-> 3],
   [content |-> <<Text(4), Text(2)>>, structured |-> 0],
   [content |-> <<Text(1), Image(2), Text(2)>>, structured |-> 1],
   [content |-> <<Image(3), [kind |-> "other", size |-> 5]>>, structured |-> 4]}

\* Physical lines: each kind alone, and a heredoc whose first line is continued.
Plain == [says |-> "text", ends |-> "none", doubled |-> FALSE, heredoc |-> FALSE,
          flag |-> FALSE, copies |-> "no"]
Lines ==
  {[Plain EXCEPT !.says = w] : w \in {"blank", "comment", "escape directive", "text", "end"}}
  \cup {[Plain EXCEPT !.ends = e] : e \in {"backslash", "backtick"}}
  \cup {[Plain EXCEPT !.ends = "backslash", !.doubled = TRUE], [Plain EXCEPT !.heredoc = TRUE],
        [Plain EXCEPT !.heredoc = TRUE, !.ends = "backslash"], [Plain EXCEPT !.flag = TRUE],
        [Plain EXCEPT !.copies = "context"]}

I == INSTANCE ImageDefinition
T == INSTANCE Dockerfile WITH Line <- Lines
C == INSTANCE ContextStaging WITH pc <- pcC, file <- asset, faults <- faultsC,
       MaxFaults <- StagingFaults
S == INSTANCE ClientSession WITH task <- taskS, faults <- faultsS, MaxFaults <- ClientFaults
D == INSTANCE StartDeadline WITH pc <- pcD
B == INSTANCE BashCommand WITH pc <- pcB, cut <- cutB, faults <- faultsB, MaxFaults <- BashFaults
O == INSTANCE OutputCollector
X == INSTANCE FileTransfer WITH faults <- faultsX, MaxFaults <- TransferFaults
P == INSTANCE PodShell WITH pc <- pcP
A == INSTANCE Artifacts WITH Results <- ToolResults, MaxFaults <- StoreFaults
F == INSTANCE SocketForward

ASSUME SessionAssumption ==
  /\ I!ImageDefinitionAssumption /\ T!DockerfileAssumption /\ C!ContextStagingAssumption
  /\ S!ClientSessionAssumption /\ D!StartDeadlineAssumption
  /\ B!BashCommandAssumption /\ O!OutputCollectorAssumption
  /\ X!FileTransferAssumption /\ P!PodShellAssumption /\ Q!QuotaConstants
  /\ A!ArtifactsAssumption

iVars == <<phase, base, plugins, ctx, box, warnings>>
cVars == <<pcC, todo, asset, created, made, found, content, dir, faultsC>>
sVars == <<owner, caller, taskS, cut, tries, cause, fut, loop, http, beat, reg, server, faultsS>>
dVars == <<pcD, now, remaining, refused, answer, outcome>>
bVars == <<pcB, reason, cutB, sudo, thread, files, proc, holds, reader, cancels, faultsB>>
oVars == <<maxBytes, total, head, tail>>
xVars == <<file, source, xfer, wire, look, held, torn, writes, faultsX>>
pVars == <<pcP, browser, stream, shell, status, task, told, since, inputs>>
qVars == <<rules, used, servers, pcQ, req, mem>>
aVars == <<store, saved, reply, up, dl, broken, faultsA>>
fVars == <<pcR, client, upstream, relay, closed>>
vars == <<which, iVars, text, cVars, sVars, dVars, bVars, oVars, xVars, pVars, qVars, aVars, fVars>>

\* The inputs of a module that is not at work are fixed.
Init ==
  /\ which \in {"image", "text", "staging", "client", "start", "quota", "bash", "output",
              "transfer", "shell", "store", "socket"}
  /\ I!Init /\ C!Init /\ S!Init /\ D!Init /\ B!Init /\ O!Init /\ X!Init /\ P!Init /\ Q!Init
  /\ A!Init /\ F!Init /\ T!Init
  /\ which # "image" => base = CHOOSE b \in Base : TRUE
  /\ which # "output" => maxBytes = CHOOSE m \in Limits : TRUE

ImageNext ==
  /\ which = "image" /\ I!Next
  /\ UNCHANGED <<which, text, cVars, sVars, dVars, qVars, bVars, oVars, xVars, pVars, aVars, fVars>>
StagingNext ==
  /\ which = "staging" /\ C!Next
  /\ UNCHANGED <<which, text, iVars, sVars, dVars, qVars, bVars, oVars, xVars, pVars, aVars, fVars>>
ClientNext ==
  /\ which = "client" /\ S!Next
  /\ UNCHANGED <<which, text, iVars, cVars, dVars, qVars, bVars, oVars, xVars, pVars, aVars, fVars>>
StartNext ==
  /\ which = "start" /\ D!Next
  /\ UNCHANGED <<which, text, iVars, cVars, sVars, qVars, bVars, oVars, xVars, pVars, aVars, fVars>>
QuotaNext ==
  /\ which = "quota" /\ Q!Next
  /\ UNCHANGED <<which, text, iVars, cVars, sVars, dVars, bVars, oVars, xVars, pVars, aVars, fVars>>
BashNext ==
  /\ which = "bash" /\ B!Next
  /\ UNCHANGED <<which, text, iVars, cVars, sVars, dVars, qVars, oVars, xVars, pVars, aVars, fVars>>
OutputNext ==
  /\ which = "output" /\ O!Next
  /\ UNCHANGED <<which, text, iVars, cVars, sVars, dVars, qVars, bVars, xVars, pVars, aVars, fVars>>
TransferNext ==
  /\ which = "transfer" /\ X!Next
  /\ UNCHANGED <<which, text, iVars, cVars, sVars, dVars, qVars, bVars, oVars, pVars, aVars, fVars>>
ShellNext ==
  /\ which = "shell" /\ P!Next
  /\ UNCHANGED <<which, text, iVars, cVars, sVars, dVars, qVars, bVars, oVars, xVars, aVars, fVars>>
StoreNext ==
  /\ which = "store" /\ A!Next
  /\ UNCHANGED <<which, text, iVars, cVars, sVars, dVars, qVars, bVars, oVars, xVars, pVars, fVars>>
SocketNext ==
  /\ which = "socket" /\ F!Next
  /\ UNCHANGED <<which, text, iVars, cVars, sVars, dVars, qVars, bVars, oVars, xVars, pVars, aVars>>
TextNext ==
  /\ which = "text" /\ T!Next
  /\ UNCHANGED <<which, iVars, cVars, sVars, dVars, qVars, bVars, oVars, xVars, pVars, aVars>>
  /\ UNCHANGED fVars

Next ==
  \/ ImageNext \/ TextNext \/ StagingNext \/ ClientNext \/ StartNext \/ QuotaNext \/ SocketNext
  \/ BashNext \/ OutputNext \/ TransferNext \/ ShellNext \/ StoreNext

Spec == Init /\ [][Next]_vars

\* Fairness of each module, for the one whose turn it is.
FairSpec ==
  /\ Spec
  /\ WF_sVars(which = "client" /\ S!Exit) /\ WF_sVars(which = "client" /\ S!BeatEnds)
  /\ \A c \in Caller :
       /\ WF_sVars(which = "client" /\ S!CallGoesOn(c))
       /\ WF_sVars(which = "client" /\ S!ThreadStep(c))
       /\ WF_sVars(which = "client" /\ S!StartEnds(c))
  /\ WF_dVars(which = "start" /\ D!Next)
  /\ WF_bVars(which = "bash" /\ B!Call) /\ WF_bVars(which = "bash" /\ B!TimesOut)
  /\ WF_bVars(which = "bash" /\ B!ThreadEnds) /\ WF_bVars(which = "bash" /\ B!ReaderEnds)
  /\ \A t \in Uploader \cup Downloader : WF_xVars(which = "transfer" /\ X!Client(t))
  /\ WF_xVars(which = "transfer" /\ X!Arrive)
  /\ WF_pVars(which = "shell" /\ P!Handler) /\ WF_pVars(which = "shell" /\ P!Idles)
  /\ WF_pVars(which = "shell" /\ P!Tick)
  /\ \A t \in Txn : SF_qVars(which = "quota" /\ Q!Step(t))
  /\ WF_fVars(which = "socket" /\ F!Handler) /\ WF_fVars(which = "socket" /\ F!ReadersEnd)

-----------------------------------------------------------------------------
\* What needs root runs as root, whatever user was left active.
PrivilegedAsRoot == I!PrivilegedAsRoot
\* An image ends as the user its definition names last, and its project is where the
\* services look for it, and theirs; a Dockerfile's instructions are what Docker reads.
ImageAsDefined == I!EndsAsNamed /\ I!ProjectUsable /\ T!ReadAsDocker
\* A call reports what became of its server, and a start why it ended.
ReportsTrue == S!CloseReported /\ D!BusyIsReported
\* A client that is closed leaves no task and no call behind, a command that is over no
\* process and no private file, a local build nothing in the caller's context.
LeavesNothing ==
  C!ContextRestored /\ (which = "client" => S!NothingPending) /\ B!GroupEnded /\ B!FilesGone
\* What a call returns of its output is all of it, or both ends of it; an upload alone leaves
\* its data, and a download returns a version of the file, unless bytes it had were rewritten.
DataKept == B!ResultComplete /\ O!EndsKept /\ X!UploadWhole /\ X!DownloadIsVersion
\* A terminal session ends as its peers made it end, a forwarded socket too; both leave
\* nothing open or running in the orchestrator.
PeersReleased == P!OutcomeIsTrue /\ F!BothReleased
\* A tool's result is bounded, but for a stand-in per artifact, and what does not fit is
\* kept, within limits.
ArtifactsKept == A!ArtifactsKept
\* Callers are released once a client is deregistered, and what was begun ends: starts,
\* quota transactions, commands, transfers whose requests are answered, terminal sessions
\* and forwarded sockets.
OperationsEnd ==
  /\ which = "client" => S!CallersReleased
  /\ which = "start" => D!StartEnds
  /\ Q!TransactionsFinish /\ B!CallEnds /\ X!TransfersEnd /\ P!SessionEnds
  /\ F!RelayEnds

\* What the source says, and the code does not do (see the modules).
McpWriteSucceeds == I!McpWriteSucceeds
LinesRunAsRoot == I!LinesRunAsRoot
BlanksAsDocker == T!BlanksAsDocker
CopiesResolve == C!CopiesResolve
DirectoryRemoved == C!DirectoryRemoved
TimedOutStartsNothing == S!TimedOutStartsNothing
CancelReleases == S!CancelReleases
WithinDeadline == D!WithinDeadline
CleanupReached == B!CleanupReached
KilledOnTimeout == B!KilledOnTimeout
SizeIsTheFiles == X!SizeIsTheFiles
OneBudget == A!OneBudget
LinksLive == A!LinksLive
DiskIsIndex == A!DiskIsIndex
FoundIsServed == A!FoundIsServed
FailureClosesWithCode == F!FailureClosesWithCode
=============================================================================
