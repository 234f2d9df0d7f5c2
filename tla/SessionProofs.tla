---------------------------- MODULE SessionProofs ---------------------------
(***************************************************************************)
(* Theorems about the modules that the run session puts side by side, for  *)
(* every value of the constants: ContextStaging, ClientSession,            *)
(* StartDeadline, BashCommand, OutputCollector, FileTransfer, Artifacts,   *)
(* PodShell and SocketForward; those about ImageDefinition and Dockerfile  *)
(* are in ImageProofs.                                                     *)
(*                                                                         *)
(* They share no state, so a step of the whole is a step of one and leaves *)
(* the others alone (SideBySide), and each has an invariant of its own.    *)
(*                                                                         *)
(* ClientSession.  A future that is pending has a task (Awaits), so the    *)
(* threads wait for the tasks alone; and when the owner reaches its last   *)
(* steps the HTTP client is closed, so no task outlasts the wait           *)
(* (Shutting).  A cause is written when the body is left, and only the end *)
(* of the closing reports it (Reported).                                   *)
(*                                                                         *)
(* BashCommand.  Where the call is says how far the ending has come; a     *)
(* group that was ended stays so, for only a process that is up can fork.  *)
(* Output that is complete stays so, for the same reason (ResultInv).      *)
(*                                                                         *)
(* OutputCollector.  The head is the beginning of the stream and the tail  *)
(* its end, of the lengths that the limits leave them (OutputInv).  What   *)
(* chunks add up to is said by recursion over their sequence; what is      *)
(* true of it for some number of chunks is true for the next, so that a    *)
(* least number for which it fails cannot be (LeastNumber).                *)
(*                                                                         *)
(* FileTransfer.  While nobody else changes the file and no answer is late,*)
(* there is one request at a time, and the file holds what the uploader    *)
(* has been told of (Uploads).  A download has one request at a time       *)
(* (Alone), and the file agrees with what it has read as far as it goes    *)
(* (Follows), unless a place it counts on was written anew.                *)
(*                                                                         *)
(* Artifacts.  The ids of a store grow, so that an eviction of the oldest  *)
(* takes their files and no other (Knows), and what is left fits or is one *)
(* (Keeps).  Bounding a result goes block by block, and each leaves the    *)
(* inline bytes within the budget and the stand-ins for what was saved, and *)
(* the newest link in the store (Sound).                                   *)
(* Folds over sequences are unfolded as the chunks are (SizesSum).         *)
(*                                                                         *)
(* PodShell and SocketForward.  Why a task ended goes on being true until  *)
(* the relay is over, because peers never come back.                       *)
(***************************************************************************)
EXTENDS ImageProofs, SequenceTheorems, FiniteSetTheorems, WellFoundedInduction, TLAPS

-----------------------------------------------------------------------------
(* The invariants, module by module.                                       *)

\* ContextStaging: no build writes or removes what the caller has given, and an asset
\* that is there is on the list of a build that is still to clean up.
Spared ==
  /\ \A f \in Given : content[f] = "caller"
  /\ \A b \in Builder :
       /\ created[b] \subseteq File \ Given
       /\ pcC[b] = "writing" => asset[b] \in File \ Given
Listed ==
  faultsC = 0 =>
    /\ \A b \in Builder : pcC[b] # "dead"
    /\ \A f \in File \ Given :
         content[f] # "absent" => \E b \in Builder : f \in created[b] /\ pcC[b] # "done"
StagingTypes ==
  /\ content \in [File -> {"caller", "asset", "absent"}] /\ created \in [Builder -> SUBSET File]
  /\ asset \in [Builder -> File \cup {"none"}] /\ faultsC \in Nat
  /\ pcC \in [Builder -> {"staging", "writing", "ready", "cleanup", "done", "dead"}]
StagingInv == StagingTypes /\ Spared /\ Listed

\* ClientSession: a pending future has its task; the loop of a client that is closed
\* takes no more, and its tasks cannot outlast a closed HTTP client.
Awaits ==
  \A c \in Caller :
    /\ fut[c] = "pending" => S!Live(c)
    /\ S!Live(c) => fut[c] \in {"pending", "cancelled"}
    /\ caller[c] \in {"idle", "checked"} => taskS[c] = "none"
Shutting ==
  /\ OwnsHttp /\ owner \in {"close", "drain", "cancel", "hooks", "gone"} => http = "closed"
  /\ owner = "enter" => beat = "none"
  /\ owner \in {"cancel", "hooks", "gone"} => S!BeatOver
  /\ OwnsHttp /\ owner \in {"hooks", "gone"} => S!Busy = {}
  /\ loop = "stopped" => owner = "gone"
\* What a call is to report.
Reported ==
  \A c \in Caller :
    /\ cause[c] # "none" => taskS[c] \in {"close", "over"}
    /\ c \in Scoped /\ fut[c] = "result" => server[c] \in {"finished", "ended"} /\ taskS[c] = "over"
    /\ cause[c] = "raised" => fut[c] \in {"pending", "body error", "cancelled"}
    /\ cause[c] \in {"none", "ok", "raised", "cancelled"}
ClientTypes ==
  /\ caller \in [Caller -> S!Thread] /\ taskS \in [Caller -> S!Task] /\ cut \subseteq Caller
  /\ fut \in [Caller -> S!Future] /\ owner \in S!Owner
  /\ cause \in [Caller -> {"none", "ok", "raised", "cancelled"}]
  /\ server \in [Caller -> {"none", "starting", "alive", "finished", "ended"}]
ClientInv == ClientTypes /\ Awaits /\ Shutting /\ Reported

\* StartDeadline: who was refused knows it until it asks again.
StartInv ==
  /\ answer = "429" => refused
  /\ pcD # "done" => outcome = "none"
  /\ pcD = "reset" => answer = "reused"
  /\ refused \in BOOLEAN
  /\ D!BusyIsReported

\* BashCommand: a thread that writes is waited for, unless a cancellation came before;
\* a group that has been ended stays so.
Ended == pcB \in {"drain", "reap", "join", "done"}
Stopped == proc["leader"] # "up" /\ proc["child"] # "up"
BashTypes ==
  /\ pcB \in B!Pc /\ proc \in [B!Process -> {"none", "up", "gone"}]
  /\ cutB \in BOOLEAN /\ cancels \in Nat /\ faultsB \in Nat
BashInv ==
  /\ BashTypes
  /\ pcB = "new" => files = {}
  /\ pcB \in {"new", "write", "spawn"} => reader = "none" /\ Stopped
  /\ pcB \in {"term", "termroot", "grace", "kill", "killroot", "drain", "reap"} =>
       reason # "none" /\ reader # "none"
  /\ pcB = "run" => reader # "none"
  /\ Ended /\ reader # "none" => reason # "none"
  /\ thread = "writing" => pcB = "write" \/ (pcB \in {"join", "done"} /\ cancels >= 1)
  /\ pcB = "killroot" => proc["leader"] # "up"
  /\ Ended /\ reader # "none" /\ reason \in {"timeout", "cancelled"} /\ faultsB = 0 /\ cutB = FALSE
       => Stopped
  /\ B!FilesGone

\* PodShell: why a task of the relay has ended still holds when the relay ends.
Reasons ==
  /\ task["pod"] \in {"exited", "pod_closed"} => stream = "ended"
  /\ task["pod"] = "exited" => status # "none"
  /\ task["pod"] = "pod_closed" => status = "none"
  /\ task["browser"] = "browser_closed" => browser = "gone"
  /\ task["pod"] = P!Failed => browser = "gone"
  /\ task["browser"] = P!Failed => stream # "open"
ShellInv ==
  /\ task \in [P!Side -> P!Reason \cup {"none", P!Running, P!Failed, P!Raised, P!Cancelled}]
  /\ task["pod"] \notin {"browser_closed", "idle", P!Raised}
  /\ task["browser"] \notin {"exited", "pod_closed", "idle"}
  /\ task["idle"] \notin {"exited", "pod_closed", "browser_closed", P!Failed, P!Raised}
  /\ status # "none" => shell = "gone"
  /\ pcP \in {"check", "connect"} =>
       task = P!NotStarted /\ stream = "none" /\ shell = "none" /\ status = "none"
  /\ pcP = "relay" => Reasons /\ stream \in {"open", "ended"} /\ \A s \in P!Side : task[s] \notin {"none", P!Cancelled}
  /\ P!OutcomeIsTrue

\* SocketForward: a task that is done has a peer that has gone, or another has failed.
RelayInv ==
  /\ F!TypeOK
  /\ pcR \in {"validate", "beat", "connect"} => relay = F!NoRelay /\ upstream = "none"
  /\ pcR = "relay" => upstream # "none"
  /\ pcR = "relay" => \A w \in F!Way : relay[w] \in {F!Running, F!Failed, F!Done}
  /\ pcR = "gather" => \A w \in F!Way : relay[w] # F!Running
  /\ pcR = "gather" => \E w \in F!Way : relay[w] \in {F!Done, F!Failed}
  /\ pcR \in {"close", "raise"} =>
       upstream # "open" /\ \A w \in F!Way : relay[w] \notin {F!Running, "cancelling"}
  /\ pcR = "close" => \E w \in F!Way : relay[w] = F!Done
  /\ pcR = "close" => \A w \in F!Way : relay[w] # F!Failed
  /\ \A w \in F!Way : relay[w] = F!Done =>
       client = "gone" \/ upstream = "ended" \/ \E v \in F!Way : relay[v] = F!Failed
  /\ upstream = "closed" =>
       client = "gone" \/ relay["to server"] \in {F!Failed, F!Cancelled}
  /\ relay["to server"] \in {F!Done, F!Failed, F!Cancelled} => upstream # "open"
  /\ pcR # "end" => closed = "none"
  /\ F!BothReleased

-----------------------------------------------------------------------------
(* StartDeadline and SocketForward.                                        *)

LEMMA StartStarts == D!Init => StartInv
BY DEF D!Init, StartInv, D!BusyIsReported

LEMMA StartStep ==
  ASSUME StartInv, [D!Next]_dVars
  PROVE  StartInv'
<1> USE DEF StartInv, D!BusyIsReported, D!Go, D!Ends
<1>1. CASE UNCHANGED dVars
  BY <1>1 DEF dVars
<1>2. CASE D!Begin
  BY <1>2 DEF D!Begin, D!GivingUp
<1>3. CASE D!Post
  BY <1>3 DEF D!Post
<1>4. CASE D!Poll
  BY <1>4 DEF D!Poll, D!Refused
<1>5. CASE D!Sleep \/ D!Reset
  BY <1>5 DEF D!Sleep, D!Reset
<1> QED BY <1>1, <1>2, <1>3, <1>4, <1>5 DEF D!Next

LEMMA RelayStarts == F!Init => RelayInv
BY DEF F!Init, RelayInv, F!TypeOK, F!NoRelay, F!Way, F!BothReleased, F!Running, F!Done, F!Failed, F!Cancelled

LEMMA RelayStep ==
  ASSUME RelayInv, [F!Next]_fVars
  PROVE  RelayInv'
<1> USE DEF RelayInv, F!TypeOK, F!BothReleased, F!Running, F!Done, F!Failed, F!Cancelled, F!Way, F!Go, F!TaskEnds
<1>1. CASE UNCHANGED fVars
  BY <1>1 DEF fVars
<1>2. CASE F!Validate \/ F!Beat \/ F!Connect
  BY <1>2 DEF F!Validate, F!Beat, F!Connect, F!NoRelay
<1>3. CASE F!FirstCompleted
  BY <1>3 DEF F!FirstCompleted
<1>4. CASE F!Gathered
  BY <1>4 DEF F!Gathered, F!Shut
<1>5. CASE F!Close \/ F!Raises
  BY <1>5 DEF F!Close, F!Raises, F!Farewell, F!NoRelay
<1>6. CASE F!ClientReader
  BY <1>6 DEF F!ClientReader, F!Shut, F!NoRelay
<1>7. CASE F!UpstreamReader
  BY <1>7 DEF F!UpstreamReader, F!NoRelay
<1>8. ASSUME NEW w \in F!Way, F!CancelReaches(w)
      PROVE  RelayInv'
  BY <1>8 DEF F!CancelReaches, F!Shut, F!NoRelay
<1>9. CASE F!ClientGoes \/ F!ServerEnds
  BY <1>9 DEF F!ClientGoes, F!ServerEnds
<1> QED BY <1>1, <1>2, <1>3, <1>4, <1>5, <1>6, <1>7, <1>8, <1>9 DEF F!Next, F!Handler, F!Tasks

-----------------------------------------------------------------------------
(* PodShell.                                                               *)

LEMMA ShellStarts == P!Init => ShellInv
BY DEF P!Init, ShellInv, P!NotStarted, P!Side, P!Reason, P!OutcomeIsTrue, P!Running, P!Failed, P!Raised,
   P!Cancelled

LEMMA ShellStep ==
  ASSUME ShellInv, [P!Next]_pVars
  PROVE  ShellInv'
<1> USE DEF P!Side, P!Running, P!Failed, P!Raised, P!Cancelled, P!Go, P!EndsAs, P!InRelay
<1>1. CASE UNCHANGED pVars
  BY <1>1 DEF pVars, ShellInv, Reasons, P!OutcomeIsTrue
<1>2. CASE P!Check \/ P!Connect \/ P!Close
  <2>1. CASE P!Check
    BY <2>1 DEF P!Check, P!NotStarted, P!Reason, ShellInv, Reasons, P!OutcomeIsTrue
  <2>2. CASE P!Connect
    <3>1. /\ pcP = "connect" /\ task = P!NotStarted /\ status = "none"
          /\ UNCHANGED <<browser, status>>
      BY <2>2 DEF P!Connect, ShellInv
    <3>2. CASE pcP' = "close" /\ UNCHANGED <<stream, shell, task>>
      BY <3>1, <3>2 DEF ShellInv, P!OutcomeIsTrue
    <3>3. CASE pcP' = "relay" /\ stream' = "open" /\ shell' = "up" /\ task' = [s \in P!Side |-> "running"]
      BY <2>2, <3>1, <3>3 DEF ShellInv, Reasons, P!OutcomeIsTrue
    <3> QED BY <2>2, <3>2, <3>3 DEF P!Connect
  <2>3. CASE P!Close
    BY <2>3 DEF P!Close, P!NotStarted, P!Reason, ShellInv, Reasons, P!OutcomeIsTrue
  <2> QED BY <1>2, <2>1, <2>2, <2>3
<1>3. CASE P!RelayEnds
  <2>1. /\ pcP = "relay" /\ pcP' = "close" /\ UNCHANGED <<browser, shell, status>>
        /\ stream' \in {"ended", "closed"} /\ (stream = "ended" => stream' = "ended")
        /\ task' = [s \in P!Side |-> IF task[s] = "running" THEN "cancelled" ELSE task[s]]
    BY <1>3 DEF P!RelayEnds, ShellInv
  <2>2. /\ P!Finished # {} /\ told' = P!Outcome
    BY <1>3 DEF P!RelayEnds, P!FirstCompleted
  <2>3. \A s \in P!Clean : task[s] = "exited" \/ task[s] = "pod_closed" \/ task[s] = "browser_closed"
                            \/ task[s] = "idle"
    BY <2>1 DEF ShellInv, P!Clean, P!Finished, P!Reason
  <2>4. /\ told' \in {"exited", "pod_closed"} => told' = task["pod"]
        /\ told' = "browser_closed" => told' = task["browser"]
        /\ told' \in {"disconnected", "failed"} => P!Clean = {} /\ told' = P!Unclean
        /\ task["pod"] \in {"exited", "pod_closed"} => told' = task["pod"]
    <3>1. CASE P!Clean = {}
      BY <2>2, <3>1 DEF P!Outcome, P!Unclean, P!Clean, P!Finished
    <3>2. CASE P!Clean # {}
      <4>1. P!Outcome \in {task[s] : s \in P!Clean}
        BY <3>2 DEF P!Outcome, P!Clean, P!Finished
      <4>2. told' \notin {"disconnected", "failed"}
        BY <2>2, <2>3, <4>1
      <4>3. CASE "pod" \in P!Clean
        BY <2>2, <2>3, <4>2, <4>3 DEF P!Outcome, ShellInv
      <4>4. CASE "pod" \notin P!Clean
        <5>1. task["pod"] \notin {"exited", "pod_closed"}
          BY <4>4 DEF P!Clean, P!Finished
        <5>2. told' = task["browser"] \/ told' = task["idle"]
          BY <2>2, <3>2, <4>4 DEF P!Outcome, P!Clean, P!Finished
        <5> QED BY <4>2, <5>1, <5>2 DEF ShellInv
      <4> QED BY <4>3, <4>4
    <3> QED BY <3>1, <3>2
  <2>5. P!Clean = {} =>
          /\ P!Unclean = "disconnected" => task["pod"] = "failed" \/ task["browser"] = "failed"
          /\ P!Unclean = "failed" => task["browser"] = "raised" /\ task["pod"] = "running"
    <3>1. \A s \in P!Side : task[s] \notin {"none", "cancelled"}
      BY <2>1 DEF ShellInv
    <3>2. P!Finished = {s \in P!Side : task[s] # "running"}
      BY <3>1 DEF P!Finished
    <3>3. P!Clean = {} => /\ \A s \in P!Finished : task[s] = "failed" \/ task[s] = "raised"
                          /\ "idle" \notin P!Finished
      BY DEF P!Clean, ShellInv
    <3> QED BY <2>2, <3>2, <3>3 DEF P!Unclean, ShellInv
  <2>6. P!OutcomeIsTrue'
    BY <2>1, <2>4, <2>5 DEF ShellInv, Reasons, P!OutcomeIsTrue
  <2> QED BY <2>1, <2>6 DEF ShellInv, P!Reason
<1>4. CASE P!FromBrowser
  BY <1>4 DEF P!FromBrowser, P!Reason, ShellInv, Reasons, P!OutcomeIsTrue
<1>5. CASE P!FromPod \/ P!Idles
  BY <1>5 DEF P!FromPod, P!Idles, P!Reason, ShellInv, Reasons, P!OutcomeIsTrue
<1>6. CASE P!BrowserGoes \/ P!StreamCloses \/ P!ShellEnds \/ P!Tick
  BY <1>6 DEF P!BrowserGoes, P!StreamCloses, P!ShellEnds, P!Tick, ShellInv, Reasons, P!OutcomeIsTrue
<1> QED BY <1>1, <1>2, <1>3, <1>4, <1>5, <1>6 DEF P!Next, P!Handler

-----------------------------------------------------------------------------
(* ContextStaging.                                                         *)

LEMMA StagingStarts == C!Init => StagingInv
BY SessionAssumption DEF C!Init, StagingInv, StagingTypes, Spared, Listed, C!ContextStagingAssumption

LEMMA StagingStep ==
  ASSUME StagingInv, [C!Next]_cVars
  PROVE  StagingInv'
<1> USE DEF StagingInv, StagingTypes
<1>1. CASE UNCHANGED cVars
  BY <1>1 DEF cVars, Spared, Listed
<1> SUFFICES ASSUME NEW b \in Builder,
                    \/ \E f \in File : C!Look(b, f)
                    \/ C!Write(b) \/ C!WriteFails(b) \/ C!Staged(b) \/ C!Build(b) \/ C!Cleanup(b) \/ C!Die(b)
             PROVE  StagingInv'
  BY <1>1 DEF C!Next
<1>2. CASE \E f \in File : C!Look(b, f)
  BY <1>2 DEF C!Look, C!Missing, C!Exists, Spared, Listed
<1>3. CASE C!Write(b)
  <2>1. /\ pcC[b] = "writing" /\ asset[b] \in File \ Given /\ UNCHANGED <<asset, faultsC>>
        /\ pcC' = [pcC EXCEPT ![b] = "staging"] \/ pcC' = [pcC EXCEPT ![b] = "cleanup"]
    BY <1>3 DEF C!Write, Spared
  <2>2. CASE dir
    <3>1. /\ content' = [content EXCEPT ![asset[b]] = "asset"]
          /\ created' = [created EXCEPT ![b] = @ \cup {asset[b]}]
          /\ pcC' = [pcC EXCEPT ![b] = "staging"]
      BY <1>3, <2>2 DEF C!Write
    <3>2. StagingTypes' /\ Spared'
      BY <2>1, <3>1 DEF Spared
    <3>3. Listed'
      <4> SUFFICES ASSUME faultsC = 0, NEW f \in File \ Given, content'[f] # "absent"
                   PROVE  \E d \in Builder : f \in created'[d] /\ pcC'[d] # "done"
        BY <2>1, <3>1 DEF Listed
      <4>1. CASE f = asset[b]
        BY <3>1, <4>1
      <4>2. CASE f # asset[b]
        <5>1. PICK d \in Builder : f \in created[d] /\ pcC[d] # "done"
          BY <3>1, <4>2 DEF Listed
        <5> QED BY <3>1, <5>1
      <4> QED BY <4>1, <4>2
    <3> QED BY <3>2, <3>3
  <2>3. CASE ~dir
    BY <1>3, <2>1, <2>3 DEF C!Write, Spared, Listed
  <2> QED BY <2>2, <2>3
<1>4. CASE C!WriteFails(b)
  BY <1>4 DEF C!WriteFails, Spared, Listed
<1>5. CASE C!Staged(b) \/ C!Build(b)
  BY <1>5 DEF C!Staged, C!Build, Spared, Listed
<1>6. CASE C!Cleanup(b)
  <2>1. /\ pcC' = [pcC EXCEPT ![b] = "done"] /\ UNCHANGED <<created, asset, faultsC>>
        /\ content' = [f \in File |-> IF f \in created[b] THEN "absent" ELSE content[f]]
    BY <1>6 DEF C!Cleanup, C!Keeps
  <2>2. StagingTypes' /\ Spared'
    BY <2>1, SessionAssumption DEF Spared, C!ContextStagingAssumption
  <2>3. Listed'
    <3> SUFFICES ASSUME faultsC = 0, NEW f \in File \ Given, content'[f] # "absent"
                 PROVE  \E d \in Builder : f \in created'[d] /\ pcC'[d] # "done"
      BY <2>1 DEF Listed
    <3>1. PICK d \in Builder : f \in created[d] /\ pcC[d] # "done"
      BY <2>1 DEF Listed
    <3> QED BY <2>1, <3>1
  <2> QED BY <2>2, <2>3
<1>7. CASE C!Die(b)
  BY <1>7 DEF C!Die, Spared, Listed
<1> QED BY <1>2, <1>3, <1>4, <1>5, <1>6, <1>7

-----------------------------------------------------------------------------
(* BashCommand.                                                            *)

LEMMA Groups ==
  /\ B!GroupUp = {} <=> Stopped
  /\ "leader" \in B!Up <=> proc["leader"] = "up"
BY DEF B!GroupUp, B!Group, B!Up, B!Process, Stopped

LEMMA BashStarts == B!Init => BashInv
<1> SUFFICES ASSUME B!Init PROVE BashInv
  OBVIOUS
<1>1. cutB \in BOOLEAN
  BY Zenon DEF B!Init
<1> QED BY <1>1 DEF B!Init, BashInv, BashTypes, B!Process, B!Pc, Ended, Stopped, B!FilesGone, B!At

LEMMA BashStep ==
  ASSUME BashInv, [B!Next]_bVars
  PROVE  BashInv'
<1> USE Groups DEF BashInv, BashTypes, Ended, Stopped, B!FilesGone, B!At, B!Go, B!Ends, B!Same, B!Fault,
                   B!NoFault, B!Process, B!Pc
<1>1. CASE UNCHANGED bVars
  BY <1>1 DEF bVars
<1>2. CASE B!Begin \/ B!ThreadEnds \/ B!OutputWritten
  BY <1>2 DEF B!Begin, B!ThreadEnds, B!OutputWritten
<1>3. CASE B!Spawn
  BY <1>3 DEF B!Spawn
<1>4. CASE B!Waited \/ B!TimesOut \/ B!ReaderEnds
  BY <1>4 DEF B!Waited, B!TimesOut, B!ReaderEnds
<1>5. CASE B!Terminate
  BY <1>5 DEF B!Terminate, B!Reaches
<1>6. CASE B!Grace
  BY <1>6 DEF B!Grace
<1>7. CASE B!Kill
  <2>1. \A p \in {"leader", "child"} : proc[p] = "up" => p \in B!GroupUp
    BY DEF B!GroupUp, B!Group, B!Up
  <2>2. B!Killed(B!GroupUp) => Stopped' /\ proc' \in [B!Process -> {"none", "up", "gone"}]
    BY <2>1 DEF B!Killed
  <2>3. B!Killed({"leader"} \cap B!Up) =>
          proc'["leader"] # "up" /\ proc' \in [B!Process -> {"none", "up", "gone"}]
    BY DEF B!Killed
  <2> QED BY <1>7, <2>2, <2>3 DEF B!Kill, B!KillGroup
<1>8. CASE B!Drain \/ B!Reap
  BY <1>8 DEF B!Drain, B!Drained, B!Reap
<1>9. CASE B!Join
  BY <1>9 DEF B!Join, B!Joined
<1>10. CASE B!Cancel
  <2>3. /\ cutB' \in BOOLEAN /\ (cutB' = FALSE => cutB = FALSE /\ pcB \notin B!Ending)
        /\ cancels' = cancels + 1 /\ faultsB' = faultsB /\ files' = files /\ thread' = thread
        /\ reason' = IF reason = "none" THEN "cancelled" ELSE reason
    <3>1. cutB' = (cutB \/ pcB \in B!Ending)
      BY <1>10 DEF B!Cancel
    <3>2. CASE cutB = TRUE
      BY <1>10, <3>1, <3>2 DEF B!Cancel
    <3>3. CASE cutB = FALSE
      BY <1>10, <3>1, <3>3 DEF B!Cancel
    <3> QED BY <3>2, <3>3
  <2>1. CASE B!CancelSpawn
    BY <2>3, <2>1 DEF B!CancelSpawn, B!Ending
  <2>2. CASE B!CancelWait
    BY <2>3, <2>2 DEF B!CancelWait, B!Ending
  <2> QED BY <1>10, <2>1, <2>2 DEF B!Cancel
<1>11. CASE B!Fork
  BY <1>11 DEF B!Fork
<1>12. ASSUME NEW p \in B!Process, B!Exit(p)
       PROVE  BashInv'
  BY <1>12 DEF B!Exit
<1> QED BY <1>1, <1>2, <1>3, <1>4, <1>5, <1>6, <1>7, <1>8, <1>9, <1>10, <1>11, <1>12 DEF B!Next, B!Call

-----------------------------------------------------------------------------
(* ClientSession.                                                          *)

LEMMA ClientStarts == S!Init => ClientInv
BY DEF S!Init, ClientInv, ClientTypes, Awaits, Shutting, Reported, S!Live, S!BeatOver, S!Busy, S!Thread,
   S!Task, S!Future, S!Owner

\* A task ends, with the answer it has if its future waits for one.
LEMMA TaskEnds ==
  ASSUME ClientInv, NEW c \in Caller, S!Live(c), loop = "running", NEW how \in S!Future \ {"pending", "none"},
         S!Ends(c, how), UNCHANGED <<owner, caller, loop, http, beat>>, cut' \subseteq cut,
         server' \in [Caller -> {"none", "starting", "alive", "finished", "ended"}],
         \A d \in Caller : d # c => server'[d] = server[d],
         cause' = cause \/ (cause[c] = "none" /\ cause' = [cause EXCEPT ![c] = "cancelled"]),
         c \in Scoped /\ how = "result" => server'[c] \in {"finished", "ended"},
         cause[c] = "raised" => how \in {"body error", "cancelled"}
  PROVE  ClientInv'
<1>1. /\ taskS' = [taskS EXCEPT ![c] = "over"]
      /\ fut' = [fut EXCEPT ![c] = IF fut[c] = "pending" THEN how ELSE fut[c]]
  BY DEF S!Ends, ClientInv, ClientTypes
<1>2. ClientTypes'
  BY <1>1 DEF ClientInv, ClientTypes, S!Task, S!Future
<1>3. \A d \in Caller : /\ d # c => taskS'[d] = taskS[d] /\ fut'[d] = fut[d] /\ cause'[d] = cause[d]
                        /\ taskS'[c] = "over" /\ fut'[c] # "pending"
  BY <1>1 DEF ClientInv, ClientTypes
<1>4. Awaits'
  BY <1>1, <1>3 DEF ClientInv, Awaits, S!Live
<1>5. Shutting'
  BY <1>3 DEF ClientInv, Shutting, S!Live, S!Busy, S!BeatOver
<1>6. fut[c] \in {"pending", "cancelled"} /\ fut'[c] \in {how, "cancelled"}
  BY <1>1 DEF ClientInv, ClientTypes, Awaits
<1>7. cause'[c] \in {"none", "ok", "raised", "cancelled"} /\ (cause'[c] = "raised" => cause[c] = "raised")
  BY <1>2 DEF ClientInv, ClientTypes
<1>8. Reported'
  <2> SUFFICES ASSUME NEW d \in Caller
               PROVE  /\ cause'[d] # "none" => taskS'[d] \in {"close", "over"}
                      /\ d \in Scoped /\ fut'[d] = "result" =>
                           server'[d] \in {"finished", "ended"} /\ taskS'[d] = "over"
                      /\ cause'[d] = "raised" => fut'[d] \in {"pending", "body error", "cancelled"}
                      /\ cause'[d] \in {"none", "ok", "raised", "cancelled"}
    BY DEF Reported
  <2>1. CASE d = c
    <3>1. d \in Scoped /\ fut'[d] = "result" => server'[d] \in {"finished", "ended"}
      BY <1>6, <2>1
    <3> QED BY <1>3, <1>6, <1>7, <2>1, <3>1
  <2>2. CASE d # c
    BY <1>3, <2>2 DEF ClientInv, Reported
  <2> QED BY <2>1, <2>2
<1> QED BY <1>2, <1>4, <1>5, <1>8 DEF ClientInv

\* A task goes on.
LEMMA TaskGoes ==
  ASSUME ClientInv, NEW c \in Caller, S!Live(c), loop = "running",
         NEW there \in {"post", "poll", "body", "close"}, taskS' = [taskS EXCEPT ![c] = there],
         UNCHANGED <<owner, caller, fut, loop, http, beat>>, cut' \subseteq cut,
         server' \in [Caller -> {"none", "starting", "alive", "finished", "ended"}],
         \A d \in Caller : d # c => server'[d] = server[d],
         \/ cause' = cause /\ (cause[c] # "none" => there = "close")
         \/ there = "close" /\ \E how \in {"ok", "raised", "cancelled"} : cause' = [cause EXCEPT ![c] = how]
  PROVE  ClientInv'
<1>1. ClientTypes'
  <2>1. cause' \in [Caller -> {"none", "ok", "raised", "cancelled"}]
    <3>1. CASE cause' = cause
      BY <3>1 DEF ClientInv, ClientTypes
    <3>2. CASE \E how \in {"ok", "raised", "cancelled"} : cause' = [cause EXCEPT ![c] = how]
      BY <3>2 DEF ClientInv, ClientTypes
    <3> QED BY <3>1, <3>2
  <2>2. taskS' \in [Caller -> S!Task]
    BY DEF ClientInv, ClientTypes, S!Task
  <2>3. cut' \subseteq Caller
    BY DEF ClientInv, ClientTypes
  <2> QED BY <2>1, <2>2, <2>3 DEF ClientInv, ClientTypes
<1>2. \A d \in Caller : /\ d # c => taskS'[d] = taskS[d] /\ cause'[d] = cause[d]
                        /\ taskS'[c] = there
  BY DEF ClientInv, ClientTypes
<1>3. Awaits'
  BY <1>2 DEF ClientInv, Awaits, S!Live
<1>4. Shutting'
  BY <1>2 DEF ClientInv, Shutting, S!Live, S!Busy, S!BeatOver
<1>5. fut[c] \in {"pending", "cancelled"}
  BY DEF ClientInv, Awaits
<1>6. Reported'
  <2>1. ASSUME NEW d \in Caller, d # c
        PROVE  taskS'[d] = taskS[d] /\ cause'[d] = cause[d] /\ fut'[d] = fut[d] /\ server'[d] = server[d]
    BY <1>2, <2>1
  <2>2. /\ taskS'[c] = there /\ fut'[c] = fut[c]
        /\ cause'[c] # "none" => there = "close"
        /\ cause'[c] \in {"none", "ok", "raised", "cancelled"}
    BY <1>1, <1>2 DEF ClientInv, ClientTypes
  <2>3. cause'[c] # "none" => taskS'[c] \in {"close", "over"}
    BY <2>2
  <2>4. fut'[c] # "result" /\ fut'[c] \in {"pending", "body error", "cancelled"}
    BY <1>5, <2>2
  <2> SUFFICES ASSUME NEW d \in Caller
               PROVE  /\ cause'[d] # "none" => taskS'[d] \in {"close", "over"}
                      /\ d \in Scoped /\ fut'[d] = "result" =>
                           server'[d] \in {"finished", "ended"} /\ taskS'[d] = "over"
                      /\ cause'[d] = "raised" => fut'[d] \in {"pending", "body error", "cancelled"}
                      /\ cause'[d] \in {"none", "ok", "raised", "cancelled"}
    BY DEF Reported
  <2>5. CASE d = c
    BY <2>2, <2>3, <2>4, <2>5
  <2>6. CASE d # c
    <3>1. taskS'[d] = taskS[d] /\ cause'[d] = cause[d] /\ fut'[d] = fut[d] /\ server'[d] = server[d]
      BY <2>1, <2>6
    <3> QED BY <3>1 DEF ClientInv, Reported
  <2> QED BY <2>5, <2>6
<1> QED BY <1>1, <1>3, <1>4, <1>6 DEF ClientInv

LEMMA CallKeeps ==
  ASSUME ClientInv, NEW c \in Caller, S!CallStep(c) \/ S!Body(c)
  PROVE  ClientInv'
<1> DEFINE Servers == [Caller -> {"none", "starting", "alive", "finished", "ended"}]
<1>1. server \in Servers /\ taskS \in [Caller -> S!Task] /\ cause \in [Caller -> {"none", "ok", "raised", "cancelled"}]
  BY DEF ClientInv, ClientTypes
<1>2. \A x \in {"none", "starting", "alive", "finished", "ended"} :
        [server EXCEPT ![c] = x] \in Servers /\ \A d \in Caller : d # c => [server EXCEPT ![c] = x][d] = server[d]
  BY <1>1
<1>3. {"result", "body error", "request error", "close error", "cancelled"} \subseteq S!Future \ {"pending", "none"}
  BY DEF S!Future
<1>4. \A here \in {"queued", "post", "poll", "body", "close"} :
        S!Runs(c, here) => loop = "running" /\ S!Live(c) /\ taskS[c] = here
  BY DEF S!Runs, S!Live
<1>5. taskS[c] \notin {"close", "over"} => cause[c] = "none"
  BY DEF ClientInv, Reported
<1>6. CASE S!Begin(c)
  BY <1>1, <1>4, <1>5, <1>6, TaskGoes DEF S!Begin, S!Go
<1>7. CASE S!Post(c)
  <2>1. /\ S!Live(c) /\ loop = "running" /\ taskS[c] = "post"
        /\ UNCHANGED <<owner, caller, cut, cause, loop, http, beat>>
        /\ server' = server \/ server' = [server EXCEPT ![c] = "starting"]
        /\ \/ taskS' = [taskS EXCEPT ![c] = "poll"] /\ fut' = fut
           \/ S!Ends(c, "request error")
    BY <1>4, <1>7 DEF S!Post, S!Go
  <2>2. server' \in Servers /\ \A d \in Caller : d # c => server'[d] = server[d]
    BY <1>1, <1>2, <2>1
  <2> QED BY <1>3, <1>5, <2>1, <2>2, TaskGoes, TaskEnds
<1>8. CASE S!Poll(c)
  <2>1. /\ S!Live(c) /\ loop = "running" /\ taskS[c] = "poll"
        /\ UNCHANGED <<owner, caller, cut, cause, loop, http, beat, server>>
        /\ \/ taskS' = [taskS EXCEPT ![c] = "body"] /\ fut' = fut
           \/ S!Ends(c, "request error")
           \/ c \notin Scoped /\ S!Ends(c, "result")
    BY <1>4, <1>8 DEF S!Poll, S!Go
  <2> QED BY <1>1, <1>3, <1>5, <2>1, TaskGoes, TaskEnds
<1>9. CASE S!Body(c)
  <2>1. /\ S!Live(c) /\ loop = "running" /\ taskS[c] = "body"
        /\ UNCHANGED <<owner, caller, cut, fut, loop, http, beat, server>>
        /\ taskS' = [taskS EXCEPT ![c] = "close"]
        /\ \E how \in {"ok", "raised"} : cause' = [cause EXCEPT ![c] = how]
    BY <1>4, <1>9 DEF S!Body, S!Go
  <2> QED BY <1>1, <2>1, TaskGoes
<1>10. CASE S!Close(c)
  <2>1. /\ S!Live(c) /\ loop = "running" /\ taskS[c] = "close"
        /\ UNCHANGED <<owner, caller, cut, cause, loop, http, beat>>
        /\ \/ server' = server \/ server' = [server EXCEPT ![c] = "finished"]
           \/ server' = [server EXCEPT ![c] = IF server[c] = "alive" THEN "finished" ELSE server[c]]
        /\ \/ S!Ends(c, S!Outcome(c, TRUE)) /\ server'[c] = "finished"
           \/ S!Ends(c, S!Outcome(c, FALSE))
           \/ UNCHANGED <<taskS, fut>>
    BY <1>1, <1>4, <1>10 DEF S!Close, S!FailedAttempt
  <2>2. server' \in Servers /\ \A d \in Caller : d # c => server'[d] = server[d]
    BY <1>1, <1>2, <2>1
  <2>3. /\ S!Outcome(c, TRUE) \in {"result", "body error", "cancelled"}
        /\ S!Outcome(c, FALSE) \in {"close error", "body error", "cancelled"}
        /\ cause[c] = "raised" => S!Outcome(c, TRUE) = "body error" /\ S!Outcome(c, FALSE) = "body error"
    BY DEF S!Outcome
  <2>4. CASE S!Ends(c, S!Outcome(c, TRUE)) /\ server'[c] = "finished"
    BY <1>3, <2>1, <2>2, <2>3, <2>4, TaskEnds
  <2>5. CASE S!Ends(c, S!Outcome(c, FALSE))
    BY <1>3, <2>1, <2>2, <2>3, <2>5, TaskEnds
  <2>6. CASE UNCHANGED <<taskS, fut>>
    <3>1. taskS' = [taskS EXCEPT ![c] = "close"] /\ fut' = fut
      BY <1>1, <2>1, <2>6
    <3> QED BY <2>1, <2>2, <3>1, TaskGoes
  <2> QED BY <2>1, <2>4, <2>5, <2>6
<1>11. CASE S!Cancelled(c)
  <2>1. /\ S!Live(c) /\ loop = "running" /\ cut' \subseteq cut
        /\ UNCHANGED <<owner, caller, loop, http, beat, server>>
        /\ \/ /\ taskS' = [taskS EXCEPT ![c] = "close"] /\ fut' = fut
              /\ cause' = [cause EXCEPT ![c] = "cancelled"]
           \/ S!Ends(c, "cancelled") /\ cause' = cause
    BY <1>11 DEF S!Cancelled, S!Go
  <2> QED BY <1>1, <1>3, <2>1, TaskGoes, TaskEnds
<1> QED BY <1>6, <1>7, <1>8, <1>9, <1>10, <1>11 DEF S!CallStep

\* The threads, and the orchestrator.
LEMMA ThreadKeeps ==
  ASSUME ClientInv, NEW c \in Caller,
         S!CheckStarted(c) \/ S!ThreadStep(c) \/ S!TimesOut(c) \/ S!StartEnds(c)
  PROVE  ClientInv'
<1> USE DEF ClientInv, ClientTypes, S!Thread, S!Task, S!Future
<1>1. CASE S!CheckStarted(c)
  BY <1>1 DEF S!CheckStarted, S!calls, Awaits, Shutting, Reported, S!Live, S!BeatOver, S!Busy
<1>2. CASE S!Submit(c)
  <2>1. CASE S!Accepts(c)
    <3>1. /\ caller[c] = "checked" /\ owner \notin {"drain", "cancel", "hooks", "gone"}
          /\ caller' = [caller EXCEPT ![c] = "blocked"] /\ taskS' = [taskS EXCEPT ![c] = "queued"]
          /\ fut' = [fut EXCEPT ![c] = "pending"]
          /\ UNCHANGED <<owner, cut, cause, loop, http, beat, server>>
      BY <1>2, <2>1 DEF S!Submit, S!Accepts, S!Closing
    <3>2. taskS[c] = "none" /\ cause[c] = "none"
      BY <3>1 DEF Awaits, Reported
    <3>3. /\ caller'[c] = "blocked" /\ taskS'[c] = "queued" /\ fut'[c] = "pending"
          /\ \A d \in Caller : d # c => /\ caller'[d] = caller[d] /\ taskS'[d] = taskS[d]
                                       /\ fut'[d] = fut[d]
      BY <3>1
    <3>4. ClientTypes'
      BY <3>1
    <3>5. Awaits'
      BY <3>3 DEF Awaits, S!Live
    <3>6. Shutting'
      BY <3>1 DEF Shutting, S!Busy, S!BeatOver
    <3>7. Reported'
      BY <3>1, <3>2, <3>3 DEF Reported
    <3> QED BY <3>4, <3>5, <3>6, <3>7
  <2>2. CASE ~S!Accepts(c)
    <3>1. /\ caller[c] = "checked" /\ caller' = [caller EXCEPT ![c] = "refused"]
          /\ UNCHANGED <<owner, taskS, fut, cut, cause, loop, http, beat, server>>
      BY <1>2, <2>2 DEF S!Submit
    <3>2. \A d \in Caller : caller'[d] \in {"idle", "checked"} => caller'[d] = caller[d]
      BY <3>1
    <3>3. Awaits'
      BY <3>1, <3>2 DEF Awaits, S!Live
    <3>6. S!Busy' = S!Busy /\ S!BeatOver' = S!BeatOver
      BY <3>1 DEF S!Busy, S!Live, S!BeatOver
    <3>4. Shutting'
      BY <3>1, <3>6 DEF Shutting
    <3>5. Reported'
      BY <3>1 DEF Reported
    <3> QED BY <3>1, <3>3, <3>4, <3>5
  <2> QED BY <2>1, <2>2
<1>3. CASE S!Answered(c)
  BY <1>3 DEF S!Answered, S!calls, Awaits, Shutting, Reported, S!Live, S!BeatOver, S!Busy
<1>4. CASE S!TimesOut(c)
  BY <1>4 DEF S!TimesOut, Awaits, Shutting, Reported, S!Live, S!BeatOver, S!Busy
<1>5. CASE S!StartEnds(c)
  <2>1. /\ server[c] = "starting" /\ UNCHANGED <<owner, caller, taskS, cut, cause, fut, loop, http, beat>>
        /\ \E how \in {"alive", "ended"} : server' = [server EXCEPT ![c] = how]
    BY <1>5 DEF S!StartEnds, S!calls
  <2>2. /\ server' \in [Caller -> {"none", "starting", "alive", "finished", "ended"}]
        /\ \A d \in Caller : d # c => server'[d] = server[d]
    <3>1. PICK how \in {"alive", "ended"} : server' = [server EXCEPT ![c] = how]
      BY <2>1
    <3> QED BY <3>1
  <2>3. ~(c \in Scoped /\ fut[c] = "result")
    BY <2>1 DEF Reported
  <2>4. ClientTypes'
    BY <2>1, <2>2
  <2>5. Awaits' /\ Shutting'
    BY <2>1 DEF Awaits, Shutting, S!Live, S!BeatOver, S!Busy
  <2>6. Reported'
    BY <2>1, <2>2, <2>3 DEF Reported
  <2> QED BY <2>4, <2>5, <2>6
<1> QED BY <1>1, <1>2, <1>3, <1>4, <1>5 DEF S!ThreadStep

\* The owner.
LEMMA OwnerKeeps ==
  ASSUME ClientInv, S!Enter \/ S!Leave \/ S!Deregister \/ S!Exit \/ S!BeatEnds
  PROVE  ClientInv'
<1> USE DEF ClientInv, ClientTypes, Awaits, Shutting, Reported, S!Live, S!BeatOver, S!Busy, S!Owner, S!ReleaseHttp
<1>1. CASE S!Enter
  BY <1>1 DEF S!Enter, S!calls
<1>2. CASE S!Leave \/ S!BeatEnds
  BY <1>2 DEF S!Leave, S!BeatEnds, S!calls
<1>3. CASE S!Deregister
  BY <1>3 DEF S!Deregister, S!calls
<1>4. CASE S!Release \/ S!BeginDrain
  BY <1>4 DEF S!Release, S!BeginDrain, S!calls
<1>5. CASE S!Drained
  BY <1>5 DEF S!Drained, S!Quiet, S!ToCancel
<1>6. CASE S!Waited
  BY <1>6 DEF S!Waited, S!ToCancel, S!Outlasts, S!calls
<1>7. CASE S!Stop
  BY <1>7 DEF S!Stop, S!calls
<1> QED BY <1>1, <1>2, <1>3, <1>4, <1>5, <1>6, <1>7 DEF S!Exit

LEMMA ClientStep ==
  ASSUME ClientInv, [S!Next]_sVars
  PROVE  ClientInv'
<1>1. CASE UNCHANGED sVars
  BY <1>1 DEF sVars, ClientInv, ClientTypes, Awaits, Shutting, Reported, S!Live, S!BeatOver, S!Busy
<1> QED BY <1>1, CallKeeps, ThreadKeeps, OwnerKeeps DEF S!Next

-----------------------------------------------------------------------------
(* A command's result.                                                     *)

\* BashCommand: once the output is complete nobody writes any more of it.
ResultInv ==
  /\ reader = "complete" => B!Complete
  /\ reason = "ok" => reader = "complete"

LEMMA ResultStarts == B!Init => ResultInv
BY DEF B!Init, ResultInv

\* Output that is complete stays so, while no process begins.
LEMMA StaysComplete ==
  ASSUME B!Complete, holds' = holds, \A p \in B!Process : proc'[p] = "up" => proc[p] = "up"
  PROVE  B!Complete'
BY DEF B!Complete, B!Up

LEMMA ResultStep ==
  ASSUME BashInv, ResultInv, [B!Next]_bVars
  PROVE  ResultInv'
<1> USE DEF B!At, B!Go, B!Ends, B!Fault, B!NoFault
<1>1. CASE UNCHANGED bVars
  BY <1>1 DEF bVars, ResultInv, B!Complete, B!Up
<1>2. CASE UNCHANGED <<proc, holds, reader>> /\ (reason' = "ok" => reason = "ok" \/ reader = "complete")
  BY <1>2, StaysComplete DEF ResultInv
<1>3. CASE B!Begin \/ B!ThreadEnds \/ B!OutputWritten \/ B!TimesOut \/ B!Terminate \/ B!Grace \/ B!Reap \/ B!Join
  BY <1>2, <1>3 DEF B!Begin, B!ThreadEnds, B!OutputWritten, B!TimesOut, B!Terminate, B!Grace, B!Reap, B!Join
<1>4. CASE B!Waited
  BY <1>2, <1>4 DEF B!Waited
<1>5. CASE B!Spawn
  BY <1>2, <1>5 DEF B!Spawn, BashInv, ResultInv
<1>6. CASE B!ReaderEnds
  <2>1. reader = "reading" /\ reason' = reason /\ UNCHANGED <<proc, holds>>
    BY <1>6 DEF B!ReaderEnds
  <2>2. reader' = "complete" => B!Complete
    BY <1>6 DEF B!ReaderEnds
  <2> QED BY <2>1, <2>2, StaysComplete DEF ResultInv
<1>7. CASE B!Kill
  <2>1. holds' = holds /\ reader' = reader /\ reason' = reason
    BY <1>7 DEF B!Kill
  <2>2. proc' = proc \/ \E victims : B!Killed(victims)
    BY <1>7 DEF B!Kill, B!KillGroup
  <2>3. \A p \in B!Process : proc'[p] = "up" => proc[p] = "up"
    BY <2>2 DEF B!Killed
  <2> QED BY <2>1, <2>3, StaysComplete DEF ResultInv
<1>8. CASE B!Drain
  <2>1. /\ UNCHANGED <<proc, holds, reason>>
        /\ reader' = reader \/ (reader = "reading" /\ reader' = "cancelled")
    BY <1>8 DEF B!Drain, B!Drained
  <2> QED BY <2>1, StaysComplete DEF ResultInv
<1>9. CASE B!Cancel
  <2>1. reason' = (IF reason = "none" THEN "cancelled" ELSE reason) /\ holds' = holds
    BY <1>9 DEF B!Cancel
  <2>2. CASE B!CancelSpawn
    BY <2>1, <2>2 DEF B!CancelSpawn, BashInv, ResultInv
  <2>3. CASE B!CancelWait
    BY <1>2, <2>1, <2>3 DEF B!CancelWait
  <2> QED BY <1>9, <2>2, <2>3 DEF B!Cancel
<1>10. CASE B!Fork
  <2>1. ~B!Complete /\ reader' = reader /\ reason' = reason
    BY <1>10 DEF B!Fork, B!Complete
  <2> QED BY <2>1 DEF ResultInv
<1>11. ASSUME NEW p \in B!Process, B!Exit(p)
       PROVE  ResultInv'
  <2>1. \A q \in B!Process : proc'[q] = "up" => proc[q] = "up"
    BY <1>11 DEF B!Exit, BashInv, BashTypes
  <2>2. holds' = holds /\ reader' = reader /\ reason' = reason
    BY <1>11 DEF B!Exit
  <2> QED BY <2>1, <2>2, StaysComplete DEF ResultInv
<1> QED BY <1>1, <1>3, <1>4, <1>5, <1>6, <1>7, <1>8, <1>9, <1>10, <1>11 DEF B!Next, B!Call

LEMMA ResultIsComplete == ResultInv => B!ResultComplete
BY DEF ResultInv, B!Complete, B!ResultComplete

-----------------------------------------------------------------------------
(* OutputCollector.                                                        *)

\* Sums is a sequence of the sequences that chunks make up, one after the other.
Adds(chunks, f) ==
  \A i \in 1 .. Len(chunks) : f[i] = IF i = 1 THEN chunks[1] ELSE f[i - 1] \o chunks[i]

LEMMA AddsAppend ==
  ASSUME NEW chunks \in Seq(Seq(Int)), NEW c \in Seq(Int), NEW f \in Seq(Seq(Int)), Len(f) = Len(chunks),
         Adds(chunks, f),
         NEW g, g = Append(f, IF chunks = <<>> THEN c ELSE f[Len(chunks)] \o c)
  PROVE  g \in Seq(Seq(Int)) /\ Len(g) = Len(chunks) + 1 /\ Adds(Append(chunks, c), g)
<1>1. chunks # <<>> => f[Len(chunks)] \in Seq(Int)
  OBVIOUS
<1>2. chunks # <<>> => f[Len(chunks)] \o c \in Seq(Int)
  BY <1>1, ConcatProperties
<1>3. PICK d \in Seq(Int) : g = Append(f, d) /\ d = IF chunks = <<>> THEN c ELSE f[Len(chunks)] \o c
  BY <1>2
<1>4. g \in Seq(Seq(Int)) /\ Len(g) = Len(chunks) + 1
  BY <1>3, AppendProperties
<1>5. /\ \A i \in 1 .. Len(chunks) : g[i] = f[i] /\ Append(chunks, c)[i] = chunks[i]
      /\ g[Len(chunks) + 1] = d /\ Append(chunks, c)[Len(chunks) + 1] = c
      /\ Len(Append(chunks, c)) = Len(chunks) + 1
  BY <1>3
<1>6. ASSUME NEW i \in 1 .. Len(chunks) + 1
      PROVE  g[i] = IF i = 1 THEN Append(chunks, c)[1] ELSE g[i - 1] \o Append(chunks, c)[i]
  <2>0. Len(chunks) \in Nat /\ (chunks = <<>> <=> Len(chunks) = 0)
    OBVIOUS
  <2>1. CASE i = Len(chunks) + 1
    BY <1>3, <1>5, <2>0, <2>1
  <2>2. CASE i # Len(chunks) + 1
    BY <1>5, <2>0, <2>2 DEF Adds
  <2> QED BY <2>1, <2>2
<1> QED BY <1>4, <1>5, <1>6 DEF Adds

LEMMA AddsExists ==
  ASSUME NEW chunks \in Seq(Seq(Int))
  PROVE  \E f \in Seq(Seq(Int)) : Len(f) = Len(chunks) /\ Adds(chunks, f)
<1> DEFINE Good(s) == \E f \in Seq(Seq(Int)) : Len(f) = Len(s) /\ Adds(s, f)
           N == {n \in Nat : \E s \in Seq(Seq(Int)) : Len(s) = n /\ ~Good(s)}
<1> SUFFICES ASSUME N # {} PROVE FALSE
  OBVIOUS
<1>1. PICK n \in N : \A k \in N : n <= k
  BY LeastNumber
<1>2. PICK s \in Seq(Seq(Int)) : Len(s) = n /\ ~Good(s)
  OBVIOUS
<1>3. s # <<>>
  <2>1. Len(<<>>) = 0 /\ <<>> \in Seq(Seq(Int)) /\ Adds(<<>>, <<>>)
    BY DEF Adds
  <2> QED BY <1>2, <2>1
<1>4. PICK t \in Seq(Seq(Int)), c \in Seq(Int) : s = Append(t, c)
  BY <1>3, SequenceEmptyOrAppend
<1>5. Len(t) \in Nat /\ Len(s) = Len(t) + 1
  BY <1>4, AppendProperties
<1>6. Good(t)
  <2>1. ~Good(t) => Len(t) \in N
    BY <1>5
  <2>2. n \in Nat
    OBVIOUS
  <2> HIDE DEF N, Good
  <2> QED BY <1>1, <1>2, <1>5, <2>1, <2>2
<1>7. PICK f \in Seq(Seq(Int)) : Len(f) = Len(t) /\ Adds(t, f)
  BY <1>6
<1>8. Good(s)
  BY <1>4, <1>5, <1>7, AddsAppend
<1> QED BY <1>2, <1>8

LEMMA BytesAreAdded ==
  ASSUME NEW chunks \in Seq(Seq(Int)), chunks # <<>>, NEW f \in Seq(Seq(Int)), Len(f) = Len(chunks), Adds(chunks, f)
  PROVE  O!Bytes(chunks) = f[Len(chunks)]
<1> DEFINE Is(g) == g = [i \in 1 .. Len(chunks) |-> IF i = 1 THEN chunks[i] ELSE g[i - 1] \o chunks[i]]
           h == CHOOSE g : Is(g)
<1>1. O!Bytes(chunks) = h[Len(chunks)]
  BY DEF O!Bytes, O!FlattenSeq
<1>2. Is(f)
  <2>1. f \in [1 .. Len(chunks) -> Seq(Int)]
    BY LenProperties
  <2> QED BY <2>1 DEF Adds
<1>3. Is(h)
  <2> HIDE DEF Is
  <2> QED BY <1>2
<1> HIDE DEF h
<1>4. \A i \in 1 .. Len(chunks) : h[i] = IF i = 1 THEN chunks[1] ELSE h[i - 1] \o chunks[i]
  BY <1>3
<1> DEFINE N == {n \in 1 .. Len(chunks) : h[n] # f[n]}
<1>5. N = {}
  <2> SUFFICES ASSUME N # {} PROVE FALSE
    OBVIOUS
  <2>1. N \subseteq Nat
    OBVIOUS
  <2>2. PICK n \in N : \A k \in N : n <= k
    BY <2>1, LeastNumber
  <2>3. n \in 1 .. Len(chunks) /\ h[n] # f[n] /\ n \in Nat
    OBVIOUS
  <2>4. n # 1
    BY <1>4, <2>3 DEF Adds
  <2>5. n - 1 \in 1 .. Len(chunks) /\ h[n - 1] = f[n - 1]
    BY <2>2, <2>3, <2>4
  <2> QED BY <1>4, <2>3, <2>4, <2>5 DEF Adds
<1>6. Len(chunks) \in 1 .. Len(chunks)
  OBVIOUS
<1> QED BY <1>1, <1>5, <1>6

LEMMA BytesEmpty == O!Bytes(<<>>) = <<>>
BY DEF O!Bytes, O!FlattenSeq

LEMMA BytesAppend ==
  ASSUME NEW chunks \in Seq(Seq(Int)), NEW c \in Seq(Int)
  PROVE  /\ O!Bytes(chunks) \in Seq(Int)
         /\ O!Bytes(Append(chunks, c)) = O!Bytes(chunks) \o c
<1>1. O!Bytes(<<>>) = <<>>
  BY BytesEmpty
<1>2. PICK f \in Seq(Seq(Int)) : Len(f) = Len(chunks) /\ Adds(chunks, f)
  BY AddsExists
<1>3. CASE chunks = <<>>
  <2>0. Append(f, c) = Append(f, IF chunks = <<>> THEN c ELSE f[Len(chunks)] \o c) /\ Len(chunks) = 0
    BY <1>3
  <2>1. Append(f, c) \in Seq(Seq(Int)) /\ Len(Append(f, c)) = 1 /\ Adds(Append(chunks, c), Append(f, c))
    <3>1. PICK g : g = Append(f, IF chunks = <<>> THEN c ELSE f[Len(chunks)] \o c)
      OBVIOUS
    <3>2. g \in Seq(Seq(Int)) /\ Len(g) = Len(chunks) + 1 /\ Adds(Append(chunks, c), g)
      BY <1>2, <3>1, AddsAppend
    <3> QED BY <2>0, <3>1, <3>2
  <2>2. Append(chunks, c) \in Seq(Seq(Int)) /\ Len(Append(chunks, c)) = 1 /\ Append(chunks, c) # <<>>
    BY <1>3
  <2>3. O!Bytes(Append(chunks, c)) = Append(f, c)[1]
    BY <2>1, <2>2, BytesAreAdded
  <2>4. Append(f, c)[1] = c /\ <<>> \o c = c
    BY <1>2, <1>3
  <2>5. O!Bytes(chunks) = <<>> /\ O!Bytes(Append(chunks, c)) = c
    BY <1>1, <1>3, <2>3, <2>4
  <2> QED BY <1>1, <2>4, <2>5
<1>4. CASE chunks # <<>>
  <2>1. Len(chunks) \in 1 .. Len(chunks) /\ f[Len(chunks)] \in Seq(Int)
    BY <1>2, <1>4
  <2>2. O!Bytes(chunks) = f[Len(chunks)]
    BY <1>2, <1>4, BytesAreAdded
  <2>3. PICK g : g = Append(f, f[Len(chunks)] \o c)
    OBVIOUS
  <2>4. g \in Seq(Seq(Int)) /\ Len(g) = Len(chunks) + 1 /\ Adds(Append(chunks, c), g)
    BY <1>2, <1>4, <2>3, AddsAppend
  <2>5. Append(chunks, c) \in Seq(Seq(Int)) /\ Len(Append(chunks, c)) = Len(chunks) + 1 /\ Append(chunks, c) # <<>>
    BY AppendProperties
  <2>6. O!Bytes(Append(chunks, c)) = g[Len(chunks) + 1]
    BY <2>4, <2>5, BytesAreAdded
  <2>7. g[Len(chunks) + 1] = f[Len(chunks)] \o c
    BY <1>2, <2>3, <2>1
  <2> QED BY <1>1, <2>1, <2>2, <2>6, <2>7
<1> QED BY <1>3, <1>4

LEMMA Associative == \A a, b, c \in Seq(Int) : (a \o b) \o c = a \o (b \o c)
<1> TAKE a, b, c \in Seq(Int)
<1>1. /\ (a \o b) \o c \in Seq(Int) /\ a \o (b \o c) \in Seq(Int)
      /\ Len(a) \in Nat /\ Len(b) \in Nat /\ Len(c) \in Nat
      /\ Len((a \o b) \o c) = Len(a) + Len(b) + Len(c) /\ Len(a \o (b \o c)) = Len(a) + Len(b) + Len(c)
  OBVIOUS
<1>2. ASSUME NEW i \in 1 .. Len(a) + Len(b) + Len(c)
      PROVE  ((a \o b) \o c)[i] = (a \o (b \o c))[i]
  <2>1. CASE i <= Len(a)
    BY <1>1, <2>1
  <2>2. CASE i > Len(a) /\ i <= Len(a) + Len(b)
    BY <1>1, <2>2
  <2>3. CASE i > Len(a) + Len(b)
    BY <1>1, <2>3
  <2> QED BY <1>1, <2>1, <2>2, <2>3
<1> QED BY <1>1, <1>2, SeqEqual

LEMMA BytesConcat ==
  ASSUME NEW front \in Seq(Seq(Int)), NEW back \in Seq(Seq(Int))
  PROVE  O!Bytes(front \o back) = O!Bytes(front) \o O!Bytes(back)
<1> DEFINE Good(s) == O!Bytes(front \o s) = O!Bytes(front) \o O!Bytes(s)
           N == {n \in Nat : \E s \in Seq(Seq(Int)) : Len(s) = n /\ ~Good(s)}
<1>0. \A s \in Seq(Seq(Int)) : ~Good(s) => Len(s) \in N
  OBVIOUS
<1> SUFFICES ASSUME N # {} PROVE FALSE
  BY <1>0
<1>1. PICK n \in N : \A k \in N : n <= k
  BY LeastNumber
<1>2. PICK s \in Seq(Seq(Int)) : Len(s) = n /\ ~Good(s)
  OBVIOUS
<1>3. s # <<>>
  <2>1. front \o <<>> = front /\ O!Bytes(front) \o <<>> = O!Bytes(front)
    BY BytesAppend, ConcatEmptySeq
  <2>2. O!Bytes(<<>>) = <<>>
    BY BytesEmpty
  <2>3. Good(<<>>)
    BY <2>1, <2>2
  <2> HIDE DEF Good
  <2> QED BY <1>2, <2>3
<1>4. PICK t \in Seq(Seq(Int)), c \in Seq(Int) : s = Append(t, c)
  BY <1>3, SequenceEmptyOrAppend
<1>5. Len(t) \in Nat /\ Len(s) = Len(t) + 1
  BY <1>4, AppendProperties
<1>6. Good(t)
  <2>2. n \in Nat
    OBVIOUS
  <2> HIDE DEF N, Good
  <2> QED BY <1>0, <1>1, <1>2, <1>5, <2>2
<1>7. Good(s)
  <2>1. front \o s = Append(front \o t, c)
    <3>1. /\ front \o Append(t, c) \in Seq(Seq(Int)) /\ Append(front \o t, c) \in Seq(Seq(Int))
          /\ Len(front \o Append(t, c)) = Len(Append(front \o t, c))
      OBVIOUS
    <3>2. \A i \in 1 .. Len(front \o Append(t, c)) : (front \o Append(t, c))[i] = Append(front \o t, c)[i]
      <4> TAKE i \in 1 .. Len(front \o Append(t, c))
      <4>1. Len(front) \in Nat /\ Len(t) \in Nat /\ Len(front \o Append(t, c)) = Len(front) + Len(t) + 1
        OBVIOUS
      <4>2. CASE i <= Len(front)
        BY <4>1, <4>2
      <4>3. CASE i > Len(front) /\ i <= Len(front) + Len(t)
        <5>1. i - Len(front) \in 1 .. Len(t) /\ i \in 1 .. Len(front) + Len(t) /\ ~(i <= Len(front))
          <6>1. i \in Nat
            BY <4>1
          <6> QED BY <4>1, <4>3, <6>1
        <5>2. (front \o t)[i] = t[i - Len(front)]
          BY <5>1, ConcatProperties
        <5>3. front \o t \in Seq(Seq(Int)) /\ Len(front \o t) = Len(front) + Len(t)
          BY ConcatProperties
        <5>4. Append(front \o t, c)[i] = (front \o t)[i]
          BY <5>1, <5>3, AppendProperties
        <5>5. Append(t, c) \in Seq(Seq(Int)) /\ Len(Append(t, c)) = Len(t) + 1
              /\ Append(t, c)[i - Len(front)] = t[i - Len(front)]
          BY <5>1, AppendProperties
        <5>6. i \in 1 .. Len(front) + Len(Append(t, c))
          BY <4>1, <5>1, <5>5
        <5>7. (front \o Append(t, c))[i] = Append(t, c)[i - Len(front)]
          BY <5>1, <5>5, <5>6, ConcatProperties
        <5> QED BY <5>2, <5>4, <5>5, <5>7
      <4>4. CASE i = Len(front) + Len(t) + 1
        <5>1. i \in 1 .. Len(front) + Len(Append(t, c)) /\ ~(i <= Len(front)) /\ i - Len(front) = Len(t) + 1
          <6>1. Len(Append(t, c)) = Len(t) + 1
            BY AppendProperties
          <6>2. i \in Nat /\ Len(front) \in Nat /\ Len(t) \in Nat
            BY <4>1, <4>4
          <6> QED BY <4>4, <6>1, <6>2
        <5>2. (front \o Append(t, c))[i] = Append(t, c)[Len(t) + 1]
          <6>1. Append(t, c) \in Seq(Seq(Int))
            OBVIOUS
          <6>2. (front \o Append(t, c))[i] = Append(t, c)[i - Len(front)]
            BY <5>1, <6>1, ConcatProperties
          <6> QED BY <5>1, <6>2
        <5>3. Append(t, c)[Len(t) + 1] = c
          BY AppendProperties
        <5>4. front \o t \in Seq(Seq(Int)) /\ Len(front \o t) = Len(front) + Len(t)
          BY ConcatProperties
        <5>5. Append(front \o t, c)[Len(front \o t) + 1] = c
          BY <5>4, AppendProperties
        <5> QED BY <4>4, <5>2, <5>3, <5>4, <5>5
      <4> QED BY <4>1, <4>2, <4>3, <4>4
    <3> QED BY <1>4, <3>1, <3>2, SeqEqual
  <2>2. front \o t \in Seq(Seq(Int))
    BY ConcatProperties
  <2>3. O!Bytes(front \o s) = O!Bytes(front \o t) \o c
    BY <2>1, <2>2, BytesAppend
  <2>4. O!Bytes(s) = O!Bytes(t) \o c
    BY <1>4, BytesAppend
  <2>5. O!Bytes(t) \in Seq(Int) /\ O!Bytes(front) \in Seq(Int)
    BY BytesAppend
  <2>6. (O!Bytes(front) \o O!Bytes(t)) \o c = O!Bytes(front) \o (O!Bytes(t) \o c)
    BY <2>5, Associative
  <2> QED BY <1>6, <2>3, <2>4, <2>6
<1> QED BY <1>2, <1>7

\* What stands before and behind a place in a sequence of chunks.
LEMMA BytesSplit ==
  ASSUME NEW chunks \in Seq(Seq(Int)), NEW k \in 0 .. Len(chunks)
  PROVE  /\ O!Bytes(chunks) = O!Bytes(SubSeq(chunks, 1, k)) \o O!Bytes(SubSeq(chunks, k + 1, Len(chunks)))
         /\ O!Bytes(chunks) \in Seq(Int)
         /\ O!Bytes(SubSeq(chunks, 1, k)) \in Seq(Int)
         /\ O!Bytes(SubSeq(chunks, k + 1, Len(chunks))) \in Seq(Int)
<1>1. SubSeq(chunks, 1, k) \in Seq(Seq(Int)) /\ SubSeq(chunks, k + 1, Len(chunks)) \in Seq(Seq(Int))
  OBVIOUS
<1>2. SubSeq(chunks, 1, k) \o SubSeq(chunks, k + 1, Len(chunks)) = SubSeq(chunks, 1, Len(chunks))
  <2>1. 1 \in 1 .. Len(chunks) + 1 /\ k \in (1 - 1) .. Len(chunks) /\ Len(chunks) \in k .. Len(chunks)
    OBVIOUS
  <2> QED BY <2>1, ConcatAdjacentSubSeq
<1>3. SubSeq(chunks, 1, Len(chunks)) = chunks
  BY SubSeqFull
<1>4. \A s \in Seq(Seq(Int)) : O!Bytes(s) \in Seq(Int)
  BY BytesAppend
<1> DEFINE front == SubSeq(chunks, 1, k)
           back == SubSeq(chunks, k + 1, Len(chunks))
<1>5. O!Bytes(front \o back) = O!Bytes(front) \o O!Bytes(back)
  <2>1. front \in Seq(Seq(Int)) /\ back \in Seq(Seq(Int))
    BY <1>1
  <2> HIDE DEF front, back
  <2> QED BY <2>1, BytesConcat
<1>6. front \o back = chunks
  BY <1>2, <1>3
<1> HIDE DEF front, back
<1> QED BY <1>1, <1>4, <1>5, <1>6 DEF front, back

\* The end of three sequences that begins in the second.
LEMMA CutBehind ==
  ASSUME NEW a \in Seq(Int), NEW b \in Seq(Int), NEW c \in Seq(Int), NEW n \in 1 .. Len(b)
  PROVE  SubSeq(a \o (b \o c), Len(a) + n + 1, Len(a \o (b \o c))) = SubSeq(b, n + 1, Len(b)) \o c
<1> DEFINE all == a \o (b \o c)
           left == SubSeq(all, Len(a) + n + 1, Len(all))
           right == SubSeq(b, n + 1, Len(b)) \o c
<1>1. /\ all \in Seq(Int) /\ Len(all) = Len(a) + Len(b) + Len(c)
      /\ Len(a) \in Nat /\ Len(b) \in Nat /\ Len(c) \in Nat
      /\ \A i \in Len(a) + 1 .. Len(all) : all[i] = (b \o c)[i - Len(a)]
  OBVIOUS
<1>2. left \in Seq(Int) /\ Len(left) = Len(b) + Len(c) - n
      /\ \A i \in 1 .. Len(left) : left[i] = (b \o c)[i + n]
  <2> HIDE DEF all
  <2>1. left \in Seq(Int) /\ Len(left) = Len(b) + Len(c) - n
    BY <1>1
  <2>2. \A i \in 1 .. Len(left) : left[i] = all[i + Len(a) + n]
    <3> DEFINE from == Len(a) + n + 1
    <3>1. from \in Int /\ Len(all) \in Int /\ \A i \in from .. Len(all) : all[i] \in Int
      BY <1>1
    <3>2. \A i \in 1 .. Len(all) - from + 1 : SubSeq(all, from, Len(all))[i] = all[from + i - 1]
      <4> HIDE DEF from
      <4> QED BY <3>1, SubSeqProperties
    <3>3. Len(all) - from + 1 = Len(left) /\ \A i \in Int : from + i - 1 = i + Len(a) + n
      <4> HIDE DEF left
      <4> QED BY <1>1, <2>1
    <3> QED BY <3>2, <3>3
  <2>3. \A i \in 1 .. Len(left) : i + Len(a) + n \in Len(a) + 1 .. Len(all)
    BY <1>1, <2>1
  <2> HIDE DEF left
  <2>4. ASSUME NEW i \in 1 .. Len(left) PROVE left[i] = (b \o c)[i + n]
    <3>1. all[i + Len(a) + n] = (b \o c)[(i + Len(a) + n) - Len(a)]
      BY <1>1, <2>3
    <3>2. (i + Len(a) + n) - Len(a) = i + n
      BY <1>1, <2>1
    <3> QED BY <2>2, <3>1, <3>2
  <2> QED BY <2>1, <2>4
<1>3. right \in Seq(Int) /\ Len(right) = Len(b) + Len(c) - n
      /\ \A i \in 1 .. Len(right) : right[i] = (b \o c)[i + n]
  <2> DEFINE end == SubSeq(b, n + 1, Len(b))
  <2>0. Len(b) \in Nat /\ n \in Nat /\ n <= Len(b)
    OBVIOUS
  <2>1. end \in Seq(Int) /\ Len(end) = Len(b) - n /\ \A i \in 1 .. Len(end) : end[i] = b[i + n]
    <3>1. end \in Seq(Int) /\ Len(end) = Len(b) - n
      BY <2>0
    <3>2. ASSUME NEW i \in 1 .. Len(b) - n PROVE end[i] = b[i + n]
      BY <2>0
    <3> HIDE DEF end
    <3> QED BY <3>1, <3>2
  <2> HIDE DEF end
  <2>9. PICK e \in Seq(Int) : e = end
    BY <2>1
  <2>2. e \o c \in Seq(Int) /\ Len(e \o c) = Len(b) + Len(c) - n
    <3>1. e \o c \in Seq(Int) /\ Len(e \o c) = Len(e) + Len(c) /\ Len(c) \in Nat
      BY <2>9, <2>1
    <3> QED BY <2>9, <2>0, <2>1, <3>1
  <2>3. ASSUME NEW i \in 1 .. Len(b) + Len(c) - n PROVE (e \o c)[i] = (b \o c)[i + n]
    <3>1. CASE i <= Len(e)
      BY <2>9, <1>1, <2>1, <2>2, <3>1
    <3>2. CASE i > Len(e)
      <4>0. i \in Len(e) + 1 .. Len(e) + Len(c) /\ Len(e) \in Nat /\ Len(c) \in Nat
        BY <2>9, <2>0, <2>1, <2>2, <3>2
      <4>1. (e \o c)[i] = c[i - Len(e)]
        <5>1. i \in Int /\ i > Len(e) /\ i <= Len(e) + Len(c)
          BY <4>0
        <5>2. i \in 1 .. Len(e) + Len(c) /\ ~(i <= Len(e))
          BY <4>0, <5>1
        <5> QED BY <5>2, ConcatProperties
      <4>2. (b \o c)[i + n] = c[(i + n) - Len(b)]
        BY <2>9, <2>0, <2>1, <2>2, <3>2
      <4>3. i - Len(e) = (i + n) - Len(b)
        BY <2>9, <2>0, <2>1, <2>2
      <4> QED BY <4>1, <4>2, <4>3
    <3>3. Len(e) \in Int
      BY <2>9, <2>0, <2>1
    <3>4. i \in Int
      BY <2>0, <1>1
    <3>5. i <= Len(e) \/ i > Len(e)
      BY <3>3, <3>4
    <3> QED BY <3>1, <3>2, <3>5, Zenon
  <2> QED BY <2>2, <2>3, <2>9 DEF end
<1> HIDE DEF left, right
<1>4. left = right
  BY <1>2, <1>3, SeqEqual
<1> QED BY <1>4 DEF left, right, all

\* What is left of the chunks are their last bytes, as many as the limit allows.
LEMMA TrimmedKeepsTheEnd ==
  ASSUME NEW chunks \in Seq(Seq(Int)), O!TailLimit \in Nat,
         Len(O!Bytes(chunks)) > O!TailLimit
  PROVE  /\ O!Trimmed(chunks) \in Seq(Seq(Int))
         /\ O!Bytes(O!Trimmed(chunks)) =
              SubSeq(O!Bytes(chunks), Len(O!Bytes(chunks)) - O!TailLimit + 1, Len(O!Bytes(chunks)))
<1> DEFINE all == O!Bytes(chunks)
           overflow == Len(all) - O!TailLimit
           Before(k) == Len(O!Bytes(SubSeq(chunks, 1, k)))
           Fits(k) == Before(k) <= overflow /\ (k = Len(chunks) \/ Before(k + 1) > overflow)
           gone == CHOOSE k \in 0 .. Len(chunks) : Fits(k)
           rest == SubSeq(chunks, gone + 1, Len(chunks))
<1>1. O!Trimmed(chunks) =
        IF Before(gone) = overflow THEN rest
        ELSE <<SubSeq(rest[1], overflow - Before(gone) + 1, Len(rest[1]))>> \o Tail(rest)
  <2>1. ~(overflow <= 0)
    BY BytesSplit
  <2> QED BY <2>1 DEF O!Trimmed
<1>2. Len(chunks) \in Nat /\ overflow \in Nat /\ \A k \in 0 .. Len(chunks) : Before(k) \in Nat
  BY BytesSplit
<1>3. \E k \in 0 .. Len(chunks) : Fits(k)
  <2> DEFINE N == {k \in 0 .. Len(chunks) : k = Len(chunks) \/ Before(k + 1) > overflow}
  <2>1. Len(chunks) \in N /\ N \subseteq Nat
    OBVIOUS
  <2>2. PICK k \in N : \A l \in N : k <= l
    BY <2>1, LeastNumber
  <2>3. k \in 0 .. Len(chunks) /\ (k = Len(chunks) \/ Before(k + 1) > overflow)
    OBVIOUS
  <2>4. CASE k = 0
    <3>1. Before(0) = 0
      <4>1. SubSeq(chunks, 1, 0) = <<>>
        OBVIOUS
      <4>2. Len(O!Bytes(SubSeq(chunks, 1, 0))) = Len(O!Bytes(<<>>))
        BY <4>1, Zenon
      <4> QED BY <4>2, BytesEmpty
    <3> QED BY <1>2, <2>3, <2>4, <3>1
  <2>5. CASE k # 0
    <3>1. k - 1 \in 0 .. Len(chunks) /\ k - 1 # Len(chunks) /\ (k - 1) + 1 = k
      BY <1>2, <2>3, <2>5
    <3>2. k - 1 \notin N
      <4> HIDE DEF N
      <4> QED BY <2>2, <2>3
    <3>3. ~(Before((k - 1) + 1) > overflow)
      BY <3>1, <3>2
    <3>4. Before(k) <= overflow
      <4> HIDE DEF Before, overflow
      <4> QED BY <1>2, <2>3, <3>1, <3>3
    <3> QED BY <2>3, <3>4
  <2> QED BY <2>4, <2>5
<1>4. gone \in 0 .. Len(chunks) /\ Fits(gone)
  <2> HIDE DEF Fits
  <2> QED BY <1>3
<1> HIDE DEF gone
<1>5. rest \in Seq(Seq(Int)) /\ Len(rest) = Len(chunks) - gone
  BY <1>4
<1>6. /\ all = O!Bytes(SubSeq(chunks, 1, gone)) \o O!Bytes(rest)
      /\ all \in Seq(Int) /\ O!Bytes(SubSeq(chunks, 1, gone)) \in Seq(Int) /\ O!Bytes(rest) \in Seq(Int)
  BY <1>4, BytesSplit
<1> DEFINE before == O!Bytes(SubSeq(chunks, 1, gone))
<1>7. Len(all) = Len(before) + Len(O!Bytes(rest)) /\ Before(gone) = Len(before)
  BY <1>6
<1>8. CASE Before(gone) = overflow
  <2> DEFINE back == O!Bytes(rest)
  <2>1. all = before \o back /\ before \in Seq(Int) /\ back \in Seq(Int) /\ Len(before) = Len(all) - O!TailLimit
    BY <1>6, <1>7, <1>8
  <2>2. SubSeq(all, Len(before) + 1, Len(all)) = back
    <3> HIDE DEF before, back, all
    <3> QED BY <2>1
  <2>3. O!Trimmed(chunks) = rest
    BY <1>1, <1>8
  <2> QED BY <1>5, <2>1, <2>2, <2>3
<1>9. CASE Before(gone) # overflow
  <2>1. gone # Len(chunks)
    <3>1. SubSeq(chunks, 1, Len(chunks)) = chunks
      BY SubSeqFull
    <3>2. gone = Len(chunks) => Before(gone) = Len(all)
      BY <3>1
    <3>3. Before(gone) <= overflow /\ Before(gone) \in Nat /\ Len(all) \in Nat
      BY <1>2, <1>4, <1>6
    <3> HIDE DEF Before, all
    <3> QED BY <1>2, <1>9, <3>2, <3>3
  <2>2. rest # <<>> /\ rest[1] \in Seq(Int) /\ Tail(rest) \in Seq(Seq(Int)) /\ rest = <<rest[1]>> \o Tail(rest)
    <3>0. gone \in 0 .. Len(chunks)
      BY <1>4
    <3> HIDE DEF rest
    <3>1. Len(rest) \in Nat /\ Len(rest) > 0 /\ rest # <<>>
      <4>1. Len(rest) = Len(chunks) - gone /\ Len(chunks) \in Nat
        BY <1>2, <1>5 DEF rest
      <4>2. Len(rest) \in Nat /\ Len(rest) > 0
        BY <2>1, <3>0, <4>1
      <4>3. rest # <<>>
        BY <4>2
      <4> QED BY <4>2, <4>3
    <3>2. 1 \in 1 .. Len(rest)
      BY <3>1
    <3>3. rest[1] \in Seq(Int) /\ Tail(rest) \in Seq(Seq(Int))
      BY <1>5, <3>1, <3>2
    <3>4. rest = <<rest[1]>> \o Tail(rest)
      BY <1>5, <3>1, <3>3
    <3> QED BY <3>1, <3>3, <3>4
  <2> DEFINE drop == overflow - Before(gone)
             kept == SubSeq(rest[1], drop + 1, Len(rest[1]))
             behind == O!Bytes(Tail(rest))
  <2>3. \A c \in Seq(Int) : O!Bytes(<<c>> \o Tail(rest)) = c \o behind /\ behind \in Seq(Int)
    <3>1. \A c \in Seq(Int) : O!Bytes(<<c>>) = c
      <4> TAKE c \in Seq(Int)
      <4>0. <<>> \in Seq(Seq(Int)) /\ Append(<<>>, c) = <<c>> /\ <<>> \o c = c
        OBVIOUS
      <4>1. O!Bytes(Append(<<>>, c)) = O!Bytes(<<>>) \o c
        BY <4>0, BytesAppend, Zenon
      <4>2. O!Bytes(<<c>>) = <<>> \o c
        BY <4>0, <4>1, BytesEmpty, Zenon
      <4> QED BY <4>0, <4>2, Zenon
    <3>2. \A c \in Seq(Int) : <<c>> \in Seq(Seq(Int))
      OBVIOUS
    <3>3. \A c \in Seq(Int) : O!Bytes(<<c>> \o Tail(rest)) = O!Bytes(<<c>>) \o behind
      BY <2>2, <3>2, BytesConcat
    <3> QED BY <2>2, <3>1, <3>3, BytesAppend
  <2>4. drop \in 1 .. Len(rest[1])
    <3>1. Before(gone) <= overflow /\ Before(gone) < overflow /\ Before(gone + 1) > overflow
      BY <1>2, <1>4, <1>9, <2>1
    <3>0. gone \in Nat /\ gone + 1 \in 1 .. Len(chunks) /\ (gone + 1) - 1 = gone /\ 1 \in 1 .. Len(chunks)
      <4>1. gone \in 0 .. Len(chunks)
        BY <1>4
      <4> QED BY <1>2, <2>1, <4>1
    <3>5. SubSeq(chunks, 1, gone) \in Seq(Seq(Int))
      BY <3>0
    <3>2. SubSeq(chunks, 1, gone + 1) = Append(SubSeq(chunks, 1, gone), rest[1])
      <4>1. SubSeq(chunks, 1, gone + 1) = SubSeq(chunks, 1, (gone + 1) - 1) \o <<chunks[gone + 1]>>
        BY <3>0, SubSeqRecursiveSecond
      <4>2. rest[1] = chunks[gone + 1] /\ rest[1] \in Seq(Int)
        BY <2>2, <3>0
      <4>3. Append(SubSeq(chunks, 1, gone), rest[1]) = SubSeq(chunks, 1, gone) \o <<rest[1]>>
        <5> HIDE DEF rest
        <5> QED BY <3>5, <4>2, AppendIsConcat
      <4> HIDE DEF rest
      <4> QED BY <3>0, <4>1, <4>2, <4>3
    <3>3. O!Bytes(SubSeq(chunks, 1, gone + 1)) = before \o rest[1]
      <4> DEFINE front == SubSeq(chunks, 1, gone) one == rest[1]
      <4>1. front \in Seq(Seq(Int)) /\ one \in Seq(Int)
        BY <2>2, <3>5
      <4>2. O!Bytes(Append(front, one)) = O!Bytes(front) \o one
        <5> HIDE DEF front, one
        <5> QED BY <4>1, BytesAppend
      <4> QED BY <3>2, <4>2
    <3>4. Before(gone + 1) = Before(gone) + Len(rest[1]) /\ Before(gone) \in Nat /\ Len(rest[1]) \in Nat
      <4> DEFINE one == rest[1]
      <4>1. one \in Seq(Int) /\ before \in Seq(Int) /\ Before(gone + 1) = Len(before \o one)
            /\ Before(gone) = Len(before)
        BY <1>6, <1>7, <2>2, <3>3
      <4>2. Before(gone + 1) = Before(gone) + Len(one) /\ Before(gone) \in Nat /\ Len(one) \in Nat
        <5> HIDE DEF before, one, Before
        <5> QED BY <4>1
      <4> QED BY <4>2
    <3> HIDE DEF Before, overflow, rest
    <3> QED BY <1>2, <3>1, <3>4
  <2>5. kept \in Seq(Int) /\ O!Trimmed(chunks) = <<kept>> \o Tail(rest)
    <3>1. kept \in Seq(Int)
      <4> HIDE DEF rest
      <4> QED BY <2>2, <2>4
    <3> QED BY <1>1, <1>9, <3>1
  <2>6. O!Bytes(O!Trimmed(chunks)) = kept \o behind /\ O!Trimmed(chunks) \in Seq(Seq(Int))
    <3> DEFINE others == Tail(rest)
    <3> HIDE DEF kept, behind, rest
    <3>1. others \in Seq(Seq(Int)) /\ O!Bytes(<<kept>> \o others) = kept \o behind
      BY <2>2, <2>3, <2>5
    <3>3. O!Trimmed(chunks) = <<kept>> \o others
      BY <2>5, Zenon
    <3> HIDE DEF others
    <3>2. <<kept>> \o others \in Seq(Seq(Int))
      <4>1. <<kept>> \in Seq(Seq(Int))
        BY <2>5
      <4> QED BY <3>1, <4>1, ConcatProperties
    <3> QED BY <3>1, <3>2, <3>3
  <2>7. SubSeq(all, Len(all) - O!TailLimit + 1, Len(all)) = kept \o behind
    <3>1. all = before \o (rest[1] \o behind)
      BY <1>6, <2>2, <2>3
    <3>2. Len(all) - O!TailLimit = Len(before) + drop /\ Len(all) \in Nat
      BY <1>6, <1>7
    <3> DEFINE one == rest[1]
    <3>3. one \in Seq(Int) /\ before \in Seq(Int) /\ behind \in Seq(Int) /\ drop \in 1 .. Len(one)
      BY <1>6, <2>2, <2>3, <2>4
    <3>4. SubSeq(before \o (one \o behind), Len(before) + drop + 1, Len(before \o (one \o behind)))
            = SubSeq(one, drop + 1, Len(one)) \o behind
      <4> HIDE DEF before, one, behind, drop
      <4> QED BY <3>3, CutBehind
    <3> QED BY <3>1, <3>2, <3>4
  <2> QED BY <2>6, <2>7
<1> QED BY <1>8, <1>9

\* How much of the stream the head and the tail hold.
InHead == IF total < O!HeadLimit THEN total ELSE O!HeadLimit
InTail == IF maxBytes = 0 \/ total - InHead < O!TailLimit THEN total - InHead ELSE O!TailLimit
OutputInv ==
  /\ maxBytes \in Nat /\ total \in Nat
  /\ head = O!Chunk(1, InHead)
  /\ tail \in Seq(Seq(Int)) /\ O!Bytes(tail) = O!Chunk(total - InTail + 1, InTail)

LEMMA ChunkIs ==
  ASSUME NEW a \in Int, NEW n \in Nat
  PROVE  /\ O!Chunk(a, n) \in Seq(Int) /\ Len(O!Chunk(a, n)) = n
         /\ \A i \in 1 .. n : O!Chunk(a, n)[i] = a + i - 1
<1>1. \A i \in 1 .. n : a + i - 1 \in Int
  OBVIOUS
<1>2. O!Chunk(a, n) \in [1 .. n -> Int]
  BY <1>1 DEF O!Chunk
<1>3. O!Chunk(a, n) \in Seq(Int)
  BY <1>2, SeqDef
<1> QED BY <1>2, <1>3 DEF O!Chunk

LEMMA ChunkConcat ==
  ASSUME NEW a \in Int, NEW m \in Nat, NEW n \in Nat
  PROVE  O!Chunk(a, m) \o O!Chunk(a + m, n) = O!Chunk(a, m + n)
<1>1. PICK s \in Seq(Int) : s = O!Chunk(a, m) /\ Len(s) = m /\ \A i \in 1 .. m : s[i] = a + i - 1
  BY ChunkIs
<1>2. PICK t \in Seq(Int) : t = O!Chunk(a + m, n) /\ Len(t) = n /\ \A i \in 1 .. n : t[i] = (a + m) + i - 1
  BY ChunkIs
<1>3. PICK u \in Seq(Int) : u = O!Chunk(a, m + n) /\ Len(u) = m + n /\ \A i \in 1 .. m + n : u[i] = a + i - 1
  BY ChunkIs
<1>4. s \o t \in Seq(Int) /\ Len(s \o t) = m + n
  <2>1. s \o t \in Seq(Int) /\ Len(s \o t) = Len(s) + Len(t)
    OBVIOUS
  <2>2. Len(s) = m /\ Len(t) = n
    BY <1>1, <1>2
  <2> QED BY <2>1, <2>2
<1>5. ASSUME NEW i \in 1 .. m + n PROVE (s \o t)[i] = u[i]
  <2>1. CASE i <= m
    BY <1>1, <1>2, <1>3, <2>1
  <2>2. CASE i > m
    <3>1. i - m \in 1 .. n
      BY <2>2
    <3>2. (s \o t)[i] = t[i - m]
      BY <1>1, <1>2, <2>2
    <3>3. t[i - m] = a + m + (i - m) - 1 /\ u[i] = a + i - 1
      BY <1>2, <1>3, <3>1
    <3>4. a + m + (i - m) - 1 = a + i - 1
      OBVIOUS
    <3> QED BY <3>2, <3>3, <3>4
  <2>3. i <= m \/ i > m
    OBVIOUS
  <2> QED BY <2>1, <2>2, <2>3, Zenon
<1> QED BY <1>1, <1>2, <1>3, <1>4, <1>5, SeqEqual

LEMMA NoChunk == \A a \in Int : O!Chunk(a, 0) = <<>>
<1> TAKE a \in Int
<1>1. PICK n \in Nat : n = 0
  OBVIOUS
<1>2. O!Chunk(a, n) \in Seq(Int) /\ Len(O!Chunk(a, n)) = n
  BY ChunkIs
<1> QED BY <1>1, <1>2

LEMMA FirstChunks ==
  ASSUME NEW m \in Nat, NEW n \in Nat
  PROVE  O!Chunk(1, m) \o O!Chunk(1 + m, n) = O!Chunk(1, m + n)
<1>1. PICK a \in Int : a = 1
  OBVIOUS
<1>2. O!Chunk(a, m) \o O!Chunk(a + m, n) = O!Chunk(a, m + n)
  BY ChunkConcat
<1> QED BY <1>1, <1>2

LEMMA ChunkCut ==
  ASSUME NEW a \in Int, NEW n \in Nat, NEW p \in Int, NEW q \in Int, 1 <= p, p <= q + 1, q <= n
  PROVE  SubSeq(O!Chunk(a, n), p, q) = O!Chunk(a + p - 1, q - p + 1)
<1>1. PICK s \in Seq(Int) : s = O!Chunk(a, n) /\ Len(s) = n /\ \A i \in 1 .. n : s[i] = a + i - 1
  BY ChunkIs
<1>2. PICK k \in Nat : k = q - p + 1
  OBVIOUS
<1>3. PICK b \in Int : b = a + p - 1
  OBVIOUS
<1>4. PICK u \in Seq(Int) : u = O!Chunk(b, k) /\ Len(u) = k /\ \A i \in 1 .. k : u[i] = b + i - 1
  BY ChunkIs
<1>5. SubSeq(s, p, q) \in Seq(Int) /\ Len(SubSeq(s, p, q)) = k
  BY <1>1, <1>2
<1>6. ASSUME NEW i \in 1 .. k PROVE SubSeq(s, p, q)[i] = u[i]
  <2>1. p + i - 1 \in 1 .. n
    BY <1>2
  <2>2. SubSeq(s, p, q)[i] = s[p + i - 1]
    BY <1>1, <1>2, <2>1
  <2> QED BY <1>1, <1>3, <1>4, <2>1, <2>2
<1> QED BY <1>1, <1>2, <1>3, <1>4, <1>5, <1>6, SeqEqual

LEMMA Halves ==
  ASSUME maxBytes \in Nat
  PROVE  O!HeadLimit \in Nat /\ O!TailLimit \in Nat /\ O!HeadLimit + O!TailLimit = maxBytes
         /\ (maxBytes # 0 => O!TailLimit # 0)
BY DEF O!HeadLimit, O!TailLimit

LEMMA OutputStarts == O!Init => OutputInv
<1> SUFFICES ASSUME O!Init PROVE OutputInv
  OBVIOUS
<1>1. maxBytes \in Nat /\ total = 0 /\ head = <<>> /\ tail = <<>>
  BY SessionAssumption DEF O!Init, O!OutputCollectorAssumption
<1>2. InHead = 0 /\ InTail = 0
  BY <1>1, Halves DEF InHead, InTail
<1>3. \A a \in Int : O!Chunk(a, 0) = <<>>
  BY ChunkIs
<1> QED BY <1>1, <1>2, <1>3, BytesEmpty DEF OutputInv

LEMMA OutputStep ==
  ASSUME OutputInv, [O!Next]_oVars
  PROVE  OutputInv'
<1>1. CASE UNCHANGED oVars
  BY <1>1 DEF oVars, OutputInv, InHead, InTail, O!HeadLimit, O!TailLimit
<1>2. ASSUME NEW n \in 1 .. MaxChunk, O!Append_(n)
      PROVE  OutputInv'
  <2> DEFINE chunk == O!Chunk(total + 1, n)
             space == IF O!HeadLimit > Len(head) THEN O!HeadLimit - Len(head) ELSE 0
             first == SubSeq(chunk, 1, IF space < n THEN space ELSE n)
             second == SubSeq(chunk, space + 1, n)
  <2>1. n \in Nat /\ n > 0 /\ total' = total + n /\ maxBytes' = maxBytes
    BY <1>2, SessionAssumption DEF O!Append_, O!OutputCollectorAssumption
  <2>2. maxBytes' \in Nat /\ total' \in Nat
    BY <2>1 DEF OutputInv
  <2>3. O!HeadLimit' = O!HeadLimit /\ O!TailLimit' = O!TailLimit
    BY <2>1 DEF O!HeadLimit, O!TailLimit
  <2>4. InHead \in Nat /\ InTail \in Nat /\ InHead <= total /\ InTail <= total - InHead /\ Len(head) = InHead
    <3>1. InHead \in Nat /\ InTail \in Nat /\ InHead <= total /\ InTail <= total - InHead
      BY Halves DEF OutputInv, InHead, InTail
    <3> QED BY <3>1, ChunkIs DEF OutputInv
  <2>5. chunk \in Seq(Int) /\ Len(chunk) = n /\ total \in Nat
    <3>1. total \in Nat
      BY DEF OutputInv
    <3>2. total + 1 \in Int /\ n \in Nat
      BY <2>1, <3>1
    <3> QED BY <3>1, <3>2, ChunkIs
  <2>6. CASE maxBytes = 0
    <3>1. tail' = Append(tail, chunk) /\ head' = head
      BY <1>2, <2>6 DEF O!Append_
    <3>0. O!HeadLimit = 0 /\ O!HeadLimit' = 0 /\ maxBytes' = 0 /\ total' = total + n /\ ~(total < 0)
          /\ ~(total' < 0)
      BY <2>1, <2>3, <2>5, <2>6, Halves
    <3>2. InHead = 0 /\ InHead' = 0 /\ InTail = total /\ InTail' = total + n
      <4>1. InHead = 0 /\ InHead' = 0
        BY <3>0 DEF InHead
      <4> QED BY <2>1, <2>5, <2>6, <3>0, <4>1 DEF InTail
    <3>3. O!Bytes(tail') = O!Bytes(tail) \o chunk /\ tail' \in Seq(Seq(Int))
      <4> HIDE DEF chunk
      <4>1. tail \in Seq(Seq(Int))
        BY DEF OutputInv
      <4>2. O!Bytes(Append(tail, chunk)) = O!Bytes(tail) \o chunk
        BY <2>5, <4>1, BytesAppend
      <4>3. Append(tail, chunk) \in Seq(Seq(Int))
        BY <2>5, <4>1
      <4> QED BY <3>1, <4>2, <4>3
    <3>4. O!Bytes(tail) = O!Chunk(1, total)
      BY <2>5, <3>2 DEF OutputInv
    <3>5. O!Bytes(tail') = O!Chunk(1, total + n)
      <4>1. O!Chunk(1, total) \o O!Chunk(1 + total, n) = O!Chunk(1, total + n)
        BY <2>1, <2>5, FirstChunks
      <4>2. 1 + total = total + 1
        BY <2>5
      <4> QED BY <3>3, <3>4, <4>1, <4>2
    <3>6. total' - InTail' + 1 = 1
      BY <2>1, <2>5, <3>2
    <3> QED BY <2>2, <3>1, <3>2, <3>3, <3>5, <3>6 DEF OutputInv
  <2>7. CASE maxBytes # 0
    <3>0. O!HeadLimit \in Nat /\ O!TailLimit \in Nat /\ O!TailLimit > 0
      BY <2>7, Halves DEF OutputInv
    <3>1. /\ head' = head \o first
          /\ tail' = IF second = <<>> THEN tail ELSE O!Trimmed(Append(tail, second))
      BY <1>2, <2>7 DEF O!Append_
    <3>2. space \in Nat /\ (total < O!HeadLimit => space = O!HeadLimit - total)
          /\ (total >= O!HeadLimit => space = 0)
      BY <2>4, <2>5, <3>0 DEF InHead
    <3> HIDE DEF space
    <3>3. head' = O!Chunk(1, InHead') /\ InHead' = IF space < n THEN InHead + space ELSE InHead + n
      <4> DEFINE taken == IF space < n THEN space ELSE n
      <4>1. taken \in Nat /\ taken <= n
        BY <2>1, <3>2
      <4>2. InHead' = InHead + taken
        BY <2>1, <2>3, <2>5, <3>0, <3>2 DEF InHead
      <4>3. first = O!Chunk(total + 1, taken)
        <5>1. total + 1 \in Int /\ n \in Nat /\ 1 \in Int /\ taken \in Int /\ 1 <= 1 /\ 1 <= taken + 1
          BY <2>1, <2>5, <4>1
        <5> HIDE DEF taken
        <5>2. SubSeq(O!Chunk(total + 1, n), 1, taken) = O!Chunk((total + 1) + 1 - 1, taken - 1 + 1)
          BY <4>1, <5>1, ChunkCut
        <5>3. (total + 1) + 1 - 1 = total + 1 /\ taken - 1 + 1 = taken
          BY <2>5, <4>1
        <5>4. SubSeq(O!Chunk(total + 1, n), 1, taken) = O!Chunk(total + 1, taken)
          BY <5>2, <5>3
        <5> QED BY <5>4 DEF taken
      <4>4. O!Chunk(1, InHead) \o O!Chunk(total + 1, taken) = O!Chunk(1, InHead + taken)
        <5>1. O!Chunk(1, InHead) \o O!Chunk(1 + InHead, taken) = O!Chunk(1, InHead + taken)
          <6> HIDE DEF taken
          <6> QED BY <2>4, <4>1, FirstChunks
        <5>2. CASE taken = 0
          <6>1. O!Chunk(total + 1, 0) = <<>> /\ O!Chunk(1 + InHead, 0) = <<>>
            <7>1. total + 1 \in Int /\ 1 + InHead \in Int
              BY <2>4, <2>5
            <7> QED BY <7>1, NoChunk
          <6> HIDE DEF taken
          <6> QED BY <5>1, <5>2, <6>1
        <5>3. CASE taken # 0
          <6>1. InHead = total
            BY <2>1, <2>5, <3>0, <3>2, <5>3 DEF InHead
          <6>2. 1 + InHead = total + 1
            BY <2>5, <6>1
          <6> HIDE DEF taken
          <6> QED BY <5>1, <6>2
        <5> QED BY <5>2, <5>3
      <4>5. head = O!Chunk(1, InHead)
        BY DEF OutputInv
      <4> HIDE DEF taken, first
      <4>6. head' = O!Chunk(1, InHead')
        BY <3>1, <4>2, <4>3, <4>4, <4>5
      <4> QED BY <4>2, <4>6 DEF taken
    <3>4. CASE ~(space < n)
      <4>1. second = <<>>
        BY <2>1, <3>2, <3>4
      <4>2. tail' = tail
        BY <3>1, <4>1
      <4>3. InTail = 0 /\ InTail' = 0 /\ InHead = total
        BY <2>1, <2>3, <2>5, <2>7, <3>0, <3>2, <3>3, <3>4 DEF InHead, InTail
      <4>4. O!Bytes(tail) = <<>> /\ O!Chunk(total' - 0 + 1, 0) = <<>>
        <5>1. total - 0 + 1 \in Int /\ total' - 0 + 1 \in Int
          BY <2>2, <2>5
        <5>2. O!Bytes(tail) = O!Chunk(total - 0 + 1, 0)
          BY <4>3 DEF OutputInv
        <5> QED BY <5>1, <5>2, NoChunk
      <4>5. tail \in Seq(Seq(Int))
        BY DEF OutputInv
      <4> QED BY <2>2, <3>3, <4>2, <4>3, <4>4, <4>5 DEF OutputInv
    <3>5. CASE space < n
      <4> DEFINE k == n - space
                 all == O!Bytes(Append(tail, second))
                 m == InTail + k
      <4>0. k \in Nat /\ k > 0 /\ m \in Nat /\ total + n \in Nat
        BY <2>1, <2>4, <2>5, <3>2, <3>5
      <4>1. second = O!Chunk(total + space + 1, k)
        <5>1. total + 1 \in Int /\ n \in Nat /\ space + 1 \in Int /\ n \in Int /\ 1 <= space + 1
              /\ space + 1 <= n + 1 /\ n <= n
          BY <2>1, <2>5, <3>2, <3>5
        <5>2. second = O!Chunk((total + 1) + (space + 1) - 1, n - (space + 1) + 1)
          BY <5>1, ChunkCut
        <5>3. (total + 1) + (space + 1) - 1 = total + space + 1 /\ n - (space + 1) + 1 = k
          BY <2>1, <2>5, <3>2
        <5> QED BY <5>2, <5>3
      <4>2. second \in Seq(Int) /\ Len(second) = k
        <5>1. total + space + 1 \in Int
          BY <2>5, <3>2
        <5> HIDE DEF k, second
        <5> QED BY <4>0, <4>1, <5>1, ChunkIs
      <4>3. second # <<>>
        <5>1. Len(second) # 0
          BY <4>0, <4>2
        <5> HIDE DEF second
        <5> QED BY <5>1
      <4>4. tail' = O!Trimmed(Append(tail, second))
        BY <3>1, <4>3
      <4>5. tail \in Seq(Seq(Int)) /\ O!Bytes(tail) = O!Chunk(total - InTail + 1, InTail)
        BY DEF OutputInv
      <4> HIDE DEF second
      <4>6. all = O!Chunk(total - InTail + 1, InTail) \o second /\ Append(tail, second) \in Seq(Seq(Int))
        BY <4>2, <4>5, BytesAppend
      <4>7. total + n - m + 1 \in Int /\ all = O!Chunk(total + n - m + 1, m)
        <5>1. InTail > 0 => space = 0
          BY <2>4, <2>5, <3>0, <3>2 DEF InHead, InTail
        <5>2. O!Chunk(total - InTail + 1, InTail) = O!Chunk(total + space - InTail + 1, InTail)
          <6>1. CASE InTail = 0
            <7>1. total - InTail + 1 \in Int /\ total + space - InTail + 1 \in Int
              BY <2>4, <2>5, <3>2
            <7>2. O!Chunk(total - InTail + 1, 0) = <<>> /\ O!Chunk(total + space - InTail + 1, 0) = <<>>
              BY <7>1, NoChunk
            <7> QED BY <6>1, <7>2
          <6>2. CASE InTail # 0
            <7>1. total - InTail + 1 = total + space - InTail + 1
              BY <2>4, <2>5, <5>1, <6>2
            <7> QED BY <7>1
          <6> QED BY <6>1, <6>2
        <5>3. PICK a \in Int : a = total + space - InTail + 1
          BY <2>4, <2>5, <3>2
        <5>4. O!Chunk(a, InTail) \o O!Chunk(a + InTail, k) = O!Chunk(a, InTail + k)
          <6> HIDE DEF k
          <6> QED BY <2>4, <4>0, ChunkConcat
        <5>5. a + InTail = total + space + 1 /\ a = total + n - m + 1
          BY <2>1, <2>4, <2>5, <3>2, <5>3
        <5> HIDE DEF all, k
        <5> QED BY <4>1, <4>6, <5>2, <5>3, <5>4, <5>5
      <4>8. Len(all) = m
        <5> HIDE DEF all, m
        <5> QED BY <4>0, <4>7, ChunkIs
      <4>9. InTail' = IF m < O!TailLimit THEN m ELSE O!TailLimit
        BY <2>1, <2>3, <2>4, <2>5, <2>7, <3>0, <3>2, <3>3, <3>5 DEF InHead, InTail
      <4>10. CASE m > O!TailLimit
        <5>1. tail' \in Seq(Seq(Int)) /\ O!Bytes(tail') = SubSeq(all, m - O!TailLimit + 1, m)
          <6>1. Len(all) > O!TailLimit
            BY <4>8, <4>10
          <6>2. \A s \in Seq(Seq(Int)) : Len(O!Bytes(s)) > O!TailLimit =>
                  /\ O!Trimmed(s) \in Seq(Seq(Int))
                  /\ O!Bytes(O!Trimmed(s)) =
                       SubSeq(O!Bytes(s), Len(O!Bytes(s)) - O!TailLimit + 1, Len(O!Bytes(s)))
            BY <3>0, TrimmedKeepsTheEnd
          <6>3. /\ O!Trimmed(Append(tail, second)) \in Seq(Seq(Int))
                /\ O!Bytes(O!Trimmed(Append(tail, second))) = SubSeq(all, Len(all) - O!TailLimit + 1, Len(all))
            BY <4>6, <6>1, <6>2, Zenon
          <6> QED BY <4>4, <4>8, <6>3
        <5>2. InTail' = O!TailLimit
          BY <3>0, <4>0, <4>9, <4>10
        <5>3. PICK p \in Int : p = m - O!TailLimit + 1
          BY <3>0, <4>0
        <5>4. PICK a \in Int : a = total + n - m + 1
          BY <4>7
        <5>5. SubSeq(O!Chunk(a, m), p, m) = O!Chunk(a + p - 1, m - p + 1)
          <6>1. 1 <= p /\ p <= m + 1 /\ m \in Int /\ m <= m
            BY <3>0, <4>0, <4>10, <5>3
          <6> HIDE DEF m
          <6> QED BY <4>0, <6>1, ChunkCut
        <5>6. a + p - 1 = total' - InTail' + 1 /\ m - p + 1 = InTail'
          <6> HIDE DEF m
          <6> QED BY <2>1, <2>5, <3>0, <4>0, <5>2, <5>3, <5>4
        <5>7. O!Bytes(tail') = O!Chunk(total' - InTail' + 1, InTail')
          <6> HIDE DEF all, m
          <6> QED BY <4>7, <5>1, <5>3, <5>4, <5>5, <5>6
        <5> QED BY <2>2, <3>3, <5>1, <5>7 DEF OutputInv
      <4>11. CASE ~(m > O!TailLimit)
        <5>1. O!Trimmed(Append(tail, second)) = Append(tail, second)
          <6>1. Len(all) - O!TailLimit <= 0
            BY <3>0, <4>0, <4>8, <4>11
          <6> QED BY <6>1 DEF O!Trimmed
        <5>2. InTail' = m
          BY <3>0, <4>0, <4>9, <4>11
        <5>3. total' - InTail' + 1 = total + n - m + 1
          <6> HIDE DEF m
          <6> QED BY <2>1, <2>5, <4>0, <5>2
        <5>4. O!Bytes(tail') = all
          BY <4>4, <5>1
        <5>5. O!Bytes(tail') = O!Chunk(total' - InTail' + 1, InTail')
          <6> HIDE DEF all, m
          <6> QED BY <4>7, <5>2, <5>3, <5>4
        <5>6. tail' \in Seq(Seq(Int))
          BY <4>4, <4>6, <5>1
        <5> QED BY <2>2, <3>3, <5>5, <5>6 DEF OutputInv
      <4> QED BY <4>10, <4>11
    <3> QED BY <3>4, <3>5
  <2> QED BY <2>6, <2>7
<1> QED BY <1>1, <1>2 DEF O!Next

LEMMA EndsAreKept == OutputInv => O!EndsKept
<1> SUFFICES ASSUME OutputInv PROVE O!EndsKept
  OBVIOUS
<1>1. /\ InHead \in Nat /\ InTail \in Nat /\ total \in Nat /\ maxBytes \in Nat
      /\ O!HeadLimit \in Nat /\ O!TailLimit \in Nat /\ O!HeadLimit + O!TailLimit = maxBytes
  <2>1. maxBytes \in Nat /\ total \in Nat
    BY DEF OutputInv
  <2>2. O!HeadLimit \in Nat /\ O!TailLimit \in Nat /\ O!HeadLimit + O!TailLimit = maxBytes
    BY <2>1, Halves
  <2> QED BY <2>1, <2>2 DEF InHead, InTail
<1>2. CASE maxBytes = 0 \/ total <= maxBytes
  <2>1. InHead + InTail = total
    BY <1>1, <1>2 DEF InHead, InTail
  <2>2. total - InTail + 1 = 1 + InHead
    BY <1>1, <2>1
  <2>3. head \o O!Bytes(tail) = O!Chunk(1, total)
    <3>1. O!Chunk(1, InHead) \o O!Chunk(1 + InHead, InTail) = O!Chunk(1, InHead + InTail)
      BY <1>1, FirstChunks
    <3>2. head = O!Chunk(1, InHead) /\ O!Bytes(tail) = O!Chunk(total - InTail + 1, InTail)
      BY DEF OutputInv
    <3> QED BY <2>1, <2>2, <3>1, <3>2
  <2> QED BY <1>2, <2>3 DEF O!EndsKept, O!Retained
<1>3. CASE maxBytes # 0 /\ total > maxBytes
  <2>1. InHead = O!HeadLimit /\ InTail = O!TailLimit
    BY <1>1, <1>3 DEF InHead, InTail
  <2> DEFINE start == total - O!TailLimit + 1
  <2>2. head = O!Chunk(1, O!HeadLimit) /\ O!Bytes(tail) = O!Chunk(start, O!TailLimit)
    BY <2>1 DEF OutputInv
  <2>3. SubSeq(O!Chunk(1, total), 1, O!HeadLimit) = O!Chunk(1, O!HeadLimit)
    <3>1. SubSeq(O!Chunk(1, total), 1, O!HeadLimit) = O!Chunk(1 + 1 - 1, O!HeadLimit - 1 + 1)
      <4>1. 1 <= O!HeadLimit + 1 /\ O!HeadLimit <= total /\ total \in Nat /\ O!HeadLimit \in Int
        BY <1>1, <1>3
      <4>2. PICK o \in Int : o = 1
        OBVIOUS
      <4>3. SubSeq(O!Chunk(o, total), o, O!HeadLimit) = O!Chunk(o + o - 1, O!HeadLimit - o + 1)
        <5>1. PICK h \in Int : h = O!HeadLimit
          BY <4>1
        <5>2. 1 <= o /\ o <= h + 1 /\ h <= total
          BY <4>1, <4>2, <5>1
        <5>3. SubSeq(O!Chunk(o, total), o, h) = O!Chunk(o + o - 1, h - o + 1)
          BY <4>1, <5>2, ChunkCut
        <5> QED BY <5>1, <5>3
      <4> QED BY <4>2, <4>3
    <3>2. 1 + 1 - 1 = 1 /\ O!HeadLimit - 1 + 1 = O!HeadLimit
      BY <1>1
    <3> QED BY <3>1, <3>2
  <2>4. SubSeq(O!Chunk(1, total), start, total) = O!Chunk(start, O!TailLimit)
    <3>1. start \in Int /\ 1 <= start /\ start <= total + 1
      BY <1>1, <1>3
    <3>2. SubSeq(O!Chunk(1, total), start, total) = O!Chunk(1 + start - 1, total - start + 1)
      <4>1. total \in Nat /\ total \in Int /\ total <= total /\ 1 \in Int
        BY <1>1
      <4> HIDE DEF start
      <4> QED BY <3>1, <4>1, ChunkCut
    <3>3. 1 + start - 1 = start /\ total - start + 1 = O!TailLimit
      BY <1>1
    <3> QED BY <3>2, <3>3
  <2>5. Len(head) = O!HeadLimit /\ Len(O!Bytes(tail)) = O!TailLimit
    <3>1. start \in Int
      BY <1>1
    <3> HIDE DEF start
    <3> QED BY <1>1, <2>2, <3>1, ChunkIs
  <2>6. total - O!HeadLimit - O!TailLimit = total - maxBytes
    BY <1>1
  <2>7. ~(maxBytes = 0 \/ total <= maxBytes)
    BY <1>1, <1>3
  <2>8. O!Retained = [bytes |-> head \o O!Bytes(tail), omitted |-> total - maxBytes]
    BY <2>5, <2>6, <2>7 DEF O!Retained
  <2> QED BY <2>2, <2>3, <2>4, <2>7, <2>8 DEF O!EndsKept
<1> QED BY <1>1, <1>2, <1>3

-----------------------------------------------------------------------------
(* FileTransfer.                                                           *)

\* FileTransfer: bytes, transfers and requests.
FileByte == [by : Uploader \cup {"old", "hole", "nobody", "other"}, at : Nat]
TransferTypes ==
  /\ file \in Seq(FileByte) /\ source \in [Uploader -> Nat]
  /\ xfer \in [X!Transfer -> [pc : {"new", "ready", "waiting", "answered", "succeeded", "failed"},
                              offset : Nat, got : Seq(FileByte), answer : Seq(FileByte),
                              size : Nat, try : Nat]]
  /\ wire \subseteq [by : X!Transfer, try : Nat, offset : Nat, data : Seq(FileByte)]
  /\ look \subseteq [req : [by : Downloader, try : Nat, offset : Nat, data : Seq(FileByte)], size : Nat]
  /\ held \in [Downloader -> SUBSET Seq(FileByte)]
  /\ writes \in Nat /\ faultsX \in Nat
\* A download has one request on its way at most, or in the tools.
Alone(d) ==
  /\ xfer[d].pc # "waiting" =>
       (\A m \in wire : m.by # d) /\ (\A l \in look : l.req.by # d)
  /\ \A m, n \in wire : m.by = d /\ n.by = d => m = n
  /\ \A l \in look : l.req.by = d => \A m \in wire : m.by # d
\* Unless it is torn, the file has what it has read, as far as it goes, or has held it.
Follows(d) ==
  /\ file \in held[d]
  /\ \A i \in 1 .. Len(X!Known(d)) : i <= Len(file) => X!Known(d)[i] = file[i]
  /\ xfer[d].pc = "answered" /\ Len(X!Known(d)) = xfer[d].size => X!Known(d) \in held[d]
  /\ \A l \in look : l.req.by = d =>
       /\ l.size <= Len(file) => SubSeq(file, 1, l.size) \in held[d]
       /\ l.size = Len(xfer[d].got) => xfer[d].got \in held[d]
Downloads ==
  \A d \in Downloader :
    /\ Len(xfer[d].got) = xfer[d].offset
    /\ xfer[d].pc = "new" => xfer[d].got = <<>>
    /\ xfer[d].pc = "new" \/ X!Under(d) => Alone(d)
    /\ X!Under(d) /\ d \notin torn => Follows(d)
    /\ xfer[d].pc = "succeeded" /\ d \notin torn => xfer[d].got \in held[d]
\* The first bytes of an upload.
First(u, n) == [i \in 1 .. n |-> [by |-> u, at |-> i]]
\* While nothing else happens to the file, it holds what the uploader has been told of,
\* and only the request that is waited for is on its way.
Uploads ==
  \A u \in Uploader : faultsX = 0 /\ writes = 0 /\ Uploader = {u} =>
    /\ source[u] = Total /\ xfer[u].try = 0 /\ xfer[u].offset <= Total
    /\ xfer[u].pc = "new" => xfer[u].offset = 0
    /\ \A m \in wire : m.by = u => xfer[u].pc = "waiting" /\ m = X!Request(u)
    /\ xfer[u].pc \in {"ready", "waiting"} /\ xfer[u].offset > 0 => file = First(u, xfer[u].offset)
    /\ xfer[u].pc = "succeeded" => file = First(u, Total)
    /\ xfer[u].pc = "answered" =>
         /\ file = First(u, xfer[u].offset + Len(xfer[u].answer))
         /\ xfer[u].offset + Len(xfer[u].answer) <= Total
TransferInv == TransferTypes /\ Downloads /\ Uploads

XferRecord == [pc : {"new", "ready", "waiting", "answered", "succeeded", "failed"},
               offset : Nat, got : Seq(FileByte), answer : Seq(FileByte), size : Nat, try : Nat]

LEMMA FirstBytes ==
  ASSUME NEW u \in Uploader, NEW n \in Nat
  PROVE  /\ First(u, n) \in Seq(FileByte) /\ Len(First(u, n)) = n
         /\ \A i \in 1 .. n : First(u, n)[i] = [by |-> u, at |-> i]
<1>1. \A i \in 1 .. n : [by |-> u, at |-> i] \in FileByte
  BY DEF FileByte
<1>2. First(u, n) \in [1 .. n -> FileByte]
  BY <1>1 DEF First
<1>3. First(u, n) \in Seq(FileByte)
  BY <1>2, SeqDef
<1> QED BY <1>2, <1>3 DEF First

LEMMA SliceIsPart ==
  ASSUME NEW s \in Seq(FileByte), NEW p \in Nat, NEW n \in Nat
  PROVE  /\ X!Slice(s, p, n) \in Seq(FileByte)
         /\ p <= Len(s) => /\ p + Len(X!Slice(s, p, n)) <= Len(s)
                           /\ \A i \in 1 .. Len(X!Slice(s, p, n)) : X!Slice(s, p, n)[i] = s[p + i]
         /\ p >= Len(s) => Len(X!Slice(s, p, n)) = 0
<1>1. PICK e \in Nat : e = IF p + n < Len(s) THEN p + n ELSE Len(s)
  OBVIOUS
<1>2. X!Slice(s, p, n) = SubSeq(s, p + 1, e) /\ e <= Len(s)
  BY <1>1 DEF X!Slice
<1>3. SubSeq(s, p + 1, e) \in Seq(FileByte) /\ Len(SubSeq(s, p + 1, e)) = IF p + 1 <= e THEN e - p ELSE 0
  BY <1>2
<1>4. p <= Len(s) => p <= e
  BY <1>1
<1>5. \A i \in 1 .. Len(SubSeq(s, p + 1, e)) : SubSeq(s, p + 1, e)[i] = s[p + i]
  BY <1>2, <1>3
<1> QED BY <1>2, <1>3, <1>4, <1>5

\* The next chunk of an upload continues what has been sent.
LEMMA NextChunk ==
  ASSUME NEW u \in Uploader, NEW n \in Nat, NEW p \in Nat, p <= n, NEW k \in Nat,
         NEW d, d = X!Slice(First(u, n), p, k)
  PROVE  d \in Seq(FileByte) /\ p + Len(d) <= n /\ First(u, p) \o d = First(u, p + Len(d))
<1>1. PICK s \in Seq(FileByte) :
        s = First(u, n) /\ Len(s) = n /\ \A i \in 1 .. n : s[i] = [by |-> u, at |-> i]
  BY FirstBytes
<1>2. d \in Seq(FileByte) /\ p + Len(d) <= n /\ \A i \in 1 .. Len(d) : d[i] = s[p + i]
  BY <1>1, SliceIsPart
<1>3. PICK a \in Seq(FileByte) :
        a = First(u, p) /\ Len(a) = p /\ \A i \in 1 .. p : a[i] = [by |-> u, at |-> i]
  BY FirstBytes
<1>4. PICK l \in Nat : l = p + Len(d)
  BY <1>2
<1>5. PICK b \in Seq(FileByte) :
        b = First(u, l) /\ Len(b) = l /\ \A i \in 1 .. l : b[i] = [by |-> u, at |-> i]
  BY FirstBytes
<1>6. a \o d \in Seq(FileByte) /\ Len(a \o d) = l
  <2>1. a \o d \in Seq(FileByte) /\ Len(a \o d) = Len(a) + Len(d)
    BY <1>2
  <2> QED BY <1>3, <1>4, <2>1
<1>7. ASSUME NEW i \in 1 .. l PROVE (a \o d)[i] = b[i]
  <2>1. CASE i <= p
    BY <1>2, <1>3, <1>4, <1>5, <2>1
  <2>2. CASE i > p
    <3>1. i - p \in 1 .. Len(d) /\ i \in 1 .. n
      BY <1>2, <1>4, <2>2
    <3>2. (a \o d)[i] = d[i - p]
      BY <1>2, <1>3, <1>4, <2>2
    <3>3. d[i - p] = s[p + (i - p)] /\ p + (i - p) = i
      BY <1>2, <3>1
    <3> QED BY <1>1, <1>5, <3>1, <3>2, <3>3
  <2>3. i <= p \/ i > p
    OBVIOUS
  <2> QED BY <2>1, <2>2, <2>3, Zenon
<1> QED BY <1>2, <1>3, <1>4, <1>5, <1>6, <1>7, SeqEqual

LEMMA OverwrittenIs ==
  ASSUME NEW old \in Seq(FileByte), NEW p \in Nat, NEW d \in Seq(FileByte)
  PROVE  /\ X!Overwritten(old, p, d) \in Seq(FileByte)
         /\ p = 0 => X!Overwritten(old, p, d) = d
         /\ p = Len(old) => X!Overwritten(old, p, d) = old \o d
<1> DEFINE hole == [i \in 1 .. (IF p > Len(old) THEN p - Len(old) ELSE 0) |-> X!Zero]
           padded == old \o hole
<1>1. hole \in Seq(FileByte) /\ Len(hole) = IF p > Len(old) THEN p - Len(old) ELSE 0
  <2>1. X!Zero \in FileByte
    BY DEF X!Zero, FileByte
  <2>2. PICK n \in Nat : n = IF p > Len(old) THEN p - Len(old) ELSE 0
    <3>1. Len(old) \in Nat
      OBVIOUS
    <3>2. (IF p > Len(old) THEN p - Len(old) ELSE 0) \in Nat
      BY <3>1
    <3> QED BY <3>2
  <2>3. [i \in 1 .. n |-> X!Zero] \in [1 .. n -> FileByte]
    BY <2>1
  <2>4. [i \in 1 .. n |-> X!Zero] \in Seq(FileByte) /\ Len([i \in 1 .. n |-> X!Zero]) = n
    BY <2>3, SeqDef
  <2> QED BY <2>2, <2>4
<1>2. X!Overwritten(old, p, d) = SubSeq(padded, 1, p) \o d
  BY DEF X!Overwritten
<1> HIDE DEF hole
<1>3. padded \in Seq(FileByte) /\ Len(padded) >= p /\ (p = Len(old) => padded = old)
  BY <1>1
<1> HIDE DEF padded
<1>4. SubSeq(padded, 1, p) \in Seq(FileByte) /\ Len(SubSeq(padded, 1, p)) = p
  BY <1>3
<1>5. p = 0 => SubSeq(padded, 1, p) = <<>>
  BY <1>4
<1>6. p = Len(old) => SubSeq(padded, 1, p) = old
  BY <1>3, SubSeqFull
<1>7. <<>> \o d = d
  OBVIOUS
<1>8. p = 0 => X!Overwritten(old, p, d) = d
  BY <1>2, <1>5, <1>7
<1>9. p = Len(old) => X!Overwritten(old, p, d) = old \o d
  BY <1>2, <1>6
<1>10. X!Overwritten(old, p, d) \in Seq(FileByte)
  BY <1>2, <1>4
<1> QED BY <1>8, <1>9, <1>10

LEMMA RequestIs ==
  ASSUME TransferTypes, NEW t \in X!Transfer
  PROVE  /\ X!Request(t) \in [by : X!Transfer, try : Nat, offset : Nat, data : Seq(FileByte)]
         /\ X!Request(t).by = t /\ X!Request(t).try = xfer[t].try /\ X!Request(t).offset = xfer[t].offset
         /\ t \in Uploader => X!Request(t).data = X!Slice(First(t, source[t]), xfer[t].offset, ChunkBytes)
<1>1. xfer[t].offset \in Nat /\ xfer[t].try \in Nat /\ ChunkBytes \in Nat
  BY SessionAssumption DEF X!FileTransferAssumption, TransferTypes
<1>2. ASSUME t \in Uploader
      PROVE  /\ X!Data(t) = First(t, source[t])
             /\ X!Slice(First(t, source[t]), xfer[t].offset, ChunkBytes) \in Seq(FileByte)
  <2>1. source[t] \in Nat
    BY <1>2 DEF TransferTypes
  <2>2. First(t, source[t]) \in Seq(FileByte)
    BY <1>2, <2>1, FirstBytes
  <2> QED BY <1>1, <2>2, SliceIsPart DEF X!Data, First
<1>3. <<>> \in Seq(FileByte)
  OBVIOUS
<1> QED BY <1>1, <1>2, <1>3 DEF X!Request

LEMMA TransferStarts == X!Init => TransferInv
<1> SUFFICES ASSUME X!Init PROVE TransferInv
  OBVIOUS
<1>0. FirstSize \in Int /\ FirstSize >= -1 /\ Total \in Nat /\ Uploader \cap Downloader = {}
  BY SessionAssumption DEF X!FileTransferAssumption
<1>1. file \in Seq(FileByte)
  <2>1. X!NoFile \in Seq(FileByte)
    BY DEF X!NoFile, FileByte
  <2>2. FirstSize \in Nat => X!Old(FirstSize) \in Seq(FileByte)
    <3>1. \A i \in 1 .. FirstSize : [by |-> "old", at |-> i] \in FileByte
      BY <1>0 DEF FileByte
    <3>2. FirstSize \in Nat => X!Old(FirstSize) \in [1 .. FirstSize -> FileByte]
      BY <3>1 DEF X!Old
    <3> QED BY <3>2, SeqDef
  <2> QED BY <1>0, <2>1, <2>2 DEF X!Init
<1>2. xfer = [t \in X!Transfer |-> X!Idle] /\ source = [u \in Uploader |-> Total] /\ wire = {}
      /\ look = {} /\ held = [d \in Downloader |-> {}] /\ writes = 0 /\ faultsX = 0
  BY DEF X!Init
<1>3. TransferTypes
  <2>1. <<>> \in Seq(FileByte)
    OBVIOUS
  <2>2. X!Idle \in [pc : {"new", "ready", "waiting", "answered", "succeeded", "failed"},
                    offset : Nat, got : Seq(FileByte), answer : Seq(FileByte), size : Nat, try : Nat]
    BY <2>1 DEF X!Idle
  <2> QED BY <1>0, <1>1, <1>2, <2>2 DEF TransferTypes
<1>4. \A t \in X!Transfer : xfer[t] = X!Idle
  BY <1>2
<1>5. Downloads
  BY <1>2, <1>4 DEF Downloads, Alone, X!Under, X!Transfer, X!Idle
<1>6. Uploads
  BY <1>0, <1>2, <1>4 DEF Uploads, X!Transfer, X!Idle
<1> QED BY <1>3, <1>5, <1>6 DEF TransferInv

\* What a step of the client changes of a transfer, and what an arrival does.
LEMMA TransferTypesStep ==
  ASSUME TransferTypes, X!Next
  PROVE  TransferTypes'
<1> DEFINE Requests == [by : X!Transfer, try : Nat, offset : Nat, data : Seq(FileByte)]
           Looked == [by : Downloader, try : Nat, offset : Nat, data : Seq(FileByte)]
<1>0. \A t \in X!Transfer : xfer[t] \in XferRecord
  BY DEF TransferTypes, XferRecord
<1>00. ChunkBytes \in Nat /\ X!Transfer = Uploader \cup Downloader
  BY SessionAssumption DEF X!FileTransferAssumption, X!Transfer
<1>01. xfer \in [X!Transfer -> XferRecord] /\ file \in Seq(FileByte)
  BY DEF TransferTypes, XferRecord
<1>1. ASSUME NEW t \in X!Transfer, X!Send(t) PROVE TransferTypes'
  <2>1. wire' \subseteq Requests
    BY <1>1, RequestIs DEF X!Send, TransferTypes
  <2>2. xfer' \in [X!Transfer -> XferRecord]
    BY <1>0, <1>1 DEF X!Send, TransferTypes, XferRecord
  <2>3. held' \in [Downloader -> SUBSET Seq(FileByte)]
    BY <1>01, <1>1 DEF X!Send, TransferTypes
  <2> QED BY <1>1, <2>1, <2>2, <2>3 DEF X!Send, TransferTypes, XferRecord
<1>2. ASSUME NEW t \in X!Transfer, X!Receive(t) PROVE TransferTypes'
  <2>1. xfer[t].offset + Len(xfer[t].answer) \in Nat /\ xfer[t].got \o xfer[t].answer \in Seq(FileByte)
    BY <1>0 DEF XferRecord
  <2>2. X!Uploaded(t) \in XferRecord /\ X!Downloaded(t) \in XferRecord
    BY <1>0, <2>1 DEF X!Uploaded, X!Downloaded, XferRecord
  <2>3. xfer' \in [X!Transfer -> XferRecord]
    BY <1>2, <2>2 DEF X!Receive, TransferTypes, XferRecord
  <2> QED BY <1>2, <2>3 DEF X!Receive, TransferTypes, XferRecord
<1>3. ASSUME NEW t \in X!Transfer, X!TimesOut(t) PROVE TransferTypes'
  <2>1. xfer' \in [X!Transfer -> XferRecord]
    BY <1>0, <1>3 DEF X!TimesOut, TransferTypes, XferRecord
  <2>2. faultsX' \in Nat /\ UNCHANGED <<file, source, wire, look, held, writes>>
    BY <1>3 DEF X!TimesOut, X!Fault, TransferTypes
  <2> QED BY <2>1, <2>2 DEF TransferTypes, XferRecord
<1>4. ASSUME NEW u \in Uploader, X!Again(u) PROVE TransferTypes'
  <2>1. <<>> \in Seq(FileByte) /\ u \in X!Transfer
    BY <1>00
  <2>2. [X!Idle EXCEPT !.try = xfer[u].try + 1] \in XferRecord
    <3>1. PICK n \in Nat : n = xfer[u].try + 1
      BY <1>0, <2>1 DEF XferRecord
    <3>2. [X!Idle EXCEPT !.try = n] \in XferRecord
      BY <2>1 DEF X!Idle, XferRecord
    <3> QED BY <3>1, <3>2
  <2>3. xfer' \in [X!Transfer -> XferRecord]
    BY <1>4, <2>2 DEF X!Again, TransferTypes, XferRecord
  <2> QED BY <1>4, <2>3 DEF X!Again, TransferTypes, XferRecord
<1>5. ASSUME NEW new \in Seq(FileByte), X!FileBecomes(new)
      PROVE  file' \in Seq(FileByte) /\ held' \in [Downloader -> SUBSET Seq(FileByte)]
  BY <1>5 DEF X!FileBecomes, TransferTypes
<1>6. ASSUME NEW m \in wire, X!ArriveUpload(m), wire' = wire \ {m}, UNCHANGED <<source, writes, faultsX>>
      PROVE  TransferTypes'
  <2>1. m.by \in X!Transfer /\ m.offset \in Nat /\ m.data \in Seq(FileByte)
    BY DEF TransferTypes
  <2>2. X!Overwritten(X!Content, m.offset, m.data) \in Seq(FileByte)
    <3>1. X!Content \in Seq(FileByte)
      BY DEF X!Content, TransferTypes
    <3> QED BY <2>1, <3>1, OverwrittenIs
  <2>3. file' \in Seq(FileByte) /\ held' \in [Downloader -> SUBSET Seq(FileByte)]
    BY <1>5, <1>6, <2>2 DEF X!ArriveUpload
  <2>4. xfer' \in [X!Transfer -> XferRecord]
    <3>1. PICK b \in X!Transfer, a \in Seq(FileByte) : b = m.by /\ a = m.data
      BY <2>1
    <3>2. xfer' = xfer \/ xfer' = [xfer EXCEPT ![b].pc = "answered", ![b].answer = a]
      BY <1>6, <3>1 DEF X!ArriveUpload
    <3>3. [xfer[b] EXCEPT !.pc = "answered", !.answer = a] \in XferRecord
      BY <1>0 DEF XferRecord
    <3>4. [xfer EXCEPT ![b].pc = "answered", ![b].answer = a] \in [X!Transfer -> XferRecord]
      BY <1>01, <3>3
    <3> QED BY <1>01, <3>2, <3>4
  <2> QED BY <1>6, <2>3, <2>4 DEF X!ArriveUpload, TransferTypes, XferRecord
<1>7. ASSUME NEW m \in wire, X!ArriveDownload(m), wire' = wire \ {m}, UNCHANGED <<source, writes, faultsX>>
      PROVE  TransferTypes'
  <2>1. m \in Looked /\ m.by \in X!Transfer /\ Len(file) \in Nat
    <3>1. m \in Requests /\ m.by \in Downloader
      BY <1>7 DEF TransferTypes, X!ArriveDownload
    <3> QED BY <1>00, <1>01, <3>1
  <2>2. look' = look \/ look' = {[req |-> m, size |-> Len(file)]}
    BY <1>7 DEF X!ArriveDownload
  <2>3. look' \subseteq [req : Looked, size : Nat]
    BY <2>1, <2>2 DEF TransferTypes
  <2>4. xfer' \in [X!Transfer -> XferRecord]
    <3>1. PICK b \in X!Transfer : b = m.by
      BY <2>1
    <3>2. xfer' = xfer \/ xfer' = [xfer EXCEPT ![b].pc = "failed"]
      BY <1>7, <3>1 DEF X!ArriveDownload
    <3>3. [xfer[b] EXCEPT !.pc = "failed"] \in XferRecord
      BY <1>0 DEF XferRecord
    <3>4. [xfer EXCEPT ![b].pc = "failed"] \in [X!Transfer -> XferRecord]
      BY <1>01, <3>3
    <3> QED BY <1>01, <3>2, <3>4
  <2> QED BY <1>7, <2>3, <2>4 DEF X!ArriveDownload, TransferTypes, XferRecord
<1>8. ASSUME NEW l \in look, X!Read(l), UNCHANGED <<source, writes, faultsX>> PROVE TransferTypes'
  <2>1. l.req.by \in X!Transfer /\ l.req.offset \in Nat /\ l.size \in Nat
    BY <1>00 DEF TransferTypes
  <2>2. X!Slice(file, l.req.offset, ChunkBytes) \in Seq(FileByte)
    BY <1>00, <1>01, <2>1, SliceIsPart
  <2>3. xfer' \in [X!Transfer -> XferRecord]
    <3>1. PICK b \in X!Transfer, n \in Nat, a \in Seq(FileByte) :
            b = l.req.by /\ n = l.size /\ a = X!Slice(file, l.req.offset, ChunkBytes)
      BY <2>1, <2>2
    <3>2. xfer' = xfer \/ xfer' = [xfer EXCEPT ![b].pc = "answered", ![b].size = n, ![b].answer = a]
      BY <1>8, <3>1 DEF X!Read
    <3>3. [xfer[b] EXCEPT !.pc = "answered", !.size = n, !.answer = a] \in XferRecord
      BY <1>0 DEF XferRecord
    <3>4. [xfer EXCEPT ![b].pc = "answered", ![b].size = n, ![b].answer = a] \in [X!Transfer -> XferRecord]
      BY <1>01, <3>3
    <3> QED BY <1>01, <3>2, <3>4
  <2>4. look' = {} /\ UNCHANGED <<file, wire, held>>
    BY <1>8 DEF X!Read
  <2> QED BY <1>8, <2>3, <2>4 DEF TransferTypes, XferRecord
<1>9. CASE X!Change
  <2>1. X!Fresh \in FileByte
    BY DEF X!Fresh, FileByte, TransferTypes
  <2>2. \A n \in 0 .. Len(file) - 1 : SubSeq(file, 1, n) \in Seq(FileByte)
    BY <1>01
  <2>3. file \o <<X!Fresh>> \in Seq(FileByte) /\ file \o <<X!Fresh, X!Fresh>> \in Seq(FileByte)
    <3>1. <<X!Fresh>> \in Seq(FileByte) /\ <<X!Fresh, X!Fresh>> \in Seq(FileByte)
      BY <2>1
    <3> QED BY <1>01, <3>1
  <2>4. \A i \in DOMAIN file : [file EXCEPT ![i] = X!Fresh] \in Seq(FileByte)
    BY <1>01, <2>1
  <2>5. file' \in Seq(FileByte) /\ held' \in [Downloader -> SUBSET Seq(FileByte)]
    BY <1>5, <1>9, <2>2, <2>3, <2>4 DEF X!Change
  <2>6. writes' \in Nat /\ UNCHANGED <<source, xfer, wire, look, faultsX>>
    BY <1>9 DEF X!Change, TransferTypes
  <2> QED BY <2>5, <2>6 DEF TransferTypes
<1>10. ASSUME NEW u \in Uploader, X!SourceShrinks(u) PROVE TransferTypes'
  <2>1. source[u] - 1 \in Nat
    BY <1>10 DEF X!SourceShrinks, TransferTypes
  <2> QED BY <1>10, <2>1 DEF X!SourceShrinks, TransferTypes
<1> QED BY <1>1, <1>2, <1>3, <1>4, <1>6, <1>7, <1>8, <1>9, <1>10 DEF X!Next, X!Client, X!Arrive

\* A change of the file, seen by a download that is not torn by it.
LEMMA ChangeFollowed ==
  ASSUME TransferTypes, NEW d \in Downloader, NEW new \in Seq(FileByte), X!FileBecomes(new),
         X!Under(d), d \notin torn', d \notin torn => Follows(d),
         xfer'[d] = xfer[d], look' = look
  PROVE  Follows(d)'
<1>1. /\ file' = new /\ held'[d] = held[d] \cup {new} /\ d \notin torn
      /\ \A i \in X!Rewritten(new) : ~X!Expects(d, i)
  BY DEF X!FileBecomes
<1>2. Follows(d) /\ xfer'[d] = xfer[d] /\ look' = look
  BY <1>1
<1>3. X!Known(d)' = X!Known(d)
  BY <1>2 DEF X!Known
<1>4. file \in Seq(FileByte) /\ DOMAIN file = 1 .. Len(file) /\ DOMAIN new = 1 .. Len(new)
  BY DEF TransferTypes
<1>5. \A i \in 1 .. Len(new) : X!Expects(d, i) => i <= Len(file) /\ file[i] = new[i]
  BY <1>1, <1>4 DEF X!Rewritten
<1>6. \A i \in 1 .. Len(X!Known(d)) : i <= Len(new) => X!Known(d)[i] = new[i]
  <2> SUFFICES ASSUME NEW i \in 1 .. Len(X!Known(d)), i <= Len(new) PROVE X!Known(d)[i] = new[i]
    OBVIOUS
  <2>1. X!Expects(d, i) /\ i \in 1 .. Len(new)
    BY DEF X!Expects
  <2> QED BY <1>2, <1>5, <2>1 DEF Follows
<1>7. ASSUME NEW l \in look, l.req.by = d, l.size <= Len(new) PROVE SubSeq(new, 1, l.size) \in held[d]
  <2>1. PICK s \in Nat : s = l.size
    BY DEF TransferTypes
  <2>2. \A i \in 1 .. s : X!Expects(d, i)
    BY <1>7, <2>1 DEF X!Expects, X!Measured
  <2>3. \A i \in 1 .. s : i <= Len(file) /\ file[i] = new[i]
    BY <1>5, <1>7, <2>1, <2>2
  <2>4. s <= Len(file)
    <3>1. CASE s = 0
      BY <1>4, <3>1
    <3>2. CASE s > 0
      <4>1. s \in 1 .. s
        BY <3>2
      <4> QED BY <2>3, <4>1
    <3> QED BY <2>1, <3>1, <3>2
  <2>5. SubSeq(new, 1, s) = SubSeq(file, 1, s)
    <3>1. /\ SubSeq(new, 1, s) \in Seq(FileByte) /\ Len(SubSeq(new, 1, s)) = s
          /\ \A i \in 1 .. s : SubSeq(new, 1, s)[i] = new[i]
      BY <1>7, <2>1
    <3>2. /\ SubSeq(file, 1, s) \in Seq(FileByte) /\ Len(SubSeq(file, 1, s)) = s
          /\ \A i \in 1 .. s : SubSeq(file, 1, s)[i] = file[i]
      BY <1>4, <2>4
    <3> QED BY <2>3, <3>1, <3>2, SeqEqual
  <2> QED BY <1>2, <1>7, <2>1, <2>4, <2>5 DEF Follows
<1> QED BY <1>1, <1>2, <1>3, <1>6, <1>7 DEF Follows

\* The file is measured.
LEMMA LookFollowed ==
  ASSUME TransferTypes, NEW d \in Downloader, Len(xfer[d].got) = xfer[d].offset, Follows(d),
         xfer[d].pc = "waiting", xfer'[d] = xfer[d], UNCHANGED <<file, held>>,
         NEW m, look' = {[req |-> m, size |-> Len(file)]}
  PROVE  Follows(d)'
<1>1. file \in Seq(FileByte) /\ SubSeq(file, 1, Len(file)) = file
  BY SubSeqFull DEF TransferTypes
<1>2. X!Known(d) = xfer[d].got /\ X!Known(d)' = X!Known(d) /\ xfer[d].got \in Seq(FileByte)
  BY SessionAssumption DEF X!Known, TransferTypes, X!Transfer
<1>3. Len(file) = Len(xfer[d].got) => xfer[d].got = file
  BY <1>1, <1>2, SeqEqual DEF Follows
<1>4. \A l \in look' : l.size = Len(file)
  OBVIOUS
<1> QED BY <1>1, <1>2, <1>3, <1>4 DEF Follows

\* A chunk is read.
LEMMA ReadFollowed ==
  ASSUME TransferTypes, NEW d \in Downloader, Len(xfer[d].got) = xfer[d].offset, Follows(d),
         xfer[d].pc = "waiting", NEW l \in look, l.req.by = d, l.req.offset = xfer[d].offset,
         UNCHANGED <<file, held>>, look' = {},
         xfer' = [xfer EXCEPT ![d].pc = "answered", ![d].size = l.size,
                              ![d].answer = X!Slice(file, l.req.offset, ChunkBytes)]
  PROVE  Follows(d)'
<1>0. d \in X!Transfer /\ ChunkBytes \in Nat /\ file \in Seq(FileByte)
  BY SessionAssumption DEF X!FileTransferAssumption, X!Transfer, TransferTypes
<1>1. xfer \in [X!Transfer -> XferRecord] /\ xfer[d] \in XferRecord
  BY <1>0 DEF TransferTypes, XferRecord
<1>2. PICK g \in Seq(FileByte), p \in Nat, s \in Nat :
        g = xfer[d].got /\ p = xfer[d].offset /\ p = Len(g) /\ s = l.size
  BY <1>1 DEF XferRecord, TransferTypes
<1>3. PICK a \in Seq(FileByte) : a = X!Slice(file, p, ChunkBytes)
  BY <1>0, <1>2, SliceIsPart
<1>4. /\ p <= Len(file) => p + Len(a) <= Len(file) /\ \A i \in 1 .. Len(a) : a[i] = file[p + i]
      /\ p >= Len(file) => Len(a) = 0
  <2>1. PICK w \in Seq(FileByte), c \in Nat : w = file /\ c = ChunkBytes /\ a = X!Slice(w, p, c)
    BY <1>0, <1>3
  <2>2. p <= Len(w) => /\ p + Len(X!Slice(w, p, c)) <= Len(w)
                       /\ \A i \in 1 .. Len(X!Slice(w, p, c)) : X!Slice(w, p, c)[i] = w[p + i]
    BY SliceIsPart
  <2>3. p >= Len(w) => Len(X!Slice(w, p, c)) = 0
    BY SliceIsPart
  <2> QED BY <2>1, <2>2, <2>3
<1>5. xfer'[d].pc = "answered" /\ xfer'[d].size = s /\ xfer'[d].answer = a /\ xfer'[d].got = g
  BY <1>0, <1>1, <1>2, <1>3 DEF XferRecord
<1>6. PICK k \in Seq(FileByte) : k = g \o a /\ Len(k) = p + Len(a)
        /\ (\A i \in 1 .. Len(g) : k[i] = g[i]) /\ (\A i \in 1 .. Len(a) : k[p + i] = a[i])
  <2>1. PICK k \in Seq(FileByte) : k = g \o a /\ Len(k) = Len(g) + Len(a)
    <3>1. \A x, y \in Seq(FileByte) : x \o y \in Seq(FileByte) /\ Len(x \o y) = Len(x) + Len(y)
      OBVIOUS
    <3> QED BY <1>2, <1>3, <3>1
  <2>2. \A i \in 1 .. Len(g) + Len(a) : k[i] = IF i <= Len(g) THEN g[i] ELSE a[i - Len(g)]
    BY <1>2, <1>3, <2>1, ConcatProperties
  <2>3. PICK q \in Nat : q = Len(a)
    BY <1>3
  <2>4. ASSUME NEW i \in 1 .. Len(g) PROVE k[i] = g[i]
    BY <1>2, <2>2, <2>3
  <2>5. ASSUME NEW i \in 1 .. Len(a) PROVE k[p + i] = a[i]
    BY <1>2, <2>2, <2>3
  <2> QED BY <1>2, <2>1, <2>4, <2>5
<1>7. X!Known(d)' = k
  BY <1>5, <1>6 DEF X!Known
<1>8. \A i \in 1 .. Len(g) : i <= Len(file) => g[i] = file[i]
  BY <1>2 DEF Follows, X!Known
<1>9. \A i \in 1 .. Len(k) : i <= Len(file) => k[i] = file[i]
  <2> SUFFICES ASSUME NEW i \in 1 .. Len(k), i <= Len(file) PROVE k[i] = file[i]
    OBVIOUS
  <2>1. CASE i <= p
    BY <1>2, <1>6, <1>8, <2>1
  <2>2. CASE i > p
    <3>1. i - p \in 1 .. Len(a) /\ p <= Len(file) /\ p + (i - p) = i
      BY <1>0, <1>2, <1>3, <1>6, <2>2
    <3>2. k[p + (i - p)] = a[i - p] /\ a[i - p] = file[p + (i - p)]
      BY <1>4, <1>6, <3>1
    <3> QED BY <3>1, <3>2
  <2>3. i <= p \/ i > p
    BY <1>2
  <2> QED BY <2>1, <2>2, <2>3, Zenon
<1>10. ASSUME Len(k) = s PROVE k \in held[d]
  <2>1. CASE Len(a) = 0
    <3>1. k = g
      BY <1>6, <2>1
    <3> QED BY <1>2, <1>6, <1>10, <2>1, <3>1 DEF Follows
  <2>2. CASE Len(a) # 0
    <3>1. s <= Len(file)
      <4>1. Len(file) \in Nat /\ Len(a) \in Nat /\ s = p + Len(a)
        BY <1>0, <1>3, <1>6, <1>10
      <4>2. p < Len(file)
        BY <1>2, <1>4, <2>2, <4>1
      <4> QED BY <1>2, <1>4, <4>1, <4>2
    <3>2. /\ SubSeq(file, 1, s) \in Seq(FileByte) /\ Len(SubSeq(file, 1, s)) = s
          /\ \A i \in 1 .. s : SubSeq(file, 1, s)[i] = file[i]
      BY <1>0, <1>2, <3>1
    <3>3. k \in Seq(FileByte) /\ Len(k) = s /\ \A i \in 1 .. s : k[i] = file[i]
      <4>1. \A i \in 1 .. s : i <= Len(file)
        BY <1>0, <1>2, <3>1
      <4> QED BY <1>6, <1>9, <1>10, <4>1
    <3>4. k = SubSeq(file, 1, s)
      <4>1. PICK c \in Seq(FileByte) : c = SubSeq(file, 1, s) /\ Len(c) = s /\ \A i \in 1 .. s : c[i] = file[i]
        BY <3>2
      <4>2. \A i \in 1 .. Len(k) : k[i] = c[i]
        BY <3>3, <4>1
      <4> QED BY <3>3, <4>1, <4>2, SeqEqual
    <3> QED BY <1>2, <3>1, <3>4 DEF Follows
  <2> QED BY <2>1, <2>2
<1>11. file \in held[d]
  BY DEF Follows
<1> QED BY <1>5, <1>7, <1>9, <1>10, <1>11 DEF Follows

LEMMA DownloadsStep ==
  ASSUME TransferTypes, Downloads, X!Next
  PROVE  Downloads'
<1> DEFINE Sound(d) ==
      /\ Len(xfer[d].got) = xfer[d].offset
      /\ xfer[d].pc = "new" => xfer[d].got = <<>>
      /\ xfer[d].pc = "new" \/ X!Under(d) => Alone(d)
      /\ X!Under(d) /\ d \notin torn => Follows(d)
      /\ xfer[d].pc = "succeeded" /\ d \notin torn => xfer[d].got \in held[d]
<1> SUFFICES ASSUME NEW d \in Downloader PROVE Sound(d)'
  BY DEF Downloads
<1>0. /\ d \in X!Transfer /\ d \notin Uploader /\ X!Transfer = Uploader \cup Downloader
      /\ Uploader \cap Downloader = {}
  BY SessionAssumption DEF X!FileTransferAssumption, X!Transfer
<1>1. xfer[d] \in XferRecord /\ Sound(d) /\ xfer \in [X!Transfer -> XferRecord]
  BY <1>0 DEF TransferTypes, XferRecord, Downloads
\* A step that leaves the download, its requests and the file alone.
<1>2. ASSUME xfer'[d] = xfer[d], \A m \in wire' : m.by = d => m \in wire, look' = look, file' = file,
             held'[d] = held[d], torn' = torn
      PROVE  Sound(d)'
  <2>1. X!Under(d)' = X!Under(d) /\ X!Known(d)' = X!Known(d)
    BY <1>2 DEF X!Under, X!Known
  <2>2. Alone(d) => Alone(d)'
    BY <1>2 DEF Alone
  <2>3. Follows(d) => Follows(d)'
    BY <1>2, <2>1 DEF Follows
  <2> QED BY <1>1, <1>2, <2>1, <2>2, <2>3
<1>3. CASE X!Send(d)
  <2>1. /\ xfer'[d] = [xfer[d] EXCEPT !.pc = "waiting"] /\ wire' = wire \cup {X!Request(d)}
        /\ UNCHANGED <<file, look, torn>> /\ xfer[d].pc \in {"new", "ready"}
        /\ held' = IF xfer[d].pc = "ready" \/ d \in Uploader THEN held ELSE [held EXCEPT ![d] = {file}]
    BY <1>0, <1>1, <1>3 DEF X!Send
  <2>2. xfer'[d].pc = "waiting" /\ xfer'[d].got = xfer[d].got /\ xfer'[d].offset = xfer[d].offset
    BY <1>1, <2>1 DEF XferRecord
  <2>3. (\A m \in wire : m.by # d) /\ (\A l \in look : l.req.by # d)
    BY <1>1, <2>1 DEF X!Under, Alone
  <2>4. Alone(d)'
    BY <2>1, <2>2, <2>3 DEF Alone
  <2>5. X!Known(d)' = xfer[d].got /\ X!Known(d) = xfer[d].got /\ Len(<<>>) = 0
    BY <2>1, <2>2 DEF X!Known
  <2>6. CASE xfer[d].pc = "new"
    <3>1. xfer[d].got = <<>> /\ held'[d] = {file}
      BY <1>0, <1>1, <2>1, <2>6 DEF TransferTypes
    <3>2. Follows(d)'
      BY <2>1, <2>2, <2>3, <2>5, <3>1 DEF Follows
    <3> QED BY <1>1, <2>2, <2>4, <3>2
  <2>7. CASE xfer[d].pc = "ready"
    <3>1. held' = held /\ (d \notin torn => Follows(d))
      BY <1>1, <2>1, <2>7 DEF X!Under
    <3>2. d \notin torn => Follows(d)'
      BY <2>1, <2>2, <2>3, <2>5, <3>1 DEF Follows
    <3> QED BY <1>1, <2>1, <2>2, <2>4, <3>2
  <2> QED BY <2>1, <2>6, <2>7
<1>4. CASE X!Receive(d)
  <2>1. xfer[d].pc = "answered" /\ xfer'[d] = X!Downloaded(d) /\ UNCHANGED <<file, wire, look, held, torn>>
    BY <1>0, <1>1, <1>4 DEF X!Receive
  <2>2. PICK a \in Seq(FileByte), g \in Seq(FileByte), k \in Seq(FileByte) :
          a = xfer[d].answer /\ g = xfer[d].got /\ k = g \o a /\ Len(k) = Len(g) + Len(a)
    <3>1. xfer[d].answer \in Seq(FileByte) /\ xfer[d].got \in Seq(FileByte)
      BY <1>1 DEF XferRecord
    <3>2. \A x, y \in Seq(FileByte) : x \o y \in Seq(FileByte) /\ Len(x \o y) = Len(x) + Len(y)
      OBVIOUS
    <3> QED BY <3>1, <3>2
  <2>3. X!Known(d) = k
    BY <2>1, <2>2 DEF X!Known
  <2>4. /\ xfer'[d].got = k /\ xfer'[d].offset = Len(k)
        /\ xfer'[d].pc \in {"ready", "failed", "succeeded"}
        /\ xfer'[d].pc = "succeeded" => Len(k) = xfer[d].size
    BY <1>1, <2>1, <2>2 DEF X!Downloaded, XferRecord
  <2>5. X!Known(d)' = k
    BY <2>4 DEF X!Known
  <2>6. (\A m \in wire : m.by # d) /\ (\A l \in look : l.req.by # d)
    BY <1>1, <2>1 DEF X!Under, Alone
  <2>7. Alone(d)'
    BY <2>1, <2>6 DEF Alone
  <2>8. d \notin torn => Follows(d)
    BY <1>1, <2>1 DEF X!Under
  <2>9. d \notin torn => Follows(d)'
    BY <2>1, <2>3, <2>4, <2>5, <2>6, <2>8 DEF Follows
  <2>10. xfer'[d].pc = "succeeded" /\ d \notin torn => k \in held[d]
    BY <2>1, <2>3, <2>4, <2>8 DEF Follows
  <2> QED BY <2>1, <2>4, <2>7, <2>9, <2>10
<1>5. CASE X!TimesOut(d)
  <2>1. xfer'[d].pc = "failed" /\ xfer'[d].got = xfer[d].got /\ xfer'[d].offset = xfer[d].offset
    BY <1>0, <1>1, <1>5 DEF X!TimesOut, XferRecord
  <2> QED BY <1>1, <2>1 DEF X!Under
<1>6. ASSUME NEW t \in X!Transfer, t # d, X!Send(t) \/ X!Receive(t) \/ X!TimesOut(t) PROVE Sound(d)'
  <2>1. xfer'[d] = xfer[d] /\ UNCHANGED <<look, file, torn>>
    BY <1>0, <1>1, <1>6 DEF X!Send, X!Receive, X!TimesOut
  <2>2. \A m \in wire' : m.by = d => m \in wire
    BY <1>6, RequestIs DEF X!Send, X!Receive, X!TimesOut
  <2>3. held'[d] = held[d]
    BY <1>6 DEF X!Send, X!Receive, X!TimesOut, TransferTypes
  <2> QED BY <1>2, <2>1, <2>2, <2>3
<1>7. ASSUME NEW u \in Uploader, X!Again(u) \/ X!SourceShrinks(u) PROVE Sound(d)'
  <2>1. xfer'[d] = xfer[d] /\ UNCHANGED <<wire, look, file, held, torn>>
    BY <1>0, <1>1, <1>7 DEF X!Again, X!SourceShrinks
  <2> QED BY <1>2, <2>1
<1>8. ASSUME NEW new \in Seq(FileByte), X!FileBecomes(new), xfer'[d] = xfer[d], look' = look,
             \A m \in wire' : m \in wire
      PROVE  Sound(d)'
  <2>1. X!Under(d)' = X!Under(d) /\ torn \subseteq torn'
    BY <1>8 DEF X!Under, X!FileBecomes
  <2>2. Alone(d) => Alone(d)'
    BY <1>8 DEF Alone
  <2>3. X!Under(d) /\ d \notin torn' => Follows(d)'
    BY <1>1, <1>8, <2>1, ChangeFollowed
  <2>4. held[d] \subseteq held'[d]
    BY <1>8 DEF X!FileBecomes
  <2> QED BY <1>1, <1>8, <2>1, <2>2, <2>3, <2>4
<1>9. ASSUME NEW m \in wire, X!ArriveUpload(m), wire' = wire \ {m} PROVE Sound(d)'
  <2>1. m.by \in X!Transfer /\ m.offset \in Nat /\ m.data \in Seq(FileByte) /\ m.by # d
    BY <1>0, <1>9 DEF TransferTypes, X!ArriveUpload
  <2>2. X!Overwritten(X!Content, m.offset, m.data) \in Seq(FileByte)
    <3>1. X!Content \in Seq(FileByte)
      BY DEF X!Content, TransferTypes
    <3> QED BY <2>1, <3>1, OverwrittenIs
  <2>3. X!FileBecomes(X!Overwritten(X!Content, m.offset, m.data)) /\ look' = look
    BY <1>9 DEF X!ArriveUpload
  <2>4. xfer'[d] = xfer[d]
    BY <1>0, <1>1, <1>9, <2>1 DEF X!ArriveUpload
  <2> QED BY <1>8, <1>9, <2>2, <2>3, <2>4
<1>10. CASE X!Change
  <2>1. X!Fresh \in FileByte /\ file \in Seq(FileByte)
    BY DEF X!Fresh, FileByte, TransferTypes
  <2>2. PICK new : /\ X!FileBecomes(new)
                   /\ \/ \E n \in 0 .. Len(file) - 1 : new = SubSeq(file, 1, n)
                      \/ new = file \o <<X!Fresh>> \/ new = file \o <<X!Fresh, X!Fresh>>
                      \/ \E i \in DOMAIN file : new = [file EXCEPT ![i] = X!Fresh]
    BY <1>10 DEF X!Change
  <2>3. new \in Seq(FileByte)
    <3>1. <<X!Fresh>> \in Seq(FileByte) /\ <<X!Fresh, X!Fresh>> \in Seq(FileByte)
      BY <2>1
    <3>2. \A n \in 0 .. Len(file) - 1 : SubSeq(file, 1, n) \in Seq(FileByte)
      BY <2>1
    <3>3. file \o <<X!Fresh>> \in Seq(FileByte) /\ file \o <<X!Fresh, X!Fresh>> \in Seq(FileByte)
      BY <2>1, <3>1
    <3>4. \A i \in DOMAIN file : [file EXCEPT ![i] = X!Fresh] \in Seq(FileByte)
      BY <2>1
    <3> QED BY <2>2, <3>2, <3>3, <3>4
  <2>4. UNCHANGED <<xfer, wire, look>>
    BY <1>10 DEF X!Change
  <2>5. xfer'[d] = xfer[d] /\ look' = look /\ \A m \in wire' : m \in wire
    BY <2>4
  <2> QED BY <1>8, <2>2, <2>3, <2>5
<1>11. ASSUME NEW m \in wire, X!ArriveDownload(m), look = {}, wire' = wire \ {m} PROVE Sound(d)'
  <2>1. m.by \in X!Transfer /\ UNCHANGED <<file, held, torn>>
    BY <1>11 DEF TransferTypes, X!ArriveDownload
  <2>2. CASE look' = look /\ (xfer'[d] = xfer[d])
    BY <1>2, <1>11, <2>1, <2>2
  <2>3. CASE xfer' = [xfer EXCEPT ![d].pc = "failed"]
    <3>1. xfer'[d].pc = "failed" /\ xfer'[d].got = xfer[d].got /\ xfer'[d].offset = xfer[d].offset
      BY <1>0, <1>1, <2>3 DEF XferRecord
    <3> QED BY <1>1, <3>1 DEF X!Under
  <2>4. CASE look' = {[req |-> m, size |-> Len(file)]} /\ xfer' = xfer
    <3>1. CASE m.by = d /\ (xfer[d].pc = "new" \/ X!Under(d))
      <4>1. xfer[d].pc = "waiting" /\ \A n \in wire' : n.by # d
        BY <1>1, <1>11, <3>1 DEF Alone
      <4>2. Alone(d)'
        BY <2>4, <4>1 DEF Alone
      <4>3. d \notin torn => Follows(d)'
        BY <1>1, <2>1, <2>4, <4>1, LookFollowed DEF X!Under
      <4> QED BY <1>1, <2>1, <2>4, <4>1, <4>2, <4>3
    <3>2. CASE m.by # d /\ (xfer[d].pc = "new" \/ X!Under(d))
      <4>1. \A l \in look' : l.req.by # d
        BY <2>4, <3>2
      <4>2. Alone(d)'
        BY <1>1, <1>11, <2>4, <3>2, <4>1 DEF Alone
      <4>3. X!Known(d)' = X!Known(d) /\ X!Under(d)' = X!Under(d)
        BY <2>4 DEF X!Known, X!Under
      <4>4. Follows(d) => Follows(d)'
        BY <2>1, <2>4, <4>1, <4>3 DEF Follows
      <4> QED BY <1>1, <2>1, <2>4, <4>2, <4>3, <4>4
    <3>3. CASE ~(xfer[d].pc = "new" \/ X!Under(d))
      BY <1>1, <2>1, <2>4, <3>3 DEF X!Under
    <3> QED BY <3>1, <3>2, <3>3
  <2>5. \/ look' = {[req |-> m, size |-> Len(file)]} /\ xfer' = xfer
        \/ look' = look /\ xfer' = xfer
        \/ look' = look /\ xfer' = [xfer EXCEPT ![m.by].pc = "failed"]
    BY <1>11 DEF X!ArriveDownload
  <2>6. xfer' = [xfer EXCEPT ![m.by].pc = "failed"] /\ m.by # d => xfer'[d] = xfer[d]
    BY <1>0, <1>1, <2>1
  <2> QED BY <2>2, <2>3, <2>4, <2>5, <2>6
<1>12. ASSUME NEW l \in look, X!Read(l) PROVE Sound(d)'
  <2>1. look' = {} /\ UNCHANGED <<file, wire, held, torn>> /\ l.req.by \in X!Transfer
    BY <1>0, <1>12 DEF X!Read, TransferTypes
  <2>2. CASE xfer'[d] = xfer[d]
    <3>1. X!Known(d)' = X!Known(d) /\ X!Under(d)' = X!Under(d)
      BY <2>2 DEF X!Known, X!Under
    <3>2. (Alone(d) => Alone(d)') /\ (Follows(d) => Follows(d)')
      BY <2>1, <2>2, <3>1 DEF Alone, Follows
    <3> QED BY <1>1, <2>1, <2>2, <3>1, <3>2
  <2>3. CASE l.req.by = d /\ X!Awaited(l.req)
    <3>1. xfer[d].pc = "waiting" /\ l.req.offset = xfer[d].offset
      BY <2>3 DEF X!Awaited
    <3>2. xfer' = [xfer EXCEPT ![d].pc = "answered", ![d].size = l.size,
                               ![d].answer = X!Slice(file, l.req.offset, ChunkBytes)]
      BY <1>12, <2>3 DEF X!Read
    <3>3. xfer'[d].pc = "answered" /\ xfer'[d].got = xfer[d].got /\ xfer'[d].offset = xfer[d].offset
      BY <1>0, <1>1, <3>2 DEF XferRecord
    <3>4. Alone(d) /\ \A m \in wire : m.by # d
      BY <1>1, <2>3, <3>1 DEF Alone, X!Under
    <3>5. Alone(d)'
      BY <2>1, <3>4 DEF Alone
    <3>6. d \notin torn => Follows(d)'
      BY <1>1, <2>1, <2>3, <3>1, <3>2, ReadFollowed DEF X!Under
    <3> QED BY <1>1, <2>1, <3>3, <3>5, <3>6
  <2>4. xfer'[d] = xfer[d] \/ (l.req.by = d /\ X!Awaited(l.req))
    BY <1>0, <1>1, <1>12, <2>1 DEF X!Read
  <2> QED BY <2>2, <2>3, <2>4
<1> QED
  BY <1>3, <1>4, <1>5, <1>6, <1>7, <1>9, <1>10, <1>11, <1>12 DEF X!Next, X!Client, X!Arrive

LEMMA UploadsStep ==
  ASSUME TransferTypes, Uploads, X!Next
  PROVE  Uploads'
<1> SUFFICES ASSUME NEW u \in Uploader, faultsX' = 0, writes' = 0, Uploader = {u}
             PROVE  /\ source'[u] = Total /\ xfer'[u].try = 0 /\ xfer'[u].offset <= Total
                    /\ xfer'[u].pc = "new" => xfer'[u].offset = 0
                    /\ \A m \in wire' : m.by = u => xfer'[u].pc = "waiting" /\ m = X!Request(u)'
                    /\ xfer'[u].pc \in {"ready", "waiting"} /\ xfer'[u].offset > 0 =>
                         file' = First(u, xfer'[u].offset)
                    /\ xfer'[u].pc = "succeeded" => file' = First(u, Total)
                    /\ xfer'[u].pc = "answered" =>
                         /\ file' = First(u, xfer'[u].offset + Len(xfer'[u].answer))
                         /\ xfer'[u].offset + Len(xfer'[u].answer) <= Total
  BY DEF Uploads, First
<1>0. /\ X!Transfer = Uploader \cup Downloader /\ Uploader \cap Downloader = {}
      /\ ChunkBytes \in Nat /\ Total \in Nat /\ u \in X!Transfer
  BY SessionAssumption DEF X!FileTransferAssumption, X!Transfer
<1>1. xfer[u] \in XferRecord /\ xfer \in [X!Transfer -> XferRecord] /\ faultsX \in Nat /\ writes \in Nat
  BY <1>0 DEF TransferTypes, XferRecord
<1> DEFINE Upload(v) ==
      /\ source[v] = Total /\ xfer[v].try = 0 /\ xfer[v].offset <= Total
      /\ xfer[v].pc = "new" => xfer[v].offset = 0
      /\ \A m \in wire : m.by = v => xfer[v].pc = "waiting" /\ m = X!Request(v)
      /\ xfer[v].pc \in {"ready", "waiting"} /\ xfer[v].offset > 0 => file = First(v, xfer[v].offset)
      /\ xfer[v].pc = "succeeded" => file = First(v, Total)
      /\ xfer[v].pc = "answered" =>
           /\ file = First(v, xfer[v].offset + Len(xfer[v].answer))
           /\ xfer[v].offset + Len(xfer[v].answer) <= Total
<1>2. faultsX = 0 /\ writes = 0 => Upload(u)
  BY DEF Uploads
\* A step that leaves the upload and the file alone and adds no request of it.
<1>3. ASSUME faultsX = 0, writes = 0, xfer'[u] = xfer[u], source'[u] = source[u], file' = file,
             \A m \in wire' : m.by = u => m \in wire
      PROVE  Upload(u)'
  <2>1. X!Request(u)' = X!Request(u)
    BY <1>3 DEF X!Request, X!Data
  <2> QED BY <1>2, <1>3, <2>1
<1>4. CASE X!Send(u)
  <2>1. faultsX = 0 /\ writes = 0 /\ source' = source /\ file' = file /\ wire' = wire \cup {X!Request(u)}
        /\ xfer[u].pc \in {"new", "ready"}
    BY <1>4 DEF X!Send
  <2>2. xfer' = [xfer EXCEPT ![u].pc = "waiting"]
    BY <1>4 DEF X!Send
  <2>3. /\ xfer'[u].pc = "waiting" /\ xfer'[u].try = xfer[u].try /\ xfer'[u].offset = xfer[u].offset
    BY <1>0, <1>1, <2>2 DEF XferRecord
  <2>4. X!Request(u)' = X!Request(u)
    BY <2>1, <2>3 DEF X!Request, X!Data
  <2>5. \A m \in wire : m.by # u
    BY <1>2, <2>1
  <2>6. xfer[u].offset > 0 => file = First(u, xfer[u].offset)
    BY <1>2, <2>1
  <2>7. source[u] = Total /\ xfer[u].try = 0 /\ xfer[u].offset <= Total
    BY <1>2, <2>1
  <2> QED BY <2>1, <2>3, <2>4, <2>5, <2>6, <2>7
<1>5. CASE X!Receive(u)
  <2>1. UNCHANGED <<faultsX, writes, source, file, wire>> /\ xfer[u].pc = "answered"
        /\ xfer'[u] = X!Uploaded(u)
    BY <1>0, <1>1, <1>5 DEF X!Receive
  <2>2. PICK end \in Nat : end = xfer[u].offset + Len(xfer[u].answer)
    BY <1>1 DEF XferRecord
  <2>3. /\ xfer'[u].offset = end /\ xfer'[u].try = xfer[u].try
        /\ xfer'[u].pc \in {"succeeded", "failed", "ready"}
        /\ xfer'[u].pc = "succeeded" => end >= Total
    BY <1>1, <2>1, <2>2 DEF X!Uploaded, XferRecord
  <2>4. Upload(u)
    BY <1>2, <2>1
  <2>5. \A m \in wire : m.by # u
    BY <2>1, <2>4
  <2>6. file = First(u, end) /\ end <= Total /\ source[u] = Total /\ xfer[u].try = 0
    BY <2>1, <2>2, <2>4
  <2>7. xfer'[u].pc = "succeeded" => end = Total
    BY <1>0, <2>2, <2>3, <2>6
  <2> QED BY <2>1, <2>3, <2>5, <2>6, <2>7
<1>6. ASSUME NEW t \in X!Transfer, t # u, X!Send(t) \/ X!Receive(t) PROVE Upload(u)'
  <2>1. xfer'[u] = xfer[u] /\ UNCHANGED <<faultsX, writes, source, file>>
    BY <1>0, <1>1, <1>6 DEF X!Send, X!Receive
  <2>2. \A m \in wire' : m.by = u => m \in wire
    BY <1>6, RequestIs DEF X!Send, X!Receive
  <2> QED BY <1>3, <2>1, <2>2
<1>7. ASSUME NEW t \in X!Transfer, X!TimesOut(t) PROVE FALSE
  BY <1>1, <1>7 DEF X!TimesOut, X!Fault
<1>8. CASE X!Change \/ X!SourceShrinks(u)
  BY <1>1, <1>8 DEF X!Change, X!SourceShrinks
<1>9. CASE X!Again(u)
  <2>1. faultsX = 0 /\ xfer[u].try < faultsX /\ xfer[u].try \in Nat
    BY <1>1, <1>9 DEF X!Again, XferRecord
  <2> QED BY <2>1
<1>10. ASSUME NEW m \in wire, X!ArriveDownload(m), wire' = wire \ {m}, UNCHANGED <<source, writes, faultsX>>
       PROVE  Upload(u)'
  <2>1. m.by # u /\ m.by \in X!Transfer
    BY <1>0, <1>10 DEF X!ArriveDownload
  <2>2. xfer'[u] = xfer[u] /\ file' = file
    BY <1>0, <1>1, <1>10, <2>1 DEF X!ArriveDownload
  <2> QED BY <1>3, <1>10, <2>2
<1>12. ASSUME NEW l \in look, X!Read(l), UNCHANGED <<source, writes, faultsX>> PROVE Upload(u)'
  <2>1. faultsX = 0 /\ writes = 0 /\ UNCHANGED <<file, wire, source>>
    BY <1>12 DEF X!Read
  <2>2. l.req.by \in X!Transfer /\ (l.req.by = u => ~X!Awaited(l.req))
    BY <1>0, <1>12 DEF TransferTypes
  <2>3. xfer'[u] = xfer[u]
    BY <1>0, <1>1, <1>12, <2>2 DEF X!Read
  <2> QED BY <1>3, <2>1, <2>3
<1>11. ASSUME NEW m \in wire, X!ArriveUpload(m), wire' = wire \ {m}, UNCHANGED <<source, writes, faultsX>>
       PROVE  Upload(u)'
  <2>1. m.by = u /\ faultsX = 0 /\ writes = 0
    BY <1>11 DEF X!ArriveUpload
  <2>2. Upload(u)
    BY <1>2, <2>1
  <2>3. xfer[u].pc = "waiting" /\ m = X!Request(u)
    BY <2>1, <2>2
  <2>4. PICK p \in 0 .. Total : p = xfer[u].offset
    BY <1>0, <1>1, <2>2 DEF XferRecord
  <2>5. m.try = xfer[u].try /\ m.offset = p /\ m.data = X!Slice(First(u, Total), p, ChunkBytes)
    BY <1>0, <2>2, <2>3, <2>4, RequestIs
  <2>6. xfer' = [xfer EXCEPT ![u].pc = "answered", ![u].answer = m.data]
    BY <1>11, <2>1, <2>3, <2>4, <2>5 DEF X!ArriveUpload, X!Awaited
  <2>7. /\ xfer'[u].pc = "answered" /\ xfer'[u].answer = m.data /\ xfer'[u].offset = p
        /\ xfer'[u].try = xfer[u].try
    BY <1>0, <1>1, <2>4, <2>6 DEF XferRecord
  <2>8. m.data \in Seq(FileByte) /\ p + Len(m.data) <= Total /\ First(u, p) \o m.data = First(u, p + Len(m.data))
    <3>1. p \in Nat /\ p <= Total /\ Total \in Nat /\ ChunkBytes \in Nat
      BY <1>0
    <3>2. \A d : d = X!Slice(First(u, Total), p, ChunkBytes) =>
            d \in Seq(FileByte) /\ p + Len(d) <= Total /\ First(u, p) \o d = First(u, p + Len(d))
      BY <3>1, NextChunk, Zenon
    <3> QED BY <2>5, <3>2
  <2>9. file' = First(u, p + Len(m.data))
    <3>1. file' = X!Overwritten(X!Content, p, m.data)
      BY <1>11, <2>5 DEF X!ArriveUpload, X!FileBecomes
    <3>2. X!Content \in Seq(FileByte)
      BY DEF X!Content, TransferTypes
    <3>3. CASE p = 0
      <4>1. file' = m.data
        BY <2>8, <3>1, <3>2, <3>3, OverwrittenIs
      <4>2. First(u, 0) = <<>>
        <5>1. PICK n \in Nat : n = 0
          OBVIOUS
        <5>2. First(u, n) \in Seq(FileByte) /\ Len(First(u, n)) = n
          BY FirstBytes
        <5> QED BY <5>1, <5>2
      <4>3. <<>> \o m.data = m.data
        BY <2>8
      <4> QED BY <2>8, <3>3, <4>1, <4>2, <4>3
    <3>4. CASE p > 0
      <4>1. file = First(u, p) /\ p \in Nat
        BY <2>2, <2>3, <2>4, <3>4
      <4>2. file \in Seq(FileByte) /\ Len(file) = p /\ file[1] = [by |-> u, at |-> 1]
        BY <3>4, <4>1, FirstBytes
      <4>3. file # X!NoFile
        BY <4>2 DEF X!NoFile
      <4>4. X!Content = file
        BY <4>3 DEF X!Content
      <4>5. X!Overwritten(file, p, m.data) = file \o m.data
        BY <2>8, <4>1, <4>2, OverwrittenIs
      <4> QED BY <2>8, <3>1, <4>1, <4>4, <4>5
    <3> QED BY <3>3, <3>4
  <2>10. \A n \in wire' : n.by # u
    <3>1. \A n \in wire : n.by = u => n = m
      BY <2>2, <2>3
    <3> QED BY <1>11, <3>1
  <2>11. source'[u] = Total /\ xfer[u].try = 0
    BY <1>11, <2>2
  <2> QED BY <1>0, <2>4, <2>7, <2>8, <2>9, <2>10, <2>11
<1> QED BY <1>4, <1>5, <1>6, <1>7, <1>8, <1>9, <1>10, <1>11, <1>12 DEF X!Next, X!Client, X!Arrive

LEMMA TransferStep ==
  ASSUME TransferInv, [X!Next]_xVars
  PROVE  TransferInv'
<1>1. CASE UNCHANGED xVars
  <2>1. TransferTypes'
    BY <1>1 DEF xVars, TransferInv, TransferTypes
  <2>2. Downloads'
    BY <1>1 DEF xVars, TransferInv, Downloads, Alone, Follows, X!Under, X!Known
  <2>3. Uploads'
    BY <1>1 DEF xVars, TransferInv, Uploads, X!Request, X!Data, First
  <2> QED BY <2>1, <2>2, <2>3 DEF TransferInv
<1>2. CASE X!Next
  BY <1>2, TransferTypesStep, DownloadsStep, UploadsStep DEF TransferInv
<1> QED BY <1>1, <1>2

LEMMA TransfersAreSound == TransferInv => X!UploadWhole /\ X!DownloadIsVersion
<1> SUFFICES ASSUME TransferInv PROVE X!UploadWhole /\ X!DownloadIsVersion
  OBVIOUS
<1>1. X!DownloadIsVersion
  BY DEF TransferInv, Downloads, X!DownloadIsVersion
<1>2. X!UploadWhole
  BY DEF TransferInv, Uploads, X!UploadWhole, X!Data, First
<1> QED BY <1>1, <1>2

-----------------------------------------------------------------------------
(* Artifacts.                                                              *)

\* The largest of the first numbers.
LEMMA LargestIs ==
  ASSUME NEW n \in Nat, NEW s \in SUBSET (1 .. n), n \in s
  PROVE  A!Max(s) = n
<1>1. n \in s /\ \A y \in s : n >= y
  OBVIOUS
<1>2. \A x \in s : (\A y \in s : x >= y) => x = n
  OBVIOUS
<1> QED BY <1>1, <1>2, Zenon DEF A!Max

\* What FoldLeft adds up, from the first entry on: its recursion is over the subsets of the
\* domain, and has a solution for each number of entries.
LEMMA SizesSum ==
  ASSUME NEW es \in Seq([id : Nat, size : Nat])
  PROVE  \E h \in [0 .. Len(es) -> Nat] :
           /\ h[0] = 0 /\ \A k \in 1 .. Len(es) : h[k] = h[k - 1] + es[k].size
           /\ A!SizeOf(es) = h[Len(es)]
<1> DEFINE Is(g, n) == g = [s \in SUBSET (1 .. n) |->
                              IF s = {} THEN 0 ELSE g[s \ {A!Max(s)}] + es[A!Max(s)].size]
           it == CHOOSE g : Is(g, Len(es))
           Without == {n \in 0 .. Len(es) : ~\E g : Is(g, n)}
<1>0. Len(es) \in Nat /\ DOMAIN es = 1 .. Len(es) /\ \A k \in 1 .. Len(es) : es[k].size \in Nat
  <2>1. \A k \in 1 .. Len(es) : es[k] \in [id : Nat, size : Nat]
    BY ElementOfSeq
  <2> QED BY <2>1, LenProperties
<1>1. A!SizeOf(es) = it[1 .. Len(es)]
  BY <1>0 DEF A!SizeOf, A!FoldLeft, A!MapThenFoldSet
<1>2. Is([s \in SUBSET (1 .. 0) |-> 0], 0)
  OBVIOUS
<1>3. ASSUME NEW n \in Nat, NEW f, Is(f, n)
      PROVE  \E g : Is(g, n + 1)
  <2>1. PICK g : g = [s \in SUBSET (1 .. n + 1) |->
                       IF n + 1 \in s THEN f[s \ {n + 1}] + es[n + 1].size ELSE f[s]]
    OBVIOUS
  <2>2. ASSUME NEW s \in SUBSET (1 .. n + 1)
        PROVE  g[s] = IF s = {} THEN 0 ELSE g[s \ {A!Max(s)}] + es[A!Max(s)].size
    <3>1. CASE n + 1 \in s
      <4>1. A!Max(s) = n + 1
        BY <3>1, LargestIs
      <4>2. s \ {n + 1} \in SUBSET (1 .. n + 1) /\ ~(n + 1 \in s \ {n + 1}) /\ s # {}
        BY <3>1
      <4>3. g[s \ {n + 1}] = f[s \ {n + 1}] /\ g[s] = f[s \ {n + 1}] + es[n + 1].size
        BY <2>1, <3>1, <4>2, Zenon
      <4> QED BY <4>1, <4>2, <4>3, Zenon
    <3>2. CASE n + 1 \notin s
      <4>1. s \in SUBSET (1 .. n) /\ s \ {A!Max(s)} \in SUBSET (1 .. n)
        <5>1. \A x \in s : x \in 1 .. n
          BY <3>2
        <5> QED BY <5>1, Zenon
      <4>2. s \ {A!Max(s)} \in SUBSET (1 .. n + 1) /\ n + 1 \notin s \ {A!Max(s)}
        BY <3>2
      <4>3. g[s] = f[s] /\ g[s \ {A!Max(s)}] = f[s \ {A!Max(s)}]
        BY <2>1, <3>2, <4>2, Zenon
      <4>4. f[s] = IF s = {} THEN 0 ELSE f[s \ {A!Max(s)}] + es[A!Max(s)].size
        BY <1>3, <4>1, Zenon
      <4> QED BY <4>3, <4>4, Zenon
    <3> QED BY <3>1, <3>2
  <2>3. DOMAIN g = SUBSET (1 .. n + 1)
    BY <2>1, Zenon
  <2>4. g = [s \in SUBSET (1 .. n + 1) |-> g[s]]
    BY <2>1, <2>3, Zenon
  <2>5. Is(g, n + 1)
    BY <2>2, <2>4, Zenon
  <2> QED BY <2>5
<1>4. Without = {}
  <2> SUFFICES ASSUME Without # {} PROVE FALSE
    OBVIOUS
  <2>0. Without \subseteq Nat
    BY <1>0
  <2>1. PICK n \in Without : \A k \in Without : n <= k
    <3> HIDE DEF Without
    <3> QED BY <2>0, LeastNumber
  <2>2. n \in 0 .. Len(es) /\ ~\E g : Is(g, n)
    OBVIOUS
  <2>3. n # 0
    BY <1>2, <2>2, Zenon
  <2>4. n - 1 \in 0 .. Len(es) /\ n - 1 \in Nat /\ (n - 1) + 1 = n
    BY <1>0, <2>2, <2>3
  <2>5. n - 1 \notin Without
    <3> HIDE DEF Without
    <3> QED BY <2>1, <2>2, <2>4
  <2>6. \E g : Is(g, n - 1)
    BY <2>4, <2>5, Zenon
  <2> HIDE DEF Is
  <2>7. \E g : Is(g, (n - 1) + 1)
    BY <1>3, <2>4, <2>6, Zenon
  <2> QED BY <2>2, <2>4, <2>7
<1>5. Is(it, Len(es))
  <2>0. Len(es) \in 0 .. Len(es)
    BY <1>0
  <2>1. \E g : Is(g, Len(es))
    BY <2>0, <1>4, Zenon
  <2> HIDE DEF Is
  <2> QED BY <2>1, Zenon
<1> DEFINE h == [k \in 0 .. Len(es) |-> it[1 .. k]]
<1>6. \A s \in SUBSET (1 .. Len(es)) : it[s] = IF s = {} THEN 0 ELSE it[s \ {A!Max(s)}] + es[A!Max(s)].size
  BY <1>5, Zenon
<1> HIDE DEF it, Is
<1>7. h[0] = 0
  <2>1. 1 .. 0 = {} /\ 0 \in 0 .. Len(es) /\ {} \in SUBSET (1 .. Len(es))
    BY <1>0
  <2>2. h[0] = it[{}]
    BY <2>1
  <2> QED BY <2>1, <2>2, <1>6, Zenon
<1>8. ASSUME NEW k \in 1 .. Len(es) PROVE h[k] = h[k - 1] + es[k].size
  <2>1. 1 .. k \in SUBSET (1 .. k) /\ k \in 1 .. k /\ k \in Nat
    OBVIOUS
  <2>2. A!Max(1 .. k) = k
    BY <2>1, LargestIs
  <2>3. 1 .. k \in SUBSET (1 .. Len(es)) /\ 1 .. k # {}
    <3>1. \A x \in 1 .. k : x \in 1 .. Len(es)
      BY <1>0
    <3> QED BY <2>1, <3>1, Zenon
  <2>6. (1 .. k) \ {k} = 1 .. (k - 1)
    OBVIOUS
  <2>4. it[1 .. k] = it[1 .. (k - 1)] + es[k].size
    BY <1>6, <2>2, <2>3, <2>6, Zenon
  <2>5. k \in 0 .. Len(es) /\ k - 1 \in 0 .. Len(es)
    BY <1>0
  <2> QED BY <2>4, <2>5
<1> DEFINE Other == {n \in 0 .. Len(es) : h[n] \notin Nat}
<1>9. Other = {}
  <2> SUFFICES ASSUME Other # {} PROVE FALSE
    OBVIOUS
  <2>0. Other \subseteq Nat
    BY <1>0
  <2>1. PICK n \in Other : \A k \in Other : n <= k
    <3> HIDE DEF Other
    <3> QED BY <2>0, LeastNumber
  <2>2. n \in 0 .. Len(es) /\ h[n] \notin Nat /\ n # 0
    BY <1>7
  <2> HIDE DEF h
  <2>3. n \in 1 .. Len(es) /\ n - 1 \in 0 .. Len(es) /\ h[n - 1] \in Nat /\ n \in Nat
    BY <1>0, <2>1, <2>2
  <2>4. h[n] = h[n - 1] + es[n].size
    BY <1>8, <2>3
  <2> QED BY <1>0, <2>2, <2>3, <2>4
<1>10. h \in [0 .. Len(es) -> Nat]
  BY <1>9
<1>11. A!SizeOf(es) = h[Len(es)]
  BY <1>0, <1>1
<1> HIDE DEF h
<1> QED BY <1>7, <1>8, <1>10, <1>11

Entry == [id : Nat, size : Nat]

\* The sizes of a sequence, added up as far as n.
Sums(es, h) ==
  /\ h \in [0 .. Len(es) -> Nat]
  /\ h[0] = 0 /\ \A k \in 1 .. Len(es) : h[k] = h[k - 1] + es[k].size

LEMMA SizeIsSum ==
  ASSUME NEW es \in Seq(Entry)
  PROVE  \E h : Sums(es, h) /\ A!SizeOf(es) = h[Len(es)]
BY SizesSum DEF Sums, Entry

\* Where a sequence is a part of another, the sums differ by what is before the part.
LEMMA SumsOfPart ==
  ASSUME NEW es \in Seq(Entry), NEW part \in Seq(Entry), NEW f, Sums(es, f), NEW g, Sums(part, g),
         NEW m \in Nat, m + Len(part) <= Len(es),
         \A k \in 1 .. Len(part) : part[k] = es[m + k]
  PROVE  f[m + Len(part)] = f[m] + g[Len(part)]
<1> DEFINE Bad == {k \in 0 .. Len(part) : f[m + k] # f[m] + g[k]}
<1>0. Len(part) \in Nat /\ Len(es) \in Nat
  BY LenProperties
<1>1. Bad = {}
  <2> SUFFICES ASSUME Bad # {} PROVE FALSE
    OBVIOUS
  <2>0. Bad \subseteq Nat
    BY <1>0
  <2>1. PICK k \in Bad : \A j \in Bad : k <= j
    <3> HIDE DEF Bad
    <3> QED BY <2>0, LeastNumber
  <2>2. k \in 0 .. Len(part) /\ f[m + k] # f[m] + g[k]
    OBVIOUS
  <2>3. k # 0
    <3>1. f[m] \in Nat /\ g[0] = 0
      BY <1>0 DEF Sums
    <3> QED BY <2>2, <3>1
  <2>4. k \in 1 .. Len(part) /\ k - 1 \in 0 .. Len(part) /\ k - 1 \in Nat /\ k \in Nat
    BY <1>0, <2>2, <2>3
  <2>5. f[m + (k - 1)] = f[m] + g[k - 1]
    <3>1. k - 1 \notin Bad
      <4> HIDE DEF Bad
      <4> QED BY <2>1, <2>4
    <3> QED BY <2>4, <3>1
  <2>6. m + k \in 1 .. Len(es) /\ (m + k) - 1 = m + (k - 1)
    BY <1>0, <2>4
  <2>7. f[m + k] = f[m + (k - 1)] + es[m + k].size
    BY <2>6 DEF Sums
  <2>8. g[k] = g[k - 1] + es[m + k].size
    BY <2>4 DEF Sums
  <2>9. f[m] \in Nat /\ g[k - 1] \in Nat /\ es[m + k].size \in Nat
    <3>1. es[m + k] \in Entry
      BY <2>6, ElementOfSeq
    <3>2. m \in 0 .. Len(es)
      BY <1>0
    <3>3. es[m + k].size \in Nat
      BY <3>1 DEF Entry
    <3>4. f[m] \in Nat
      BY <3>2 DEF Sums
    <3>5. g[k - 1] \in Nat
      BY <2>4 DEF Sums
    <3> QED BY <3>3, <3>4, <3>5
  <2> QED BY <2>2, <2>5, <2>7, <2>8, <2>9
<1>2. Len(part) \in 0 .. Len(part)
  BY <1>0
<1> QED BY <1>1, <1>2

\* What a store of entries holds is what the oldest hold and what the others hold.
LEMMA SizeSplits ==
  ASSUME NEW es \in Seq(Entry), NEW n \in 0 .. Len(es)
  PROVE  /\ SubSeq(es, 1, n) \in Seq(Entry) /\ SubSeq(es, n + 1, Len(es)) \in Seq(Entry)
         /\ A!SizeOf(es) \in Nat /\ A!SizeOf(SubSeq(es, 1, n)) \in Nat
         /\ A!SizeOf(SubSeq(es, n + 1, Len(es))) \in Nat
         /\ A!SizeOf(es) = A!SizeOf(SubSeq(es, 1, n)) + A!SizeOf(SubSeq(es, n + 1, Len(es)))
<1>0. Len(es) \in Nat /\ n \in Nat
  BY LenProperties
<1>1. PICK old \in Seq(Entry) :
        old = SubSeq(es, 1, n) /\ Len(old) = n /\ \A k \in 1 .. n : old[k] = es[k]
  <2>1. /\ SubSeq(es, 1, n) \in Seq(Entry) /\ Len(SubSeq(es, 1, n)) = n
        /\ \A k \in 1 .. n : SubSeq(es, 1, n)[k] = es[k]
    BY <1>0, SubSeqProperties
  <2> QED BY <2>1
<1>2. PICK new \in Seq(Entry) :
        new = SubSeq(es, n + 1, Len(es)) /\ Len(new) = Len(es) - n
        /\ \A k \in 1 .. Len(es) - n : new[k] = es[n + k]
  <2>1. /\ SubSeq(es, n + 1, Len(es)) \in Seq(Entry) /\ Len(SubSeq(es, n + 1, Len(es))) = Len(es) - n
        /\ \A k \in 1 .. Len(es) - n : SubSeq(es, n + 1, Len(es))[k] = es[n + k]
    BY <1>0, SubSeqProperties
  <2> QED BY <2>1
<1>3. PICK f : Sums(es, f) /\ A!SizeOf(es) = f[Len(es)]
  BY SizeIsSum
<1>4. PICK g : Sums(old, g) /\ A!SizeOf(old) = g[n]
  BY <1>1, SizeIsSum
<1>5. PICK h : Sums(new, h) /\ A!SizeOf(new) = h[Len(new)]
  BY <1>2, SizeIsSum
<1>6. f[0 + n] = f[0] + g[n]
  <2>1. 0 + Len(old) <= Len(es) /\ \A k \in 1 .. Len(old) : old[k] = es[0 + k]
    BY <1>0, <1>1
  <2>2. f[0 + Len(old)] = f[0] + g[Len(old)]
    BY <1>3, <1>4, <2>1, SumsOfPart
  <2> QED BY <1>1, <2>2
<1>7. f[n + (Len(es) - n)] = f[n] + h[Len(es) - n]
  <2>1. n + Len(new) <= Len(es) /\ \A k \in 1 .. Len(new) : new[k] = es[n + k]
    BY <1>0, <1>2
  <2>2. f[n + Len(new)] = f[n] + h[Len(new)]
    BY <1>0, <1>3, <1>5, <2>1, SumsOfPart
  <2> QED BY <1>2, <2>2
<1>8. f[0] = 0 /\ f[n] \in Nat /\ g[n] \in Nat /\ h[Len(es) - n] \in Nat /\ f[Len(es)] \in Nat
  <2>1. f[0] = 0 /\ f[n] \in Nat /\ f[Len(es)] \in Nat
    <3>1. f[0] = 0 /\ \A k \in 0 .. Len(es) : f[k] \in Nat
      BY <1>3 DEF Sums
    <3>2. n \in 0 .. Len(es) /\ Len(es) \in 0 .. Len(es)
      BY <1>0
    <3> QED BY <3>1, <3>2
  <2>2. g[n] \in Nat
    BY <1>0, <1>1, <1>4 DEF Sums
  <2>3. h[Len(es) - n] \in Nat
    <3>1. Len(new) \in 0 .. Len(new) /\ Len(new) = Len(es) - n
      BY <1>0, <1>2
    <3>2. h[Len(new)] \in Nat
      BY <1>5, <3>1 DEF Sums
    <3> QED BY <3>1, <3>2
  <2> QED BY <2>1, <2>2, <2>3
<1>9. 0 + n = n /\ n + (Len(es) - n) = Len(es)
  BY <1>0
<1>10. A!SizeOf(es) = f[Len(es)] /\ A!SizeOf(old) = g[n] /\ A!SizeOf(new) = h[Len(es) - n]
  BY <1>2, <1>3, <1>4, <1>5
<1>11. f[Len(es)] = g[n] + h[Len(es) - n]
  BY <1>6, <1>7, <1>8, <1>9
<1>12. /\ A!SizeOf(es) \in Nat /\ A!SizeOf(old) \in Nat /\ A!SizeOf(new) \in Nat
       /\ A!SizeOf(es) = A!SizeOf(old) + A!SizeOf(new)
  BY <1>8, <1>10, <1>11
<1> QED BY <1>1, <1>2, <1>12, Zenon

LEMMA SizeOfNone == A!SizeOf(<<>>) = 0
<1>1. <<>> \in Seq(Entry) /\ Len(<<>>) = 0
  OBVIOUS
<1> QED BY <1>1, SizeIsSum DEF Sums

\* An entry more is its size more.
LEMMA SizeOfAppend ==
  ASSUME NEW es \in Seq(Entry), NEW e \in Entry
  PROVE  A!SizeOf(Append(es, e)) = A!SizeOf(es) + e.size
<1>0. Len(es) \in Nat
  BY LenProperties
<1>1. PICK t \in Seq(Entry) :
        t = Append(es, e) /\ Len(t) = Len(es) + 1 /\ t[Len(es) + 1] = e
        /\ \A k \in 1 .. Len(es) : t[k] = es[k]
  <2>1. /\ Append(es, e) \in Seq(Entry) /\ Len(Append(es, e)) = Len(es) + 1
        /\ Append(es, e)[Len(es) + 1] = e /\ \A k \in 1 .. Len(es) : Append(es, e)[k] = es[k]
    BY AppendProperties
  <2> QED BY <2>1
<1>2. PICK f : Sums(t, f) /\ A!SizeOf(t) = f[Len(t)]
  BY <1>1, SizeIsSum
<1>3. PICK g : Sums(es, g) /\ A!SizeOf(es) = g[Len(es)]
  BY SizeIsSum
<1>4. f[0 + Len(es)] = f[0] + g[Len(es)]
  <2>1. \A k \in 1 .. Len(es) : es[k] = t[0 + k]
    BY <1>0, <1>1
  <2>2. 0 + Len(es) <= Len(t)
    BY <1>0, <1>1
  <2> QED BY <1>2, <1>3, <2>1, <2>2, SumsOfPart
<1>5. f[0] = 0 /\ f[Len(es) + 1] = f[Len(es)] + e.size /\ 0 + Len(es) = Len(es)
  <2>1. Len(es) + 1 \in 1 .. Len(t) /\ (Len(es) + 1) - 1 = Len(es)
    BY <1>0, <1>1
  <2> QED BY <1>0, <1>1, <1>2, <2>1 DEF Sums
<1>6. g[Len(es)] \in Nat
  BY <1>0, <1>3 DEF Sums
<1> QED BY <1>1, <1>2, <1>3, <1>4, <1>5, <1>6

\* A store whose ids grow and are less than next, that knows what it keeps but for the files in
\* lost.
Knows(s, next, lost) ==
  /\ s = [entries |-> s.entries, total |-> s.total, files |-> s.files]
  /\ s.entries \in Seq(Entry)
  /\ \A i, j \in 1 .. Len(s.entries) : i < j => s.entries[i].id < s.entries[j].id
  /\ \A i \in 1 .. Len(s.entries) : s.entries[i].id < next
  /\ A!Ids(s.entries) \subseteq s.files /\ s.files \ A!Ids(s.entries) \subseteq lost
  /\ s.total = A!SizeOf(s.entries)
Keeps(s, next, lost) ==
  Knows(s, next, lost) /\ (Len(s.entries) <= 1 \/ A!Fits(s.entries, s.total))

\* How many of the oldest go: the least number that is enough.
LEMMA DroppedIs ==
  ASSUME NEW es \in Seq(Entry), es # <<>>, NEW sum
  PROVE  LET n == A!Dropped(es, sum)
         IN /\ n \in 0 .. Len(es) - 1
            /\ n = Len(es) - 1
               \/ A!Fits(SubSeq(es, n + 1, Len(es)), sum - A!SizeOf(SubSeq(es, 1, n)))
<1> DEFINE Enough(n) == n = Len(es) - 1
                        \/ A!Fits(SubSeq(es, n + 1, Len(es)), sum - A!SizeOf(SubSeq(es, 1, n)))
           N == {n \in 0 .. Len(es) - 1 : Enough(n)}
<1>0. Len(es) \in Nat /\ Len(es) # 0
  BY EmptySeq, LenProperties
<1>1. Len(es) - 1 \in N /\ N \subseteq Nat
  BY <1>0
<1>2. PICK n \in N : \A k \in N : n <= k
  <2> HIDE DEF N
  <2> QED BY <1>1, LeastNumber
<1>3. n \in 0 .. Len(es) - 1 /\ Enough(n) /\ n \in Nat
  <2>1. n \in 0 .. Len(es) - 1 /\ n \in Nat
    BY <1>1
  <2>2. Enough(n)
    BY Zenon
  <2> QED BY <2>1, <2>2
<1> HIDE DEF Enough
<1>4. \A m \in 0 .. n - 1 : ~Enough(m)
  <2> SUFFICES ASSUME NEW m \in 0 .. n - 1, Enough(m) PROVE FALSE
    OBVIOUS
  <2>1. m \in 0 .. Len(es) - 1 /\ ~(n <= m)
    BY <1>0, <1>3
  <2>2. m \in N
    BY <2>1
  <2> HIDE DEF N
  <2> QED BY <1>2, <2>1, <2>2
<1>5. A!Dropped(es, sum) = CHOOSE k \in 0 .. Len(es) - 1 : Enough(k) /\ \A m \in 0 .. k - 1 : ~Enough(m)
  BY Zenon DEF A!Dropped, Enough
<1>6. A!Dropped(es, sum) \in 0 .. Len(es) - 1 /\ Enough(A!Dropped(es, sum))
  BY <1>3, <1>4, <1>5, Zenon
<1> QED BY <1>6, Zenon DEF Enough

\* Evicting takes the oldest, their bytes and their files, and never the last.
LEMMA EvictionKeeps ==
  ASSUME NEW s, NEW next \in Nat, NEW lost, Knows(s, next, lost), s.entries # <<>>
  PROVE  LET e == A!Evicted(s)
         IN /\ Keeps(e, next, lost) /\ e.entries # <<>>
            /\ e.entries[Len(e.entries)] = s.entries[Len(s.entries)]
<1> DEFINE es == s.entries
<1>0. es \in Seq(Entry) /\ Len(es) \in Nat /\ Len(es) # 0
  BY EmptySeq, LenProperties DEF Knows
<1>1. PICK n \in 0 .. Len(es) - 1 :
        /\ n = A!Dropped(es, s.total)
        /\ n = Len(es) - 1 \/ A!Fits(SubSeq(es, n + 1, Len(es)), s.total - A!SizeOf(SubSeq(es, 1, n)))
  BY <1>0, DroppedIs
<1>2. n \in Nat /\ n \in 0 .. Len(es)
  BY <1>0
<1>3. PICK old \in Seq(Entry) :
        old = SubSeq(es, 1, n) /\ Len(old) = n /\ \A k \in 1 .. n : old[k] = es[k]
  <2>1. /\ SubSeq(es, 1, n) \in Seq(Entry) /\ Len(SubSeq(es, 1, n)) = n
        /\ \A k \in 1 .. n : SubSeq(es, 1, n)[k] = es[k]
    BY <1>0, <1>2, SubSeqProperties
  <2> QED BY <2>1
<1>4. PICK new \in Seq(Entry) :
        new = SubSeq(es, n + 1, Len(es)) /\ Len(new) = Len(es) - n
        /\ \A k \in 1 .. Len(es) - n : new[k] = es[n + k]
  <2>1. /\ SubSeq(es, n + 1, Len(es)) \in Seq(Entry) /\ Len(SubSeq(es, n + 1, Len(es))) = Len(es) - n
        /\ \A k \in 1 .. Len(es) - n : SubSeq(es, n + 1, Len(es))[k] = es[n + k]
    BY <1>0, <1>2, SubSeqProperties
  <2> QED BY <2>1
<1>5. /\ A!SizeOf(es) \in Nat /\ A!SizeOf(old) \in Nat /\ A!SizeOf(new) \in Nat
      /\ A!SizeOf(es) = A!SizeOf(old) + A!SizeOf(new)
  BY <1>0, <1>2, <1>3, <1>4, SizeSplits
<1>6. PICK e : e = [entries |-> new, total |-> s.total - A!SizeOf(old), files |-> s.files \ A!Ids(old)]
  OBVIOUS
<1>7. A!Evicted(s) = e
  BY <1>1, <1>3, <1>4, <1>6, Zenon DEF A!Evicted
<1>8. e.entries = new /\ e.total = s.total - A!SizeOf(old) /\ e.files = s.files \ A!Ids(old)
  BY <1>6
<1>9. e.total = A!SizeOf(new)
  BY <1>5, <1>8 DEF Knows
<1>10. \A i, j \in 1 .. Len(es) : i < j => es[i].id < es[j].id
  BY DEF Knows
<1>11. \A i, j \in 1 .. Len(new) : i < j => new[i].id < new[j].id
  <2> SUFFICES ASSUME NEW i \in 1 .. Len(new), NEW j \in 1 .. Len(new), i < j
               PROVE  new[i].id < new[j].id
    OBVIOUS
  <2>1. n + i \in 1 .. Len(es) /\ n + j \in 1 .. Len(es) /\ n + i < n + j
    BY <1>0, <1>2, <1>4
  <2>2. new[i] = es[n + i] /\ new[j] = es[n + j]
    BY <1>4
  <2> QED BY <1>10, <2>1, <2>2
<1>12. \A i \in 1 .. Len(new) : n + i \in 1 .. Len(es) /\ new[i] = es[n + i]
  BY <1>0, <1>2, <1>4
<1>13. \A i \in 1 .. Len(new) : new[i].id < next
  BY <1>12 DEF Knows
<1>14. A!Ids(old) = {es[i].id : i \in 1 .. n} /\ A!Ids(es) = {es[i].id : i \in 1 .. Len(es)}
  <2>1. DOMAIN old = 1 .. n /\ DOMAIN es = 1 .. Len(es)
    BY <1>0, <1>3
  <2> QED BY <1>3, <2>1 DEF A!Ids
<1>15. A!Ids(new) = {es[i].id : i \in n + 1 .. Len(es)}
  <2>1. DOMAIN new = 1 .. Len(new)
    BY <1>4
  <2>2. A!Ids(new) = {new[i].id : i \in 1 .. Len(new)}
    BY <2>1 DEF A!Ids
  <2>3. ASSUME NEW i \in n + 1 .. Len(es) PROVE es[i].id \in A!Ids(new)
    <3>1. i - n \in 1 .. Len(new) /\ n + (i - n) = i
      BY <1>0, <1>2, <1>4
    <3>2. new[i - n].id = es[i].id
      BY <1>4, <3>1
    <3> QED BY <2>2, <3>1, <3>2
  <2>4. ASSUME NEW i \in 1 .. Len(new) PROVE new[i].id \in {es[k].id : k \in n + 1 .. Len(es)}
    <3>1. n + i \in n + 1 .. Len(es) /\ new[i] = es[n + i]
      BY <1>0, <1>2, <1>4
    <3> QED BY <3>1
  <2> QED BY <2>2, <2>3, <2>4
<1>16. A!Ids(new) \cap A!Ids(old) = {}
  <2> SUFFICES ASSUME NEW i \in 1 .. n, NEW j \in n + 1 .. Len(es), es[i].id = es[j].id PROVE FALSE
    BY <1>14, <1>15
  <2>1. i \in 1 .. Len(es) /\ j \in 1 .. Len(es) /\ i < j
    BY <1>0, <1>2
  <2>2. es[j] \in Entry
    BY <1>0, <2>1, ElementOfSeq
  <2>3. es[i].id < es[j].id /\ es[j].id \in Nat
    BY <1>10, <2>1, <2>2 DEF Entry
  <2> QED BY <2>3
<1>17. A!Ids(es) = A!Ids(old) \cup A!Ids(new)
  <2>1. \A i \in 1 .. Len(es) : i \in 1 .. n \/ i \in n + 1 .. Len(es)
    BY <1>0, <1>2
  <2>2. \A i \in 1 .. n : i \in 1 .. Len(es)
    BY <1>0, <1>2
  <2>3. \A i \in n + 1 .. Len(es) : i \in 1 .. Len(es)
    BY <1>0, <1>2
  <2> QED BY <1>14, <1>15, <2>1, <2>2, <2>3
<1>18. A!Ids(new) \subseteq e.files /\ e.files \ A!Ids(new) \subseteq lost
  BY <1>8, <1>16, <1>17 DEF Knows
<1>19. Knows(e, next, lost)
  BY <1>4, <1>6, <1>8, <1>9, <1>11, <1>13, <1>18 DEF Knows
<1>20. Len(new) <= 1 \/ A!Fits(new, e.total)
  BY <1>0, <1>1, <1>3, <1>4, <1>8
<1>21. Len(new) # 0 /\ new[Len(new)] = es[Len(es)] /\ new # <<>>
  <2>0. Len(new) = Len(es) - n /\ n <= Len(es) - 1
    BY <1>4
  <2>1. Len(new) \in 1 .. Len(es) - n /\ n + Len(new) = Len(es) /\ Len(new) # 0
    BY <1>0, <1>2, <2>0
  <2>2. new[Len(new)] = es[n + Len(new)]
    BY <1>4, <2>1
  <2> QED BY <2>1, <2>2
<1> QED BY <1>7, <1>8, <1>19, <1>20, <1>21 DEF Keeps

\* Saving makes an artifact the last of the store, and keeps it.
LEMMA SaveKeeps ==
  ASSUME NEW s, NEW id \in Nat, NEW lost, Keeps(s, id, lost), NEW size \in Nat, MaxSingle \in Nat
  PROVE  LET e == A!Save(s, id, size)
         IN Keeps(e, id + 1, lost) /\ e.entries # <<>> /\ e.entries[Len(e.entries)].id = id
<1>1. PICK kept \in Nat : kept = A!Capped(size, MaxSingle)
  BY DEF A!Capped
<1>2. PICK new : new = [id |-> id, size |-> kept]
  OBVIOUS
<1>3. new \in Entry /\ new.id = id /\ new.size = kept
  BY <1>2 DEF Entry
<1>4. s.entries \in Seq(Entry) /\ Len(s.entries) \in Nat
  BY LenProperties DEF Keeps, Knows
<1>5. PICK es \in Seq(Entry) :
        es = Append(s.entries, new) /\ Len(es) = Len(s.entries) + 1 /\ es[Len(s.entries) + 1] = new
        /\ \A k \in 1 .. Len(s.entries) : es[k] = s.entries[k]
  <2>1. /\ Append(s.entries, new) \in Seq(Entry) /\ Len(Append(s.entries, new)) = Len(s.entries) + 1
        /\ Append(s.entries, new)[Len(s.entries) + 1] = new
        /\ \A k \in 1 .. Len(s.entries) : Append(s.entries, new)[k] = s.entries[k]
    BY <1>3, <1>4, AppendProperties
  <2> QED BY <2>1
<1>6. PICK t : t = [entries |-> es, total |-> s.total + kept, files |-> s.files \cup {id}]
  OBVIOUS
<1>7. A!Save(s, id, size) = A!Evicted(t)
  BY <1>1, <1>2, <1>5, <1>6, Zenon DEF A!Save
<1>8. t.entries = es /\ t.total = s.total + kept /\ t.files = s.files \cup {id}
  BY <1>6
<1>9. t.total = A!SizeOf(es)
  BY <1>3, <1>4, <1>5, <1>8, SizeOfAppend DEF Keeps, Knows
<1>10. \A i \in 1 .. Len(s.entries) : s.entries[i].id \in Nat /\ s.entries[i].id < id
  <2>1. \A i \in 1 .. Len(s.entries) : s.entries[i] \in Entry
    BY <1>4, ElementOfSeq
  <2> QED BY <2>1 DEF Keeps, Knows, Entry
<1>11. \A i \in 1 .. Len(es) : es[i].id < id + 1
  <2> SUFFICES ASSUME NEW i \in 1 .. Len(es) PROVE es[i].id < id + 1
    OBVIOUS
  <2>1. CASE i = Len(s.entries) + 1
    BY <1>3, <1>5, <2>1
  <2>2. CASE i # Len(s.entries) + 1
    <3>1. i \in 1 .. Len(s.entries)
      BY <1>4, <1>5, <2>2
    <3> QED BY <1>5, <1>10, <3>1
  <2> QED BY <2>1, <2>2
<1>12. \A i, j \in 1 .. Len(es) : i < j => es[i].id < es[j].id
  <2> SUFFICES ASSUME NEW i \in 1 .. Len(es), NEW j \in 1 .. Len(es), i < j
               PROVE  es[i].id < es[j].id
    OBVIOUS
  <2>1. i \in 1 .. Len(s.entries)
    BY <1>4, <1>5
  <2>2. CASE j = Len(s.entries) + 1
    BY <1>3, <1>5, <1>10, <2>1, <2>2
  <2>3. CASE j # Len(s.entries) + 1
    <3>1. j \in 1 .. Len(s.entries)
      BY <1>4, <1>5, <2>3
    <3> QED BY <1>5, <2>1, <3>1 DEF Keeps, Knows
  <2> QED BY <2>2, <2>3
<1>13. A!Ids(es) = A!Ids(s.entries) \cup {id}
  <2>1. /\ A!Ids(es) = {es[i].id : i \in 1 .. Len(es)}
        /\ A!Ids(s.entries) = {s.entries[i].id : i \in 1 .. Len(s.entries)}
    BY <1>4 DEF A!Ids
  <2>2. \A i \in 1 .. Len(es) : i \in 1 .. Len(s.entries) \/ i = Len(s.entries) + 1
    BY <1>4, <1>5
  <2>3. Len(s.entries) + 1 \in 1 .. Len(es) /\ \A i \in 1 .. Len(s.entries) : i \in 1 .. Len(es)
    BY <1>4, <1>5
  <2>4. es[Len(s.entries) + 1].id = id /\ \A i \in 1 .. Len(s.entries) : es[i].id = s.entries[i].id
    BY <1>3, <1>5
  <2> QED BY <2>1, <2>2, <2>3, <2>4
<1>14. A!Ids(es) \subseteq t.files /\ t.files \ A!Ids(es) \subseteq lost
  BY <1>8, <1>13 DEF Keeps, Knows
<1>15. Knows(t, id + 1, lost)
  BY <1>6, <1>8, <1>9, <1>11, <1>12, <1>14 DEF Knows
<1>16. t.entries # <<>> /\ t.entries[Len(t.entries)].id = id
  BY <1>3, <1>4, <1>5, <1>8
<1>17. LET e == A!Evicted(t)
       IN /\ Keeps(e, id + 1, lost) /\ e.entries # <<>>
          /\ e.entries[Len(e.entries)] = t.entries[Len(t.entries)]
  BY <1>15, <1>16, EvictionKeeps
<1> QED BY <1>7, <1>16, <1>17, Zenon

\* The work of bounding a result, at any time: what is inline is within the budget but for what
\* stands in for each artifact saved so far, and no link is newer than what the store keeps last.
Sound(w, failing) ==
  /\ w = [store |-> w.store, next |-> w.next, used |-> w.used, inline |-> w.inline,
          structured |-> w.structured, links |-> w.links, ok |-> w.ok, failing |-> failing]
  /\ saved \in Nat /\ w.next \in Nat \ (0 .. saved) /\ w.used \in 0 .. Budget
  /\ w.inline \in 0 .. w.used + (w.next - (saved + 1))
  /\ w.structured \in 0 .. Budget + (w.next - (saved + 1)) /\ w.ok \in BOOLEAN
  /\ w.ok = TRUE => Keeps(w.store, w.next, broken)
  /\ w.ok = FALSE => Keeps(w.store, w.next, broken \cup {failing})
  /\ w.links # {} =>
       /\ w.store.entries # <<>>
       /\ \A l \in w.links : l \in Nat /\ l <= w.store.entries[Len(w.store.entries)].id

\* What does not fit is saved and linked to, or its write fails.
LEMMA SpillKeeps ==
  ASSUME NEW w, NEW failing, Sound(w, failing), w.ok = TRUE, NEW size \in Nat,
         Budget \in Nat, MaxSingle \in Nat
  PROVE  LET v == A!Spill(w, size)
         IN /\ Sound(v, failing) /\ v.used = w.used /\ v.inline = w.inline
            /\ v.next = w.next + 1 /\ v.structured = w.structured
<1>0. /\ w.next \in Nat \ {0} /\ w.failing = failing
      /\ w = [store |-> w.store, next |-> w.next, used |-> w.used, inline |-> w.inline,
              structured |-> w.structured, links |-> w.links, ok |-> w.ok, failing |-> failing]
  BY DEF Sound
<1>r. /\ w.inline \in 0 .. w.used + ((w.next + 1) - (saved + 1)) /\ w.next + 1 \in Nat \ (0 .. saved)
      /\ w.structured \in 0 .. Budget + ((w.next + 1) - (saved + 1))
  BY DEF Sound
<1>1. CASE w.next = failing
  <2>1. PICK s : s = [entries |-> w.store.entries, total |-> w.store.total,
                      files |-> w.store.files \cup {failing}]
    OBVIOUS
  <2>2. PICK v : v = [store |-> s, next |-> w.next + 1, used |-> w.used, inline |-> w.inline,
                      structured |-> w.structured, links |-> w.links, ok |-> FALSE, failing |-> failing]
    OBVIOUS
  <2>3. w.store = [entries |-> w.store.entries, total |-> w.store.total, files |-> w.store.files]
    BY DEF Sound, Keeps, Knows
  <2>4. A!Spill(w, size) = v
    <3>1. A!Spill(w, size) = [w EXCEPT !.ok = FALSE, !.next = @ + 1, !.store.files = @ \cup {w.next}]
      BY <1>0, <1>1 DEF A!Spill
    <3>2. [w.store EXCEPT !.files = @ \cup {w.next}] = s
      BY <1>1, <2>1, <2>3
    <3>3. A!Spill(w, size) = [w EXCEPT !.ok = FALSE, !.next = @ + 1, !.store = s]
      BY <3>1, <3>2
    <3> QED BY <1>0, <2>2, <3>3
  <2>5. s.entries = w.store.entries /\ s.total = w.store.total /\ s.files = w.store.files \cup {failing}
    BY <2>1
  <2>6. \A i \in 1 .. Len(w.store.entries) : w.store.entries[i].id < w.next + 1
    <3>1. \A i \in 1 .. Len(w.store.entries) :
            w.store.entries[i].id \in Nat /\ w.store.entries[i].id < w.next
      <4>1. w.store.entries \in Seq(Entry) /\ \A i \in 1 .. Len(w.store.entries) : w.store.entries[i].id < w.next
        BY DEF Sound, Keeps, Knows
      <4>2. \A i \in 1 .. Len(w.store.entries) : w.store.entries[i] \in Entry
        BY <4>1, ElementOfSeq
      <4> QED BY <4>1, <4>2 DEF Entry
    <3> QED BY <1>0, <3>1
  <2>7. Keeps(s, w.next + 1, broken \cup {failing})
    BY <2>1, <2>5, <2>6 DEF Sound, Keeps, Knows
  <2>8. /\ v.store = s /\ v.next = w.next + 1 /\ v.used = w.used /\ v.inline = w.inline
        /\ v.structured = w.structured /\ v.links = w.links /\ v.ok = FALSE /\ v.failing = failing
    BY <2>2
  <2>9. Sound(v, failing)
    BY <1>0, <1>r, <2>2, <2>5, <2>7, <2>8 DEF Sound
  <2> QED BY <2>4, <2>8, <2>9
<1>2. CASE w.next # failing
  <2>1. PICK s : s = A!Save(w.store, w.next, size)
    OBVIOUS
  <2>2. Keeps(s, w.next + 1, broken) /\ s.entries # <<>> /\ s.entries[Len(s.entries)].id = w.next
    <3>1. Keeps(w.store, w.next, broken)
      BY DEF Sound
    <3> QED BY <1>0, <2>1, <3>1, SaveKeeps
  <2>3. PICK v : v = [store |-> s, next |-> w.next + 1, used |-> w.used, inline |-> w.inline,
                      structured |-> w.structured, links |-> w.links \cup {w.next}, ok |-> w.ok, failing |-> failing]
    OBVIOUS
  <2>4. A!Spill(w, size) = v
    <3>1. A!Spill(w, size) = [w EXCEPT !.store = A!Save(@, w.next, size), !.next = @ + 1, !.links = @ \cup {w.next}]
      BY <1>0, <1>2 DEF A!Spill
    <3>2. A!Spill(w, size) = [w EXCEPT !.store = s, !.next = @ + 1, !.links = @ \cup {w.next}]
      BY <2>1, <3>1
    <3> QED BY <1>0, <2>3, <3>2
  <2>5. /\ v.store = s /\ v.next = w.next + 1 /\ v.used = w.used /\ v.inline = w.inline
        /\ v.structured = w.structured /\ v.links = w.links \cup {w.next} /\ v.ok = TRUE /\ v.failing = failing
    BY <2>3
  <2>6. \A l \in w.links : l \in Nat /\ l <= w.next
    <3> SUFFICES ASSUME NEW l \in w.links PROVE l \in Nat /\ l <= w.next
      OBVIOUS
    <3> DEFINE es == w.store.entries
    <3>1. es \in Seq(Entry) /\ es # <<>> /\ l \in Nat /\ l <= es[Len(es)].id
      BY DEF Sound, Keeps, Knows
    <3>2. Len(es) \in 1 .. Len(es)
      BY <3>1, EmptySeq, LenProperties
    <3>3. es[Len(es)].id \in Nat
      <4> HIDE DEF es
      <4>1. es[Len(es)] \in Entry
        BY <3>1, <3>2, ElementOfSeq
      <4> QED BY <4>1 DEF Entry
    <3>4. es[Len(es)].id < w.next
      BY <3>2 DEF Sound, Keeps, Knows
    <3> QED BY <1>0, <3>1, <3>3, <3>4
  <2>7. \A l \in v.links : l \in Nat /\ l <= s.entries[Len(s.entries)].id
    BY <1>0, <2>2, <2>5, <2>6
  <2>8. Sound(v, failing)
    BY <1>0, <1>r, <2>2, <2>3, <2>5, <2>7 DEF Sound
  <2> QED BY <2>4, <2>5, <2>8
<1> QED BY <1>1, <1>2

Block == [kind : {"text", "image", "other"}, size : Nat]

\* A block that fits, is cut or is spilled.
LEMMA BlockKeeps ==
  ASSUME NEW w, NEW failing, Sound(w, failing), NEW b \in Block, Budget \in Nat, MaxSingle \in Nat
  PROVE  Sound(A!BoundBlock(w, b), failing)
<1>0. /\ w.used \in 0 .. Budget /\ w.inline \in 0 .. w.used + (w.next - (saved + 1))
      /\ w.used \in Nat /\ w.inline \in Nat /\ saved \in Nat /\ w.next \in Nat \ (0 .. saved)
      /\ b.size \in Nat /\ w.ok \in BOOLEAN
      /\ w = [store |-> w.store, next |-> w.next, used |-> w.used, inline |-> w.inline,
              structured |-> w.structured, links |-> w.links, ok |-> w.ok, failing |-> failing]
  BY DEF Sound, Block
<1>1. CASE w.ok = FALSE \/ b.kind = "other"
  <2>1. A!BoundBlock(w, b) = w
    BY <1>1 DEF A!BoundBlock
  <2> QED BY <2>1
<1> SUFFICES ASSUME w.ok = TRUE, b.kind # "other" PROVE Sound(A!BoundBlock(w, b), failing)
  BY <1>0, <1>1
<1>2. CASE w.used + b.size <= Budget
  <2>0. PICK x, y : x = w.used + b.size /\ y = w.inline + b.size
    OBVIOUS
  <2>1. PICK v : v = [store |-> w.store, next |-> w.next, used |-> x, inline |-> y,
                      structured |-> w.structured, links |-> w.links, ok |-> w.ok, failing |-> failing]
    OBVIOUS
  <2>2. A!BoundBlock(w, b) = v
    <3>1. A!BoundBlock(w, b) = [[w EXCEPT !.used = x] EXCEPT !.inline = y]
      BY <1>2, <2>0 DEF A!BoundBlock
    <3>2. w = [store |-> w.store, next |-> w.next, used |-> w.used, inline |-> w.inline,
               structured |-> w.structured, links |-> w.links, ok |-> w.ok, failing |-> failing]
      BY DEF Sound
    <3>3. PICK u : u = [store |-> w.store, next |-> w.next, used |-> x, inline |-> w.inline,
                        structured |-> w.structured, links |-> w.links, ok |-> w.ok, failing |-> failing]
      OBVIOUS
    <3>4. [w EXCEPT !.used = x] = u
      BY <3>2, <3>3
    <3>5. [u EXCEPT !.inline = y] = v
      BY <2>1, <3>3
    <3> QED BY <3>1, <3>4, <3>5
  <2>3. /\ v.store = w.store /\ v.next = w.next /\ v.used = w.used + b.size
        /\ v.inline = w.inline + b.size
        /\ v.structured = w.structured /\ v.links = w.links /\ v.ok = w.ok /\ v.failing = failing
    BY <2>0, <2>1
  <2>5. v.used \in 0 .. Budget /\ v.inline \in 0 .. v.used + (v.next - (saved + 1))
    BY <1>0, <1>2, <2>3
  <2>4. Sound(v, failing)
    BY <1>0, <2>1, <2>3, <2>5 DEF Sound
  <2> QED BY <2>2, <2>4
<1>3. CASE ~(w.used + b.size <= Budget)
  <2>0. PICK n \in Nat : n = IF b.kind = "image" THEN A!Decoded(b.size) ELSE b.size
    <3>1. A!Decoded(b.size) \in Nat
      BY <1>0 DEF A!Decoded
    <3> QED BY <1>0, <3>1
  <2>1. PICK s : s = A!Spill(w, n)
    OBVIOUS
  <2>2. Sound(s, failing) /\ s.used = w.used /\ s.inline = w.inline /\ s.next = w.next + 1
    BY <1>0, <2>0, <2>1, SpillKeeps
  \* What a stand-in, or a head and a stand-in, makes of it.
  <2>3. ASSUME NEW x, NEW y, x \in 0 .. Budget, y \in 0 .. x + (s.next - (saved + 1)),
               NEW u, u = [s EXCEPT !.inline = y, !.used = x]
        PROVE  Sound(u, failing)
    <3>1. s = [store |-> s.store, next |-> s.next, used |-> s.used, inline |-> s.inline,
               structured |-> s.structured, links |-> s.links, ok |-> s.ok, failing |-> failing]
      BY <2>2 DEF Sound
    <3>2. PICK v : v = [store |-> s.store, next |-> s.next, used |-> x, inline |-> y,
                        structured |-> s.structured, links |-> s.links, ok |-> s.ok, failing |-> failing]
      OBVIOUS
    <3>3. u = v
      <4>1. PICK t : t = [store |-> s.store, next |-> s.next, used |-> s.used, inline |-> y,
                          structured |-> s.structured, links |-> s.links, ok |-> s.ok, failing |-> failing]
        OBVIOUS
      <4>2. [s EXCEPT !.inline = y] = t
        BY <3>1, <4>1
      <4>3. [t EXCEPT !.used = x] = v
        BY <3>2, <4>1
      <4>4. u = [[s EXCEPT !.inline = y] EXCEPT !.used = x]
        BY <2>3
      <4> QED BY <4>2, <4>3, <4>4
    <3>4. /\ v.store = s.store /\ v.next = s.next /\ v.used = x /\ v.inline = y
          /\ v.structured = s.structured /\ v.links = s.links /\ v.ok = s.ok /\ v.failing = failing
      BY <3>2
    <3>5. Sound(v, failing)
      BY <2>2, <2>3, <3>2, <3>4 DEF Sound
    <3> QED BY <3>3, <3>5
  <2>4. CASE b.kind = "image"
    <3>1. PICK y : y = w.inline + 1
      OBVIOUS
    <3>2. A!BoundBlock(w, b) = [s EXCEPT !.inline = y]
      BY <1>3, <2>0, <2>1, <2>2, <2>4, <3>1 DEF A!BoundBlock, A!StandIn
    <3>3. [s EXCEPT !.inline = y] = [s EXCEPT !.inline = y, !.used = w.used]
      <4>1. s = [store |-> s.store, next |-> s.next, used |-> w.used, inline |-> s.inline,
                 structured |-> s.structured, links |-> s.links, ok |-> s.ok, failing |-> failing]
        BY <2>2 DEF Sound
      <4>2. PICK t : t = [store |-> s.store, next |-> s.next, used |-> w.used, inline |-> y,
                          structured |-> s.structured, links |-> s.links, ok |-> s.ok, failing |-> failing]
        OBVIOUS
      <4>3. [s EXCEPT !.inline = y] = t
        BY <4>1, <4>2
      <4>4. [t EXCEPT !.used = w.used] = t
        BY <4>2
      <4>5. [s EXCEPT !.inline = y, !.used = w.used] = [[s EXCEPT !.inline = y] EXCEPT !.used = w.used]
        OBVIOUS
      <4> QED BY <4>3, <4>4, <4>5
    <3>4. y \in 0 .. w.used + (s.next - (saved + 1))
      BY <1>0, <2>2, <3>1
    <3> QED BY <1>0, <2>3, <3>2, <3>3, <3>4
  <2>5. CASE b.kind # "image"
    <3>1. PICK y : y = w.inline + (Budget - w.used) + 1
      OBVIOUS
    <3>2. A!BoundBlock(w, b) = [s EXCEPT !.inline = y, !.used = Budget]
      BY <1>3, <2>0, <2>1, <2>2, <2>5, <3>1 DEF A!BoundBlock, A!StandIn
    <3>3. Budget \in 0 .. Budget /\ y \in 0 .. Budget + (s.next - (saved + 1))
      BY <1>0, <2>2, <3>1
    <3> QED BY <2>3, <3>2, <3>3
  <2> QED BY <2>4, <2>5
<1> QED BY <1>2, <1>3

LEMMA StructuredKeeps ==
  ASSUME NEW w, NEW failing, Sound(w, failing), NEW size \in Nat, Budget \in Nat, MaxSingle \in Nat
  PROVE  Sound(A!BoundStructured(w, size), failing)
<1>0. /\ w.ok \in BOOLEAN /\ saved \in Nat /\ w.next \in Nat \ (0 .. saved)
      /\ w = [store |-> w.store, next |-> w.next, used |-> w.used, inline |-> w.inline,
              structured |-> w.structured, links |-> w.links, ok |-> w.ok, failing |-> failing]
  BY DEF Sound
<1>1. CASE w.ok = FALSE \/ size <= Budget
  <2>1. PICK n : n = IF w.ok THEN size ELSE 0
    OBVIOUS
  <2>2. n \in 0 .. Budget + (w.next - (saved + 1))
    BY <1>0, <1>1, <2>1
  <2>3. PICK v : v = [store |-> w.store, next |-> w.next, used |-> w.used, inline |-> w.inline,
                      structured |-> n, links |-> w.links, ok |-> w.ok, failing |-> failing]
    OBVIOUS
  <2>4. A!BoundStructured(w, size) = v
    <3>1. A!BoundStructured(w, size) = [w EXCEPT !.structured = n]
      BY <1>1, <2>1 DEF A!BoundStructured
    <3> QED BY <1>0, <2>3, <3>1
  <2>5. /\ v.store = w.store /\ v.next = w.next /\ v.used = w.used /\ v.inline = w.inline
        /\ v.structured = n /\ v.links = w.links /\ v.ok = w.ok /\ v.failing = failing
    BY <2>3
  <2>6. Sound(v, failing)
    BY <2>2, <2>3, <2>5 DEF Sound
  <2> QED BY <2>4, <2>6
<1>2. CASE w.ok = TRUE /\ ~(size <= Budget)
  <2>1. PICK s : s = A!Spill(w, size)
    OBVIOUS
  <2>2. Sound(s, failing) /\ s.next = w.next + 1
    BY <1>2, <2>1, SpillKeeps
  <2>3. PICK v : v = [store |-> s.store, next |-> s.next, used |-> s.used, inline |-> s.inline,
                      structured |-> 1, links |-> s.links, ok |-> s.ok, failing |-> failing]
    OBVIOUS
  <2>4. A!BoundStructured(w, size) = v
    <3>1. A!BoundStructured(w, size) = [s EXCEPT !.structured = 1]
      BY <1>2, <2>1 DEF A!BoundStructured, A!StandIn
    <3>2. s = [store |-> s.store, next |-> s.next, used |-> s.used, inline |-> s.inline,
               structured |-> s.structured, links |-> s.links, ok |-> s.ok, failing |-> failing]
      BY <2>2 DEF Sound
    <3> QED BY <2>3, <3>1, <3>2
  <2>5. /\ v.store = s.store /\ v.next = s.next /\ v.used = s.used /\ v.inline = s.inline
        /\ v.structured = 1 /\ v.links = s.links /\ v.ok = s.ok /\ v.failing = failing
    BY <2>3
  <2>6. 1 \in 0 .. Budget + (v.next - (saved + 1))
    BY <1>0, <2>2, <2>5
  <2>7. Sound(v, failing)
    BY <2>2, <2>3, <2>5, <2>6 DEF Sound
  <2> QED BY <2>4, <2>7
<1> QED BY <1>0, <1>1, <1>2

\* Bounding a result of any number of blocks.
LEMMA ResultKeeps ==
  ASSUME NEW r \in [content : Seq(Block), structured : Nat], NEW failing,
         Keeps(store, saved + 1, broken), saved \in Nat, Budget \in Nat, MaxSingle \in Nat
  PROVE  Sound(A!BoundResult(r, failing), failing)
<1> DEFINE es == r.content
           begin == [store |-> store, next |-> saved + 1, used |-> 0, inline |-> 0,
                     structured |-> 0, links |-> {}, ok |-> TRUE, failing |-> failing]
           Is(g, n) == g = [s \in SUBSET (1 .. n) |->
                              IF s = {} THEN begin
                              ELSE A!BoundBlock(g[s \ {A!Max(s)}], es[A!Max(s)])]
           it == CHOOSE g : Is(g, Len(es))
           Without == {n \in 0 .. Len(es) : ~\E g : Is(g, n)}
<1>0. es \in Seq(Block) /\ Len(es) \in Nat /\ DOMAIN es = 1 .. Len(es) /\ r.structured \in Nat
  BY LenProperties
<1>a. \A k \in 1 .. Len(es) : es[k] \in Block
  BY <1>0, ElementOfSeq
<1>b. Sound(begin, failing)
  <2>1. PICK w : w = begin
    OBVIOUS
  <2>2. /\ w.store = store /\ w.next = saved + 1 /\ w.used = 0 /\ w.inline = 0
        /\ w.structured = 0 /\ w.links = {} /\ w.ok = TRUE /\ w.failing = failing
    BY <2>1
  <2>3. w = [store |-> w.store, next |-> w.next, used |-> w.used, inline |-> w.inline,
             structured |-> w.structured, links |-> w.links, ok |-> w.ok, failing |-> failing]
    BY <2>1
  <2>5. /\ saved \in Nat /\ w.next \in Nat \ (0 .. saved) /\ w.used \in 0 .. Budget
        /\ w.inline \in 0 .. w.used + (w.next - (saved + 1))
        /\ w.structured \in 0 .. Budget + (w.next - (saved + 1))
    BY <2>2
  <2>6. w.ok = TRUE /\ w.ok # FALSE /\ Keeps(w.store, w.next, broken) /\ ~(w.links # {})
    BY <2>2
  <2>4. Sound(w, failing)
    BY <2>3, <2>5, <2>6, Zenon DEF Sound
  <2> QED BY <2>1, <2>4
<1>1. A!BoundResult(r, failing) = A!BoundStructured(it[1 .. Len(es)], r.structured)
  BY <1>0 DEF A!BoundResult, A!FoldLeft, A!MapThenFoldSet
<1> HIDE DEF begin
<1>2. Is([s \in SUBSET (1 .. 0) |-> begin], 0)
  OBVIOUS
<1>3. ASSUME NEW n \in Nat, NEW f, Is(f, n)
      PROVE  \E g : Is(g, n + 1)
  <2>1. PICK g : g = [s \in SUBSET (1 .. n + 1) |->
                       IF n + 1 \in s THEN A!BoundBlock(f[s \ {n + 1}], es[n + 1]) ELSE f[s]]
    OBVIOUS
  <2>2. ASSUME NEW s \in SUBSET (1 .. n + 1)
        PROVE  g[s] = IF s = {} THEN begin ELSE A!BoundBlock(g[s \ {A!Max(s)}], es[A!Max(s)])
    <3>1. CASE n + 1 \in s
      <4>1. A!Max(s) = n + 1
        BY <3>1, LargestIs
      <4>2. s \ {n + 1} \in SUBSET (1 .. n + 1) /\ ~(n + 1 \in s \ {n + 1}) /\ s # {}
        BY <3>1
      <4>3. g[s \ {n + 1}] = f[s \ {n + 1}] /\ g[s] = A!BoundBlock(f[s \ {n + 1}], es[n + 1])
        BY <2>1, <3>1, <4>2, Zenon
      <4> QED BY <4>1, <4>2, <4>3, Zenon
    <3>2. CASE n + 1 \notin s
      <4>1. s \in SUBSET (1 .. n) /\ s \ {A!Max(s)} \in SUBSET (1 .. n)
        <5>1. \A x \in s : x \in 1 .. n
          BY <3>2
        <5> QED BY <5>1, Zenon
      <4>2. s \ {A!Max(s)} \in SUBSET (1 .. n + 1) /\ n + 1 \notin s \ {A!Max(s)}
        BY <3>2
      <4>3. g[s] = f[s] /\ g[s \ {A!Max(s)}] = f[s \ {A!Max(s)}]
        BY <2>1, <3>2, <4>2, Zenon
      <4>4. f[s] = IF s = {} THEN begin ELSE A!BoundBlock(f[s \ {A!Max(s)}], es[A!Max(s)])
        BY <1>3, <4>1, Zenon
      <4> QED BY <4>3, <4>4, Zenon
    <3> QED BY <3>1, <3>2
  <2>3. DOMAIN g = SUBSET (1 .. n + 1)
    BY <2>1, Zenon
  <2>4. g = [s \in SUBSET (1 .. n + 1) |-> g[s]]
    BY <2>1, <2>3, Zenon
  <2>5. Is(g, n + 1)
    BY <2>2, <2>4, Zenon
  <2> QED BY <2>5
<1>4. Without = {}
  <2> SUFFICES ASSUME Without # {} PROVE FALSE
    OBVIOUS
  <2>0. Without \subseteq Nat
    BY <1>0
  <2>1. PICK n \in Without : \A k \in Without : n <= k
    <3> HIDE DEF Without
    <3> QED BY <2>0, LeastNumber
  <2>2. n \in 0 .. Len(es) /\ ~\E g : Is(g, n)
    OBVIOUS
  <2>3. n # 0
    BY <1>2, <2>2, Zenon
  <2>4. n - 1 \in 0 .. Len(es) /\ n - 1 \in Nat /\ (n - 1) + 1 = n
    BY <1>0, <2>2, <2>3
  <2>5. n - 1 \notin Without
    <3> HIDE DEF Without
    <3> QED BY <2>1, <2>2, <2>4
  <2>6. \E g : Is(g, n - 1)
    BY <2>4, <2>5, Zenon
  <2> HIDE DEF Is
  <2>7. \E g : Is(g, (n - 1) + 1)
    BY <1>3, <2>4, <2>6, Zenon
  <2> QED BY <2>2, <2>4, <2>7
<1>5. Is(it, Len(es))
  <2>0. Len(es) \in 0 .. Len(es)
    BY <1>0
  <2>1. \E g : Is(g, Len(es))
    BY <2>0, <1>4, Zenon
  <2> HIDE DEF Is
  <2> QED BY <2>1, Zenon
<1>6. \A s \in SUBSET (1 .. Len(es)) :
        it[s] = IF s = {} THEN begin ELSE A!BoundBlock(it[s \ {A!Max(s)}], es[A!Max(s)])
  BY <1>5, Zenon
<1> HIDE DEF it, Is, es
<1> DEFINE Bad == {n \in 0 .. Len(es) : ~Sound(it[1 .. n], failing)}
<1>7. Bad = {}
  <2> SUFFICES ASSUME Bad # {} PROVE FALSE
    OBVIOUS
  <2>0. Bad \subseteq Nat
    BY <1>0
  <2>1. PICK n \in Bad : \A k \in Bad : n <= k
    <3> HIDE DEF Bad
    <3> QED BY <2>0, LeastNumber
  <2>2. n \in 0 .. Len(es) /\ ~Sound(it[1 .. n], failing)
    OBVIOUS
  <2>3. n # 0
    <3>1. 1 .. 0 = {} /\ {} \in SUBSET (1 .. Len(es))
      OBVIOUS
    <3>2. it[1 .. 0] = begin
      BY <1>6, <3>1, Zenon
    <3> QED BY <1>b, <2>2, <3>2, Zenon
  <2>4. n \in 1 .. Len(es) /\ n - 1 \in 0 .. Len(es) /\ n - 1 \in Nat /\ n \in Nat /\ ~(n <= n - 1)
    BY <1>0, <2>2, <2>3
  <2>5. Sound(it[1 .. (n - 1)], failing)
    <3>1. n - 1 \notin Bad
      <4> HIDE DEF Bad
      <4> QED BY <2>1, <2>4
    <3> QED BY <2>4, <3>1
  <2>6. 1 .. n \in SUBSET (1 .. n) /\ n \in 1 .. n
    BY <2>4
  <2>7. A!Max(1 .. n) = n
    BY <2>4, <2>6, LargestIs
  <2>8. 1 .. n \in SUBSET (1 .. Len(es)) /\ 1 .. n # {}
    <3>1. \A x \in 1 .. n : x \in 1 .. Len(es)
      BY <1>0, <2>4
    <3> QED BY <2>6, <3>1, Zenon
  <2>9. (1 .. n) \ {n} = 1 .. (n - 1)
    BY <2>4
  <2>10. it[1 .. n] = A!BoundBlock(it[1 .. (n - 1)], es[n])
    BY <1>6, <2>7, <2>8, <2>9, Zenon
  <2>11. Sound(A!BoundBlock(it[1 .. (n - 1)], es[n]), failing)
    BY <1>a, <2>4, <2>5, BlockKeeps
  <2> QED BY <2>2, <2>10, <2>11, Zenon
<1>8. Sound(it[1 .. Len(es)], failing)
  <2>1. Len(es) \in 0 .. Len(es)
    BY <1>0
  <2> QED BY <1>7, <2>1
<1> QED BY <1>0, <1>1, <1>8, StructuredKeeps

\* Artifacts: a service that is up knows what it keeps.
StoreInv ==
  /\ up \in BOOLEAN /\ saved \in Nat
  /\ up = TRUE => Keeps(store, saved + 1, broken)

LEMMA ResultsAre == ToolResults \subseteq [content : Seq(Block), structured : Nat]
<1>1. Text(1) \in Block /\ Text(2) \in Block /\ Text(4) \in Block /\ Image(2) \in Block
      /\ Image(3) \in Block /\ [kind |-> "other", size |-> 5] \in Block
  BY DEF Text, Image, Block
<1>2. /\ <<Text(1)>> \in Seq(Block) /\ <<Text(4), Text(2)>> \in Seq(Block)
      /\ <<Text(1), Image(2), Text(2)>> \in Seq(Block)
      /\ <<Image(3), [kind |-> "other", size |-> 5]>> \in Seq(Block)
  BY <1>1
<1> QED BY <1>2 DEF ToolResults

LEMMA EmptyKeeps ==
  ASSUME NEW next \in Nat, NEW kept, NEW lost, kept \subseteq lost
  PROVE  Keeps([entries |-> <<>>, total |-> 0, files |-> kept], next, lost)
<1>1. PICK s : s = [entries |-> <<>>, total |-> 0, files |-> kept]
  OBVIOUS
<1>2. s.entries = <<>> /\ s.total = 0 /\ s.files = kept /\ s.entries \in Seq(Entry) /\ Len(s.entries) = 0
      /\ s = [entries |-> s.entries, total |-> s.total, files |-> s.files]
  BY <1>1
<1>3. A!Ids(<<>>) = {}
  BY DEF A!Ids
<1>4. Keeps(s, next, lost)
  BY <1>2, <1>3, SizeOfNone DEF Keeps, Knows
<1> QED BY <1>1, <1>4

LEMMA StoreStarts == A!Init => StoreInv
<1> SUFFICES ASSUME A!Init PROVE StoreInv
  OBVIOUS
<1>1. Keeps([entries |-> <<>>, total |-> 0, files |-> {}], 0 + 1, broken)
  BY EmptyKeeps
<1> QED BY <1>1 DEF A!Init, StoreInv

\* A budget and what came on top of it.
LEMMA SurplusNonNegative ==
  ASSUME NEW b \in Nat, NEW s \in Nat, NEW n \in Nat, n >= s
  PROVE  0 <= b + (n - s)
<1>1. n - s \in Nat
  OBVIOUS
<1> QED BY <1>1

\* What a call leaves, whichever of its writes fails.
LEMMA CallKeepsStore ==
  ASSUME StoreInv, NEW r \in ToolResults, A!Call(r)
  PROVE  /\ StoreInv'
         /\ reply'.inline <= Budget + (saved' - saved) /\ reply'.structured <= Budget + (saved' - saved)
         /\ reply'.links # {} => \E e \in A!Ids(store'.entries) : \A l \in reply'.links : l <= e
<1>0. Budget \in Nat /\ MaxSingle \in Nat
  BY SessionAssumption DEF A!ArtifactsAssumption
<1>1. up = TRUE /\ up' = up /\ saved \in Nat /\ Keeps(store, saved + 1, broken)
  BY DEF StoreInv, A!Call
<1>2. PICK failing :
        LET w == A!BoundResult(r, failing)
        IN /\ store' = w.store /\ saved' = w.next - 1
           /\ reply' = IF w.ok THEN [inline |-> w.inline, structured |-> w.structured,
                                     links |-> w.links] ELSE A!NoReply
           /\ broken' = IF w.ok THEN broken ELSE broken \cup {failing}
  BY Zenon DEF A!Call
<1>3. PICK w : w = A!BoundResult(r, failing)
  OBVIOUS
<1>4. Sound(w, failing)
  BY <1>0, <1>1, <1>3, ResultsAre, ResultKeeps
<1>5. store' = w.store /\ saved' = w.next - 1 /\ w.next \in Nat \ {0}
  BY <1>1, <1>2, <1>3, <1>4 DEF Sound
<1>6. w.ok \in BOOLEAN
  BY <1>4 DEF Sound
<1>7. broken' = IF w.ok THEN broken ELSE broken \cup {failing}
  BY <1>2, <1>3
<1>8. Keeps(w.store, w.next, broken')
  BY <1>4, <1>6, <1>7 DEF Sound
<1>9. saved' + 1 = w.next /\ saved' \in Nat
  BY <1>5
<1>10. StoreInv'
  <2>1. Keeps(store', saved' + 1, broken')
    BY <1>5, <1>8, <1>9
  <2>2. Keeps(store, saved + 1, broken)'
    BY <2>1 DEF Keeps, Knows
  <2> QED BY <1>1, <1>9, <2>2 DEF StoreInv
<1>11. CASE w.ok = FALSE
  <2>1. reply' = A!NoReply
    BY <1>2, <1>3, <1>11
  <2>2. reply'.inline = 0 /\ reply'.structured = 0 /\ reply'.links = {}
    BY <2>1 DEF A!NoReply
  <2>3. saved \in Nat /\ saved' \in Nat /\ saved' >= saved
    BY <1>4, <1>5 DEF Sound
  <2>4. 0 <= Budget + (saved' - saved)
    BY <1>0, <2>3, SurplusNonNegative
  <2> QED BY <1>10, <2>2, <2>4
<1>12. CASE w.ok = TRUE
  <2>1. reply' = [inline |-> w.inline, structured |-> w.structured, links |-> w.links]
    BY <1>2, <1>3, <1>12
  <2>2. reply'.inline = w.inline /\ reply'.structured = w.structured /\ reply'.links = w.links
    BY <2>1
  <2>3. w.inline <= Budget + (saved' - saved) /\ w.structured <= Budget + (saved' - saved)
    <3>1. /\ saved \in Nat /\ w.next \in Nat /\ w.used <= Budget /\ w.used \in Nat
          /\ w.inline <= w.used + (w.next - (saved + 1))
          /\ w.structured <= Budget + (w.next - (saved + 1)) /\ w.inline \in Int /\ w.structured \in Int
      BY <1>0, <1>4 DEF Sound
    <3>2. w.next - (saved + 1) = saved' - saved
      BY <1>5, <3>1
    <3> QED BY <1>0, <1>5, <3>1, <3>2
  <2>4. ASSUME w.links # {}
        PROVE  \E e \in A!Ids(store'.entries) : \A l \in w.links : l <= e
    <3>1. w.store.entries # <<>> /\ w.store.entries \in Seq(Entry)
      BY <1>4, <1>8, <2>4 DEF Sound, Keeps, Knows
    <3>2. Len(w.store.entries) \in 1 .. Len(w.store.entries) /\ DOMAIN w.store.entries = 1 .. Len(w.store.entries)
      BY <3>1, EmptySeq, LenProperties
    <3>3. w.store.entries[Len(w.store.entries)].id \in A!Ids(store'.entries)
      BY <1>5, <3>2 DEF A!Ids
    <3>4. \A l \in w.links : l <= w.store.entries[Len(w.store.entries)].id
      BY <1>4, <2>4 DEF Sound
    <3> QED BY <3>3, <3>4
  <2> QED BY <1>10, <2>2, <2>3, <2>4
<1> QED BY <1>6, <1>11, <1>12

LEMMA StoreStep ==
  ASSUME StoreInv, [A!Next]_aVars
  PROVE  StoreInv' /\ (reply' # reply =>
           /\ reply'.inline <= Budget + (saved' - saved) /\ reply'.structured <= Budget + (saved' - saved)
           /\ reply'.links # {} => \E e \in A!Ids(store'.entries) : \A l \in reply'.links : l <= e)
<1>0. Budget \in Nat
  BY SessionAssumption DEF A!ArtifactsAssumption
<1>1. ASSUME NEW r \in ToolResults, A!Call(r)
      PROVE  StoreInv' /\ (reply' # reply =>
               /\ reply'.inline <= Budget + (saved' - saved) /\ reply'.structured <= Budget + (saved' - saved)
               /\ reply'.links # {} => \E e \in A!Ids(store'.entries) : \A l \in reply'.links : l <= e)
  BY <1>1, CallKeepsStore
<1>2. CASE A!Clear
  <2>1. PICK kept : kept = store.files \ A!Ids(store.entries)
    OBVIOUS
  <2>2. up = TRUE /\ up' = up /\ saved' = saved /\ broken' = broken /\ reply' = reply
        /\ store' = [entries |-> <<>>, total |-> 0, files |-> kept]
    BY <1>2, <2>1 DEF A!Clear, StoreInv
  <2>3. kept \subseteq broken /\ saved + 1 \in Nat /\ saved \in Nat
    BY <2>1, <2>2 DEF StoreInv, Keeps, Knows
  <2>4. Keeps(store', saved' + 1, broken')
    BY <2>2, <2>3, EmptyKeeps
  <2>5. Keeps(store, saved + 1, broken)'
    BY <2>4 DEF Keeps, Knows
  <2> QED BY <2>2, <2>3, <2>5 DEF StoreInv
<1>3. CASE A!Dies
  <2>1. up' = FALSE /\ saved' = saved /\ reply' = A!NoReply
    BY <1>3 DEF A!Dies
  <2>2. reply'.inline = 0 /\ reply'.structured = 0 /\ reply'.links = {}
    BY <2>1 DEF A!NoReply
  <2>3. StoreInv'
    BY <2>1 DEF StoreInv
  <2>4. saved' - saved = 0
    BY <2>1 DEF StoreInv
  <2> QED BY <1>0, <2>2, <2>3, <2>4
<1>4. CASE A!Prepare
  <2>1. up' = TRUE /\ saved' = saved /\ broken' = {} /\ reply' = reply
        /\ store' = [entries |-> <<>>, total |-> 0, files |-> {}]
    BY <1>4 DEF A!Prepare, A!Purged
  <2>2. saved + 1 \in Nat /\ saved \in Nat
    BY DEF StoreInv
  <2>3. Keeps(store', saved' + 1, broken')
    BY <2>1, <2>2, EmptyKeeps
  <2>4. Keeps(store, saved + 1, broken)'
    BY <2>3 DEF Keeps, Knows
  <2> QED BY <2>1, <2>2, <2>4 DEF StoreInv
<1>5. ASSUME UNCHANGED <<store, saved, reply, up, broken>>
      PROVE  StoreInv' /\ reply' = reply
  BY <1>5 DEF StoreInv, Keeps, Knows
<1>6. ASSUME NEW r \in Reader, A!LookUp(r) \/ A!Open(r) \/ A!Deliver(r)
      PROVE  UNCHANGED <<store, saved, reply, up, broken>>
  BY <1>6 DEF A!LookUp, A!Open, A!Deliver
<1> QED BY <1>1, <1>2, <1>3, <1>4, <1>5, <1>6 DEF A!Next, aVars

-----------------------------------------------------------------------------
(* What the run session checks of these modules: each invariant holds at   *)
(* first, its module's steps keep it, and the others' do not touch it.     *)

\* A start whose last answer was a refusal ends as busy, and only one that has been refused
\* does (client.py, start_server).  A call that returns its result has closed its server or
\* found it gone, and one whose body raised reports that, whatever became of the closing
\* (client.py, with_server).
THEOREM ReportsTrueHolds == Spec => []ReportsTrue
<1>1. Init => ClientInv /\ StartInv
  BY ClientStarts, StartStarts DEF Init
<1>2. ClientInv /\ [Next]_vars => ClientInv'
  BY SideBySide, ClientStep
<1>3. StartInv /\ [Next]_vars => StartInv'
  BY SideBySide, StartStep
<1>4. ClientInv /\ StartInv => ReportsTrue
  <2> SUFFICES ASSUME ClientInv, StartInv PROVE ReportsTrue
    OBVIOUS
  <2>1. S!CloseReported
    BY SessionAssumption DEF ClientInv, Reported, S!CloseReported, S!ClientSessionAssumption
  <2>2. D!BusyIsReported
    BY DEF StartInv
  <2> QED BY <2>1, <2>2 DEF ReportsTrue
<1> QED BY <1>1, <1>2, <1>3, <1>4, PTL DEF Spec

\* What was begun leaves nothing behind, however its threads, processes and cancellations
\* interleave: a local build no asset of its own in the caller's context, and the caller's
\* files as they were (docker_service.py); a client that is closed no task and no call
\* (shared.py, _drain); a command that is over no process of its group and no private file
\* (bash_executor.py).
THEOREM LeavesNothingHolds == Spec => []LeavesNothing
<1>1. Init => StagingInv /\ ClientInv /\ BashInv
  BY StagingStarts, ClientStarts, BashStarts DEF Init
<1>2. StagingInv /\ [Next]_vars => StagingInv'
  BY SideBySide, StagingStep
<1>3. ClientInv /\ [Next]_vars => ClientInv'
  BY SideBySide, ClientStep
<1>4. BashInv /\ [Next]_vars => BashInv'
  BY SideBySide, BashStep
<1>5. StagingInv /\ ClientInv /\ BashInv => LeavesNothing
  <2> SUFFICES ASSUME StagingInv, ClientInv, BashInv PROVE LeavesNothing
    OBVIOUS
  <2>1. C!ContextRestored
    BY DEF StagingInv, Spared, Listed, C!ContextRestored
  <2>2. S!NothingPending
    BY DEF ClientInv, Awaits, Shutting, S!NothingPending, S!Quiet, S!Busy
  <2>3. B!GroupEnded
    <3>1. cutB = FALSE <=> ~cutB
      BY Zenon DEF BashInv, BashTypes
    <3> QED BY <3>1, Groups DEF BashInv, Ended, B!GroupEnded, B!At
  <2>4. B!FilesGone
    BY DEF BashInv
  <2> QED BY <2>1, <2>2, <2>3, <2>4 DEF LeavesNothing
<1> QED BY <1>1, <1>2, <1>3, <1>4, <1>5, PTL DEF Spec

\* What a command returns is all that anybody has written before its end (bash_executor.py,
\* _communicate_bounded), and of an output that is too long both its ends (_OutputCollector);
\* an upload that succeeds alone leaves its data in the file, and a download that succeeds is
\* what the file held at one moment since it began, unless a place it had read, or was told of
\* by the size, was written anew (operations/files.py, file_manager.py).
THEOREM DataKeptHolds == Spec => []DataKept
<1>1. Init => BashInv /\ ResultInv /\ OutputInv /\ TransferInv
  BY BashStarts, ResultStarts, OutputStarts, TransferStarts DEF Init
<1>2. BashInv /\ ResultInv /\ [Next]_vars => BashInv' /\ ResultInv'
  BY SideBySide, BashStep, ResultStep
<1>3. OutputInv /\ [Next]_vars => OutputInv'
  BY SideBySide, OutputStep
<1>4. TransferInv /\ [Next]_vars => TransferInv'
  BY SideBySide, TransferStep
<1>5. ResultInv /\ OutputInv /\ TransferInv => DataKept
  BY ResultIsComplete, EndsAreKept, TransfersAreSound DEF DataKept
<1> QED BY <1>1, <1>2, <1>3, <1>4, <1>5, PTL DEF Spec

\* A service that runs knows what it keeps and keeps within its limits, and a result that a tool
\* call returns keeps to the budget, but for a stand-in per artifact it saved, and links to what
\* its store has kept last (_bound_result, _evict and purge_storage of the OpenHands runtime).
THEOREM ArtifactsKeptHolds == Spec => ArtifactsKept
<1>1. Init => StoreInv
  BY StoreStarts DEF Init
<1>2. StoreInv /\ [Next]_vars => StoreInv'
  BY SideBySide, StoreStep
<1>3. StoreInv /\ [Next]_vars => [A!ReplyBounded]_(A!vars)
  <2> SUFFICES ASSUME StoreInv, [Next]_vars PROVE [A!ReplyBounded]_(A!vars)
    OBVIOUS
  <2>1. [A!Next]_aVars
    BY SideBySide
  <2>2. saved \in Nat /\ saved' \in Nat
    BY <2>1, StoreStep DEF StoreInv
  <2>3. A!StandIn * (saved' - saved) = saved' - saved
    BY <2>2 DEF A!StandIn
  <2> QED BY <2>1, <2>3, StoreStep DEF A!ReplyBounded
<1>4. StoreInv => A!StoreAccounted
  BY DEF StoreInv, Keeps, Knows, A!StoreAccounted
<1> QED BY <1>1, <1>2, <1>3, <1>4, PTL DEF Spec, ArtifactsKept, A!ArtifactsKept

\* A terminal session tells its browser what really ended it, and leaves no stream and no task
\* in the orchestrator (pod_shell.py); a forwarded WebSocket leaves no server connected and no task
\* running, and closes with 1000 only what its server has ended (forwarding.py).
THEOREM PeersReleasedHolds == Spec => []PeersReleased
<1>1. Init => ShellInv /\ RelayInv
  BY ShellStarts, RelayStarts DEF Init
<1>2. ShellInv /\ [Next]_vars => ShellInv'
  BY SideBySide, ShellStep
<1>3. RelayInv /\ [Next]_vars => RelayInv'
  BY SideBySide, RelayStep
<1>4. ShellInv /\ RelayInv => PeersReleased
  BY DEF ShellInv, RelayInv, PeersReleased
<1> QED BY <1>1, <1>2, <1>3, <1>4, PTL DEF Spec
-----------------------------------------------------------------------------
(* The types that the invariants leave open: bounds, and what their proofs *)
(* do not need.                                                            *)

(* The attempt to close that fails last ends the call and is not counted.  *)
TriesLeft == \A c \in Caller : tries[c] < S!MaxAttempts

LEMMA ClientTypesStay ==
  ClientInv /\ S!TypeOK /\ TriesLeft /\ [S!Next]_sVars => S!TypeOK' /\ TriesLeft'
<1> SUFFICES ASSUME ClientInv, S!TypeOK, TriesLeft, [S!Next]_sVars PROVE S!TypeOK' /\ TriesLeft'
  OBVIOUS
<1> DEFINE Rest ==
      /\ cut \subseteq Caller /\ tries \in [Caller -> 0 .. 2]
      /\ loop \in {"running", "stopped"} /\ http \in {"open", "closed"}
      /\ beat \in {"none", "running", "cancelled", "over"}
      /\ reg \in {"none", "registered", "stopped"} /\ faultsS \in 0 .. ClientFaults
<1>0. ClientFaults \in Nat /\ OwnsHttp \in BOOLEAN
  BY SessionAssumption DEF S!ClientSessionAssumption
<1>1. ClientInv'
  BY ClientStep
<1>2. Rest
  BY DEF S!TypeOK, TriesLeft, S!MaxAttempts
<1> USE DEF S!calls
<1>3. S!Fault \/ S!NoFault => faultsS' \in 0 .. ClientFaults
  BY <1>0, <1>2 DEF S!Fault, S!NoFault
<1>4. UNCHANGED sVars => Rest'
  BY <1>2 DEF sVars
<1>5. S!Enter => Rest'
  BY <1>2, <1>3 DEF S!Enter, S!ReleaseHttp
<1>6. S!Leave => Rest'
  BY <1>2 DEF S!Leave
<1>7. ASSUME S!Deregister \/ S!Exit PROVE Rest'
  <2>1. cut' \subseteq Caller
    BY <1>2, <1>7 DEF S!Exit, S!Deregister, S!Release, S!BeginDrain, S!Drained, S!ToCancel, S!Busy, S!Waited, S!Stop
  <2>2. faultsS' \in 0 .. ClientFaults
    BY <1>2, <1>3, <1>7 DEF S!Exit, S!Deregister, S!Release, S!BeginDrain, S!Drained, S!Waited, S!Stop
  <2>3. tries' = tries /\ beat' = beat
    BY <1>7 DEF S!Exit, S!Deregister, S!Release, S!BeginDrain, S!Drained, S!Waited, S!Stop
  <2>4. /\ loop' \in {loop, "stopped"} /\ http' \in {http, "closed"} /\ reg' \in {reg, "stopped"}
    BY <1>7 DEF S!Exit, S!Deregister, S!Release, S!ReleaseHttp, S!BeginDrain, S!Drained, S!Waited, S!Stop
  <2> QED
    BY <1>2, <2>1, <2>2, <2>3, <2>4
<1>8. S!BeatEnds => Rest'
  BY <1>2 DEF S!BeatEnds
<1>9. ASSUME NEW c \in Caller,
             S!CheckStarted(c) \/ S!ThreadStep(c) \/ S!TimesOut(c) \/ S!Body(c) \/ S!StartEnds(c)
      PROVE  Rest'
  BY <1>2, <1>9 DEF S!CheckStarted, S!ThreadStep, S!Submit, S!Answered, S!TimesOut, S!Body, S!StartEnds
<1>10. ASSUME NEW c \in Caller, S!Begin(c) \/ S!Cancelled(c)
       PROVE  Rest'
  BY <1>2, <1>10 DEF S!Begin, S!Cancelled, S!Ends
<1>11. ASSUME NEW c \in Caller, S!Post(c) \/ S!Poll(c)
       PROVE  Rest'
  <2>1. tries' = tries /\ UNCHANGED <<cut, loop, http, beat, reg>>
    BY <1>11 DEF S!Post, S!Poll, S!Ends
  <2>2. faultsS' \in 0 .. ClientFaults
    BY <1>3, <1>11 DEF S!Post, S!Poll
  <2> QED BY <1>2, <2>1, <2>2
<1>12. ASSUME NEW c \in Caller, S!Close(c)
       PROVE  Rest'
  <2>1. tries' = tries \/ (tries[c] + 1 # S!MaxAttempts /\ tries' = [tries EXCEPT ![c] = @ + 1])
    BY <1>12 DEF S!Close, S!FailedAttempt, S!Ends
  <2>2. tries' \in [Caller -> 0 .. 2]
    BY <1>2, <2>1 DEF S!MaxAttempts
  <2>3. faultsS' \in 0 .. ClientFaults /\ UNCHANGED <<cut, loop, http, beat, reg>>
    BY <1>3, <1>12 DEF S!Close
  <2> QED BY <1>2, <2>2, <2>3
<1>13. Rest'
  <2> HIDE DEF Rest
  <2> QED
    BY <1>4, <1>5, <1>6, <1>7, <1>8, <1>9, <1>10, <1>11, <1>12 DEF S!Next, S!CallStep
<1> QED BY <1>1, <1>13 DEF ClientInv, ClientTypes, S!TypeOK, TriesLeft, S!MaxAttempts

LEMMA BashTypesStay == BashInv /\ B!TypeOK /\ [B!Next]_bVars => B!TypeOK'
<1> SUFFICES ASSUME BashInv, B!TypeOK, [B!Next]_bVars PROVE B!TypeOK'
  OBVIOUS
<1> DEFINE Rest ==
      /\ thread \in {"none", "writing", "written", "failed"}
      /\ files \subseteq {"script", "environment"} /\ holds \subseteq B!Process
      /\ reader \in {"none", "reading", "complete", "failed", "cancelled"}
           Bounds == reason \in B!Reason /\ cancels \in 0 .. MaxCancels /\ faultsB \in 0 .. BashFaults
           Steps ==
             \/ B!Begin \/ B!OutputWritten \/ B!Spawn \/ B!Waited \/ B!TimesOut \/ B!Terminate
             \/ B!Grace \/ B!Kill \/ B!Drain \/ B!Reap \/ B!Join \/ B!Cancel \/ B!ThreadEnds
             \/ B!ReaderEnds \/ B!Fork \/ \E p \in B!Process : B!Exit(p)
<1>0. MaxCancels \in Nat /\ BashFaults \in Nat
  BY SessionAssumption DEF B!BashCommandAssumption
<1>1. BashInv'
  BY BashStep
<1>2. Rest /\ Bounds /\ sudo \in BOOLEAN
  BY DEF B!TypeOK
<1>3. Steps \/ UNCHANGED bVars
  BY DEF B!Next, B!Call
<1>4. Rest'
  BY <1>2, <1>3 DEF bVars, B!Process, B!Begin, B!OutputWritten, B!Spawn, B!Waited, B!TimesOut, B!Terminate, B!Grace,
     B!Kill, B!Drain, B!Drained, B!Reap, B!Join, B!Cancel, B!CancelSpawn, B!CancelWait, B!ThreadEnds,
     B!ReaderEnds, B!Fork, B!Exit
<1>5. reason' \in B!Reason
  BY <1>2, <1>3 DEF bVars, B!Reason, B!Ends, B!Begin, B!OutputWritten, B!Spawn, B!Waited, B!TimesOut, B!Terminate, B!Grace,
     B!Kill, B!Drain, B!Reap, B!Join, B!Cancel, B!ThreadEnds, B!ReaderEnds, B!Fork, B!Exit
<1>6. cancels' \in 0 .. MaxCancels
  BY <1>0, <1>2, <1>3 DEF bVars, B!Same, B!Begin, B!OutputWritten, B!Spawn, B!Waited, B!TimesOut, B!Terminate, B!Grace,
     B!Kill, B!Drain, B!Reap, B!Join, B!Cancel, B!ThreadEnds, B!ReaderEnds, B!Fork, B!Exit
<1>7. B!Fault \/ B!NoFault
  BY <1>3 DEF bVars, B!NoFault, B!Begin, B!OutputWritten, B!Spawn, B!Waited, B!TimesOut, B!Terminate, B!Grace,
     B!Kill, B!KillGroup, B!Drain, B!Reap, B!Join, B!Cancel, B!ThreadEnds, B!ReaderEnds, B!Fork, B!Exit
<1>8. faultsB' \in 0 .. BashFaults
  BY <1>0, <1>2, <1>7 DEF B!Fault, B!NoFault
<1>9. sudo' \in BOOLEAN
  <2>1. sudo' \in BOOLEAN \/ sudo' = sudo
    <3>1. CASE B!Begin
      BY <3>1 DEF B!Begin
    <3>2. CASE ~B!Begin
      BY <1>3, <3>2 DEF bVars, B!Same, B!OutputWritten, B!Spawn, B!Waited, B!TimesOut, B!Terminate, B!Grace,
         B!Kill, B!Drain, B!Reap, B!Join, B!Cancel, B!ThreadEnds, B!ReaderEnds, B!Fork, B!Exit
    <3> QED BY <3>1, <3>2
  <2> QED BY <1>2, <2>1
<1> QED BY <1>1, <1>4, <1>5, <1>6, <1>8, <1>9 DEF BashInv, BashTypes, B!TypeOK

LEMMA ShellTypesStay == ShellInv /\ P!TypeOK /\ [P!Next]_pVars => P!TypeOK'
<1> SUFFICES ASSUME ShellInv, P!TypeOK, [P!Next]_pVars PROVE P!TypeOK'
  OBVIOUS
<1> DEFINE Rest ==
      /\ pcP \in {"check", "connect", "relay", "close", "closed"}
      /\ browser \in {"open", "gone"} /\ stream \in {"none", "open", "ended", "closed"}
      /\ shell \in {"none", "up", "gone"} /\ status \in {"none", "exit code", "failure"}
      /\ since \in 0 .. IdleTimeout /\ inputs \in 0 .. MaxInputs
           Steps ==
             \/ P!Check \/ P!Connect \/ P!RelayEnds \/ P!Close \/ P!FromBrowser \/ P!FromPod \/ P!Idles
             \/ P!BrowserGoes \/ P!StreamCloses \/ P!ShellEnds \/ P!Tick \/ UNCHANGED pVars
<1>0. MaxInputs \in Nat /\ IdleTimeout \in Nat
  BY SessionAssumption DEF P!PodShellAssumption
<1>1. ShellInv'
  BY ShellStep
<1>2. Rest /\ told \in P!Reason \cup {"none", "disconnected", "failed"}
      /\ task \in [P!Side -> P!Reason \cup {"none", P!Running, P!Failed, P!Raised, P!Cancelled}]
  BY DEF P!TypeOK
<1>3. Steps
  BY DEF P!Next, P!Handler
<1>4. Rest'
  <2>1. /\ pcP' \in {pcP, "connect", "relay", "close", "closed"} /\ browser' \in {browser, "gone"}
        /\ status' \in {status, "none", "exit code", "failure"}
    BY <1>3 DEF pVars, P!Go, P!Check, P!Connect, P!RelayEnds, P!Close, P!FromBrowser, P!FromPod, P!Idles,
     P!BrowserGoes, P!StreamCloses, P!ShellEnds, P!Tick
  <2>2. /\ stream' \in {stream, "open", "ended", "closed"} /\ shell' \in {shell, "up", "gone"}
    BY <1>3 DEF pVars, P!Go, P!Check, P!Connect, P!RelayEnds, P!Close, P!FromBrowser, P!FromPod, P!Idles,
     P!BrowserGoes, P!StreamCloses, P!ShellEnds, P!Tick
  <2>3. /\ since' \in {since, 0} \/ (since < IdleTimeout /\ since' = since + 1)
        /\ inputs' = inputs \/ (inputs < MaxInputs /\ inputs' = inputs + 1)
    BY <1>3 DEF pVars, P!Go, P!Check, P!Connect, P!RelayEnds, P!Close, P!FromBrowser, P!FromPod, P!Idles,
     P!BrowserGoes, P!StreamCloses, P!ShellEnds, P!Tick
  <2>4. since' \in 0 .. IdleTimeout /\ inputs' \in 0 .. MaxInputs
    <3>1. since \in 0 .. IdleTimeout /\ inputs \in 0 .. MaxInputs
      BY <1>2
    <3>2. since' \in 0 .. IdleTimeout
      BY <1>0, <2>3, <3>1
    <3>3. inputs' \in 0 .. MaxInputs
      BY <1>0, <2>3, <3>1
    <3> QED BY <3>2, <3>3
  <2> QED BY <1>2, <2>1, <2>2, <2>4
<1>5. told' \in P!Reason \cup {"none", "disconnected", "failed"}
  <2>1. P!Outcome \in P!Reason \cup {"disconnected", "failed"}
    <3>1. \A s \in P!Clean : task[s] \in P!Reason
      BY <1>2 DEF P!Clean, P!Finished, P!Running, P!Failed, P!Raised, P!Cancelled
    <3> QED BY <3>1 DEF P!Outcome, P!Unclean
  <2>2. told' \in {told, P!Outcome, "failed"}
    BY <1>3 DEF pVars, P!Check, P!Connect, P!RelayEnds, P!Close, P!FromBrowser, P!FromPod, P!Idles,
       P!BrowserGoes, P!StreamCloses, P!ShellEnds, P!Tick
  <2> QED BY <1>2, <2>1, <2>2
<1> QED BY <1>1, <1>4, <1>5 DEF ShellInv, P!TypeOK

LEMMA TransferTypesStay == TransferInv /\ X!TypeOK /\ [X!Next]_xVars => X!TypeOK'
<1> SUFFICES ASSUME TransferInv, X!TypeOK, [X!Next]_xVars PROVE X!TypeOK'
  OBVIOUS
<1> DEFINE Tries == \A t \in X!Transfer : xfer[t].try \in 0 .. TransferFaults
<1>0. Total \in Nat /\ TransferFaults \in Nat /\ MaxWrites \in Nat /\ Uploader \subseteq X!Transfer
  BY SessionAssumption DEF X!FileTransferAssumption, X!Transfer
<1>1. TransferInv'
  BY TransferStep
<1>2. /\ source \in [Uploader -> 0 .. Total] /\ Tries
      /\ writes \in 0 .. MaxWrites /\ faultsX \in 0 .. TransferFaults
      /\ xfer \in [X!Transfer -> XferRecord] /\ torn \subseteq Downloader
  BY DEF X!TypeOK, TransferInv, TransferTypes, XferRecord
<1>3. /\ source' \in [Uploader -> 0 .. Total] /\ writes' \in 0 .. MaxWrites /\ faultsX' \in 0 .. TransferFaults
      /\ (Tries => Tries')
  <2>1. CASE UNCHANGED xVars
    BY <1>2, <2>1 DEF xVars
  <2>2. ASSUME NEW t \in X!Transfer, X!Client(t)
        PROVE  UNCHANGED <<source, writes, faultsX>> /\ Tries'
    <3>1. xfer' = [xfer EXCEPT ![t] = xfer'[t]] /\ xfer'[t].try = xfer[t].try
      <4>1. CASE X!Send(t)
        BY <1>2, <4>1 DEF X!Send, XferRecord
      <4>2. CASE X!Receive(t)
        <5>1. xfer' = [xfer EXCEPT ![t] = IF t \in Uploader THEN X!Uploaded(t) ELSE X!Downloaded(t)]
          BY <4>2 DEF X!Receive
        <5>2. X!Uploaded(t).try = xfer[t].try /\ X!Downloaded(t).try = xfer[t].try
          BY <1>2 DEF X!Uploaded, X!Downloaded, XferRecord
        <5> QED BY <1>2, <5>1, <5>2
      <4> QED BY <2>2, <4>1, <4>2 DEF X!Client
    <3>2. UNCHANGED <<source, writes, faultsX>>
      BY <2>2 DEF X!Client, X!Send, X!Receive
    <3> QED BY <1>2, <3>1, <3>2
  <2>3. ASSUME NEW t \in X!Transfer, X!TimesOut(t)
        PROVE  UNCHANGED <<source, writes>> /\ faultsX' \in 0 .. TransferFaults /\ Tries'
    BY <1>0, <1>2, <2>3 DEF X!TimesOut, X!Fault, XferRecord
  <2>4. CASE X!Arrive
    <3>1. PICK b \in X!Transfer : \/ \E m \in wire : b = m.by /\ (X!ArriveUpload(m) \/ X!ArriveDownload(m))
                                  \/ \E l \in look : b = l.req.by /\ X!Read(l)
      <4>1. (\A m \in wire : m.by \in X!Transfer) /\ \A l \in look : l.req.by \in X!Transfer
        BY DEF X!TypeOK, X!Transfer
      <4> QED BY <2>4, <4>1 DEF X!Arrive
    <3>3. \A t \in X!Transfer : xfer'[t].try = xfer[t].try
      <4>1. CASE xfer' = xfer
        BY <4>1
      <4>2. CASE xfer' # xfer
        <5>1. xfer' = [xfer EXCEPT ![b] = xfer'[b]] /\ xfer'[b].try = xfer[b].try
          <6>1. PICK r, n : \/ xfer' = [xfer EXCEPT ![b].pc = "answered", ![b].answer = r]
                            \/ xfer' = [xfer EXCEPT ![b].pc = "failed"]
                            \/ xfer' = [xfer EXCEPT ![b].pc = "answered", ![b].size = n,
                                                  ![b].answer = r]
            BY <3>1, <4>2 DEF X!ArriveUpload, X!ArriveDownload, X!Read
          <6>2. xfer[b] \in XferRecord
            BY <1>2
          <6>3. CASE xfer' = [xfer EXCEPT ![b].pc = "answered", ![b].answer = r]
            BY <1>2, <6>2, <6>3 DEF XferRecord
          <6>4. CASE xfer' = [xfer EXCEPT ![b].pc = "failed"]
            BY <1>2, <6>2, <6>4 DEF XferRecord
          <6>5. CASE xfer' = [xfer EXCEPT ![b].pc = "answered", ![b].size = n, ![b].answer = r]
            BY <1>2, <6>2, <6>5 DEF XferRecord
          <6> QED BY <6>1, <6>3, <6>4, <6>5
        <5> QED BY <1>2, <5>1
      <4> QED BY <4>1, <4>2
    <3> QED BY <1>2, <2>4, <3>3 DEF X!Arrive
  <2>5. CASE X!Change
    BY <1>0, <1>2, <2>5 DEF X!Change
  <2>6. ASSUME NEW u \in Uploader, X!Again(u)
        PROVE  UNCHANGED <<source, writes, faultsX>> /\ Tries'
    BY <1>0, <1>2, <2>6 DEF X!Again, X!Idle, XferRecord
  <2>7. ASSUME NEW u \in Uploader, X!SourceShrinks(u)
        PROVE  source' \in [Uploader -> 0 .. Total] /\ writes' \in 0 .. MaxWrites /\ UNCHANGED <<xfer, faultsX>>
    BY <1>0, <1>2, <2>7 DEF X!SourceShrinks
  <2> QED BY <1>2, <2>1, <2>2, <2>3, <2>4, <2>5, <2>6, <2>7 DEF X!Next
<1>4. torn' \subseteq Downloader
  BY <1>2 DEF X!Next, xVars, X!Client, X!Send, X!Receive, X!TimesOut, X!Again, X!Arrive, X!ArriveUpload,
     X!ArriveDownload, X!Read, X!Change, X!SourceShrinks, X!FileBecomes
<1> QED BY <1>1, <1>2, <1>3, <1>4 DEF TransferInv, TransferTypes, X!TypeOK

(* Where calls, commands, transfers and relays are, and what they count,   *)
(* keeps its type, for any number of them and any bounds (client.py,       *)
(* shared.py, bash_executor.py, operations/files.py, pod_shell.py and      *)
(* forwarding.py).                                                         *)
THEOREM TypesHold == Spec => [](S!TypeOK /\ B!TypeOK /\ X!TypeOK /\ P!TypeOK /\ F!TypeOK)
<1> DEFINE Invs == ClientInv /\ BashInv /\ TransferInv /\ ShellInv /\ RelayInv
           Types == S!TypeOK /\ TriesLeft /\ B!TypeOK /\ X!TypeOK /\ P!TypeOK
<1>1. Init => Invs
  BY ClientStarts, BashStarts, TransferStarts, ShellStarts, RelayStarts DEF Init
<1>2. Init => Types
  <2> SUFFICES ASSUME Init PROVE Types
    OBVIOUS
  <2>1. S!TypeOK /\ TriesLeft
    BY SessionAssumption DEF TriesLeft, Init, S!ClientSessionAssumption, S!Init, S!TypeOK, S!Owner, S!Thread, S!Task, S!Future, S!MaxAttempts
  <2>2. B!TypeOK
    <3>1. cutB \in BOOLEAN /\ sudo \in BOOLEAN
      BY Zenon DEF Init, B!Init
    <3>2. MaxCancels \in Nat /\ BashFaults \in Nat
      BY SessionAssumption DEF B!BashCommandAssumption
    <3>3. /\ pcB \in B!Pc /\ reason \in B!Reason /\ thread = "none" /\ files = {} /\ holds = {} /\ reader = "none"
          /\ proc \in [B!Process -> {"none", "up", "gone"}] /\ cancels = 0 /\ faultsB = 0
      BY DEF Init, B!Init, B!Pc, B!Reason
    <3> QED BY <3>1, <3>2, <3>3 DEF B!TypeOK
  <2>3. X!TypeOK
    BY SessionAssumption DEF Init, X!FileTransferAssumption, X!Init, X!TypeOK, X!Transfer, X!Idle
  <2>4. P!TypeOK
    BY SessionAssumption DEF Init, P!PodShellAssumption, P!Init, P!TypeOK, P!NotStarted
  <2> QED BY <2>1, <2>2, <2>3, <2>4
<1>3. Invs /\ [Next]_vars => Invs'
  BY SideBySide, ClientStep, BashStep, TransferStep, ShellStep, RelayStep
<1>4. Invs /\ Types /\ [Next]_vars => Types'
  BY SideBySide, ClientTypesStay, BashTypesStay, TransferTypesStay, ShellTypesStay
<1>5. Invs => F!TypeOK
  BY DEF RelayInv
<1> QED BY <1>1, <1>2, <1>3, <1>4, <1>5, PTL DEF Spec
=============================================================================
