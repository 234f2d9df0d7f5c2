----------------------------- MODULE BashCommand -----------------------------
(***************************************************************************)
(* One call of BashExecutor.execute_bash_command: its task, the thread     *)
(* that writes the script, the processes of the command, and the task      *)
(* that reads their output (bash_executor.py).                             *)
(*                                                                         *)
(* The leader of the process group is the shell, or sudo; a child is in    *)
(* the group; one that is away has left it.  A process may end at any      *)
(* time, so that SIGTERM needs no effect of its own.                       *)
(***************************************************************************)
EXTENDS Integers, FiniteSets

CONSTANTS
  HasTimeout,  \* whether the call has a timeout
  MaxCancels,  \* bound: how often the request's task is cancelled
  MaxFaults    \* bound: calls of the system that fail

BashCommandAssumption ==
  HasTimeout \in BOOLEAN /\ MaxCancels \in Nat /\ MaxFaults \in Nat

VARIABLES
  pc,       \* where the call is
  reason,   \* why the command came to its end
  cut,      \* whether a cancellation cut the ending of its processes short
  sudo,     \* whether the command runs through sudo
  thread,   \* the thread of _write_files
  files,    \* the private files that are there
  proc,     \* the processes of the command
  holds,    \* those that have the output pipes open
  reader,   \* the task that reads the output
  cancels,
  faults

vars == <<pc, reason, cut, sudo, thread, files, proc, holds, reader, cancels, faults>>

Process == {"leader", "child", "away"}
Group == {"leader", "child"}
Up == {p \in Process : proc[p] = "up"}
GroupUp == Up \cap Group

Pc == {"new", "write", "spawn", "run", "term", "termroot", "grace", "kill", "killroot",
       "drain", "reap", "join", "done"}
Reason == {"none", "refused", "ok", "timeout", "cancelled", "error"}

Fault == faults < MaxFaults /\ faults' = faults + 1
NoFault == UNCHANGED faults
At(here) == pc = here
Go(there) == pc' = there
Ends(why) == reason' = why
Same == UNCHANGED <<cut, sudo, cancels>>

\* SIGKILL.
Killed(victims) == proc' = [p \in Process |-> IF p \in victims THEN "gone" ELSE proc[p]]

-----------------------------------------------------------------------------
(* The call, up to the process.                                            *)

\* The working directory, the user, the way to run as that user, the files.
Begin ==
  /\ At("new") /\ UNCHANGED <<cut, proc, holds, reader, cancels>>
  /\ \/ /\ Go("done") /\ Ends("refused") /\ NoFault
        /\ UNCHANGED <<sudo, thread, files>>
     \/ /\ Go("write") /\ Ends("none") /\ NoFault
        /\ sudo' \in BOOLEAN
        /\ files' = IF sudo' THEN {"script", "environment"} ELSE {"script"}
        /\ thread' = "writing"
     \/ /\ Go("join") /\ Ends("error") /\ Fault   \* no second file
        /\ sudo' = TRUE /\ files' = {"script"} /\ UNCHANGED thread

ThreadEnds ==
  /\ thread = "writing"
  /\ \/ thread' = "written" /\ NoFault
     \/ thread' = "failed" /\ Fault
  /\ UNCHANGED <<pc, reason, files, proc, holds, reader>> /\ Same

OutputWritten ==
  /\ At("write") /\ thread # "writing"
  /\ IF thread = "written" THEN Go("spawn") /\ UNCHANGED reason
     ELSE Go("join") /\ Ends("error")
  /\ UNCHANGED <<thread, files, proc, holds, reader, faults>> /\ Same

Spawn ==
  /\ At("spawn")
  /\ \/ /\ Go("run") /\ UNCHANGED reason /\ NoFault
        /\ proc' = [proc EXCEPT !["leader"] = "up"] /\ holds' = {"leader"}
        /\ reader' = "reading"
     \/ Go("join") /\ Ends("error") /\ Fault /\ UNCHANGED <<proc, holds, reader>>
  /\ UNCHANGED <<thread, files>> /\ Same

-----------------------------------------------------------------------------
(* The processes, and their output.                                        *)

\* A process starts with the output of its parent, or with another one.
Fork ==
  /\ "leader" \in Up
  /\ \E p \in {"child", "away"} :
       /\ proc[p] = "none"
       /\ proc' = [proc EXCEPT ![p] = "up"]
       /\ holds' \in {holds, holds \cup {p}}
  /\ UNCHANGED <<pc, reason, thread, files, reader, faults>> /\ Same

Exit(p) ==
  /\ p \in Up
  /\ proc' = [proc EXCEPT ![p] = "gone"]
  /\ UNCHANGED <<pc, reason, thread, files, holds, reader, faults>> /\ Same

\* Mutant: the output of the shell's descendants is not waited for.
CompleteByExit == "leader" \notin Up
\* Both pipes are at their end, and the leader has been reaped.
Complete == holds \cap Up = {} /\ "leader" \notin Up

ReaderEnds ==
  /\ reader = "reading"
  /\ \/ Complete /\ reader' = "complete" /\ NoFault
     \/ reader' = "failed" /\ Fault
  /\ UNCHANGED <<pc, reason, thread, files, proc, holds>> /\ Same

-----------------------------------------------------------------------------
(* The call waits, and ends the process group.                             *)

Waited ==
  /\ At("run") /\ reader # "reading"
  /\ IF reader = "complete" THEN Go("drain") /\ Ends("ok")
     ELSE Ends("error") /\ Go("term")
  /\ UNCHANGED <<thread, files, proc, holds, reader, faults>> /\ Same

TimesOut ==
  /\ At("run") /\ HasTimeout
  /\ Go("term") /\ Ends("timeout")
  /\ UNCHANGED <<thread, files, proc, holds, reader, faults>> /\ Same

\* The signal finds the leader, or, when the server may, the rest of the group.
Reaches == IF sudo THEN "leader" \in Up ELSE GroupUp # {}

Terminate ==
  /\ \/ At("term") /\ sudo /\ Go("termroot") /\ NoFault
     \/ At("term") /\ ~sudo /\ Go(IF Reaches THEN "grace" ELSE "drain") /\ NoFault
     \/ At("termroot") /\ Go(IF GroupUp # {} THEN "grace" ELSE "drain") /\ NoFault
     \/ At("termroot") /\ Fault /\ Go(IF Reaches THEN "grace" ELSE "drain")
  /\ UNCHANGED <<reason, thread, files, proc, holds, reader>> /\ Same

\* _wait_for_process_group_exit.
Grace ==
  /\ At("grace")
  /\ \/ GroupUp = {} /\ Go("drain")
     \/ GroupUp # {} /\ Go("kill")
  /\ UNCHANGED <<reason, thread, files, proc, holds, reader, faults>> /\ Same

\* Mutant: nothing is stronger than SIGTERM.
KillNobody ==
  At("kill") /\ Go("drain") /\ NoFault /\ UNCHANGED proc
KillGroup ==
  \/ At("kill") /\ ~sudo /\ Go("drain") /\ Killed(GroupUp) /\ NoFault
  \/ At("kill") /\ sudo /\ Go("killroot") /\ Killed({"leader"} \cap Up) /\ NoFault
  \/ At("killroot") /\ Go("drain") /\ Killed(GroupUp) /\ NoFault
  \/ At("killroot") /\ Go("drain") /\ UNCHANGED proc /\ Fault
Kill == KillGroup /\ UNCHANGED <<reason, thread, files, holds, reader>> /\ Same

-----------------------------------------------------------------------------
(* Cleaning up.                                                            *)

\* Mutant: the readers are waited for, however long.
DrainForever == reader # "reading" /\ UNCHANGED reader
Drained ==
  \/ reader # "reading" /\ UNCHANGED reader
  \/ reader = "reading" /\ reader' = "cancelled"
Drain ==
  /\ At("drain") /\ Drained /\ Go("reap")
  /\ UNCHANGED <<reason, thread, files, proc, holds, faults>> /\ Same

\* The wait for the leader is bounded; without an exit code there is no result.
Reap ==
  /\ At("reap") /\ Go("join")
  /\ reason' = IF reason = "ok" /\ "leader" \in Up THEN "error" ELSE reason
  /\ UNCHANGED <<thread, files, proc, holds, reader, faults>> /\ Same

\* Mutant: the thread is left alone.
JoinedNot == TRUE
Joined == thread # "writing"
Join ==
  /\ At("join") /\ Joined /\ Go("done")
  /\ files' = {}
  /\ UNCHANGED <<reason, thread, proc, holds, reader, faults>> /\ Same

-----------------------------------------------------------------------------
(* The task is cancelled at an await.                                      *)

\* asyncio kills the process it has just started, and nothing that this has.
CancelSpawn ==
  /\ At("spawn") /\ Go("join") /\ UNCHANGED reader
  /\ proc' \in {[proc EXCEPT !["child"] = c, !["leader"] = "gone"] : c \in {"none", "up"}}

Ending == {"termroot", "grace", "killroot"}
CancelWait ==
  /\ \/ At("write") /\ Go("join")
     \/ At("run") /\ Go("term")
     \/ pc \in Ending /\ Go("drain")
     \/ pc \in {"drain", "reap"} /\ Go("join")
     \/ At("join") /\ thread = "writing" /\ Go("done")
  /\ UNCHANGED <<proc, reader>>

Cancel ==
  /\ cancels < MaxCancels /\ cancels' = cancels + 1
  /\ CancelSpawn \/ CancelWait
  /\ cut' = (cut \/ pc \in Ending)
  /\ Ends(IF reason = "none" THEN "cancelled" ELSE reason)
  /\ UNCHANGED <<sudo, thread, files, holds, faults>>

-----------------------------------------------------------------------------
Init ==
  /\ pc = "new" /\ reason = "none" /\ cut = FALSE /\ sudo = FALSE
  /\ thread = "none" /\ files = {}
  /\ proc = [p \in Process |-> "none"] /\ holds = {}
  /\ reader = "none" /\ cancels = 0 /\ faults = 0

Call ==
  \/ Begin \/ OutputWritten \/ Spawn \/ Waited \/ Terminate \/ Grace \/ Kill
  \/ Drain \/ Reap \/ Join

Next ==
  \/ Call \/ TimesOut \/ Cancel
  \/ ThreadEnds \/ ReaderEnds
  \/ Fork \/ \E p \in Process : Exit(p)

\* The event loop runs, threads and readers end, and clocks tick; a command
\* need not end.
Fairness == WF_vars(Call) /\ WF_vars(TimesOut) /\ WF_vars(ThreadEnds) /\ WF_vars(ReaderEnds)

Spec == Init /\ [][Next]_vars
FairSpec == Spec /\ Fairness

-----------------------------------------------------------------------------
TypeOK ==
  /\ pc \in Pc /\ reason \in Reason /\ cut \in BOOLEAN /\ sudo \in BOOLEAN
  /\ thread \in {"none", "writing", "written", "failed"}
  /\ files \subseteq {"script", "environment"}
  /\ proc \in [Process -> {"none", "up", "gone"}] /\ holds \subseteq Process
  /\ reader \in {"none", "reading", "complete", "failed", "cancelled"}
  /\ cancels \in 0 .. MaxCancels /\ faults \in 0 .. MaxFaults

(* A command that is timed out or cancelled has no process left in its     *)
(* group when the call is over, whatever of it ignores SIGTERM and even if *)
(* its shell is gone already; unless signals cannot be sent, or it is      *)
(* cancelled while its processes are being ended ("killed on timeout",     *)
(* execute_bash_command, terminate_process_group).                         *)
GroupEnded ==
  At("done") /\ reader # "none" /\ reason \in {"timeout", "cancelled"} /\ faults = 0 /\ ~cut
    => GroupUp = {}

(* The files of a call, which may hold credentials, are gone when it is    *)
(* over, and their descriptors are never closed under the thread that      *)
(* still writes through them, unless it is cancelled a second time.        *)
FilesGone == At("done") /\ cancels <= 1 => files = {} /\ thread # "writing"

(* What a call returns is the exit of its shell and everything that        *)
(* anybody who shares its output has written (_communicate_bounded).       *)
ResultComplete == reason = "ok" => Up \cap (holds \cup {"leader"}) = {}

(* A call with a timeout ends, whatever its command does with signals and  *)
(* with its output.                                                        *)
CallEnds == HasTimeout => (At("write") ~> At("done"))

-----------------------------------------------------------------------------
(* What the source says of this code, and the code does not do.            *)

(* "a cancellation at any await still reaches cleanup"                     *)
(* (execute_bash_command).                                                 *)
CleanupReached == At("done") => files = {}

(* "The child gets ... its own process group, which is killed on timeout"  *)
(* (execute_bash_command).                                                 *)
KilledOnTimeout == At("done") /\ reason = "timeout" => GroupUp = {}
===============================================================================
