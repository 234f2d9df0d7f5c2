------------------------------ MODULE PodShell ------------------------------
(***************************************************************************)
(* A shell in a server pod that a browser has opened through the           *)
(* orchestrator: the checks before it (dashboard_shell.py), and the relay  *)
(* with its three tasks, one for each peer and one for the idle timeout    *)
(* (pod_shell.py).  Of the traffic only what ends a session is modelled,   *)
(* and the input that keeps it open.  The process in the pod belongs to    *)
(* the kubelet: closing the stream is all the relay does about it.         *)
(***************************************************************************)
EXTENDS Integers, FiniteSets

CONSTANTS
  MaxInputs,   \* bound: the frames that the browser sends
  IdleTimeout  \* in ticks of the clock

PodShellAssumption == MaxInputs \in Nat /\ IdleTimeout \in Nat \ {0}

VARIABLES
  pc,       \* where the handler of the WebSocket is
  browser,  \* the peer: open, or gone
  stream,   \* the exec stream: ended by the pod, or closed by us
  shell,    \* the process in the pod
  status,   \* what the error channel has brought
  task,     \* the three tasks of the relay
  told,     \* the outcome that is logged, and told to the browser
  since,    \* ticks since the last input
  inputs    \* frames so far

vars == <<pc, browser, stream, shell, status, task, told, since, inputs>>

Side == {"pod", "browser", "idle"}
Reason == {"exited", "pod_closed", "browser_closed", "idle"}
Running == "running"
Failed == "failed"    \* a peer went away mid-send
Raised == "raised"    \* by anything else
Cancelled == "cancelled"
Go(there) == pc' = there
NotStarted == [s \in Side |-> "none"]
EndsAs(s, how) == task' = [task EXCEPT ![s] = how]
InRelay == pc = "relay"

-----------------------------------------------------------------------------
(* The handler.                                                            *)

\* The feature, the origin, the pod, its labels and phase, the container.
Check ==
  /\ pc = "check"
  /\ \/ Go("close")        \* with an error, and POLICY_VIOLATION
     \/ Go("connect")
  /\ UNCHANGED <<browser, stream, shell, status, task, told, since, inputs>>

Connect ==
  /\ pc = "connect"
  /\ \/ /\ Go("relay") /\ stream' = "open" /\ shell' = "up"
        /\ task' = [s \in Side |-> Running]
        /\ UNCHANGED told
     \/ Go("close") /\ told' = "failed" /\ UNCHANGED <<stream, shell, task>>
  /\ since' = 0
  /\ UNCHANGED <<browser, status, inputs>>

\* The process ends, or never ran: the kubelet says so on the error channel of a stream
\* that is still open, unless the connection drops first.
ShellEnds ==
  /\ shell = "up" /\ shell' = "gone"
  /\ status' \in IF stream = "open" THEN {"none", "exit code", "failure"} ELSE {status}
  /\ UNCHANGED <<pc, browser, stream, task, told, since, inputs>>

Finished == {s \in Side : task[s] \notin {"none", Running, Cancelled}}
Clean == {s \in Finished : task[s] \notin {Failed, Raised}}
\* The error that counts is the first of the same order.
Unclean == IF "pod" \notin Finished /\ task["browser"] = Raised THEN "failed" ELSE "disconnected"

\* Mutant: the browser first.
OutcomeBrowserFirst ==
  IF "browser" \in Clean THEN task["browser"]
  ELSE IF "pod" \in Clean THEN task["pod"]
  ELSE IF "idle" \in Clean THEN task["idle"] ELSE Unclean
\* The pod first, then the browser, among those that ended cleanly.
Outcome ==
  IF "pod" \in Clean THEN task["pod"]
  ELSE IF "browser" \in Clean THEN task["browser"]
  ELSE IF "idle" \in Clean THEN task["idle"] ELSE Unclean

\* Mutant: the peers are waited for in turn.
FirstCompletedBoth == {"pod", "browser"} \subseteq Finished
FirstCompleted == Finished # {}

\* relay ends, or raises: its tasks are cancelled, the stream is closed on the way out.
RelayEnds ==
  /\ InRelay /\ FirstCompleted
  /\ task' = [s \in Side |-> IF task[s] = Running THEN Cancelled ELSE task[s]]
  /\ told' = Outcome
  /\ stream' = IF stream = "open" THEN "closed" ELSE stream
  /\ Go("close")
  /\ UNCHANGED <<browser, shell, status, since, inputs>>

\* What is sent to a browser that is gone is lost, quietly.
Close ==
  /\ pc = "close" /\ Go("closed") /\ browser' = "gone"
  /\ UNCHANGED <<stream, shell, status, task, told, since, inputs>>

-----------------------------------------------------------------------------
(* The tasks.                                                              *)

\* Keystrokes or a resize, which may find the stream ended; or a frame that is no object, or
\* a size that is no number.
FromBrowser ==
  /\ InRelay /\ task["browser"] = Running
  /\ \/ /\ browser = "gone" /\ EndsAs("browser", "browser_closed")
        /\ UNCHANGED <<since, inputs>>
     \/ /\ browser = "open" /\ inputs < MaxInputs /\ inputs' = inputs + 1
        /\ \/ since' \in {0, since} /\ (UNCHANGED task \/ (stream # "open" /\ EndsAs("browser", Failed)))
           \/ UNCHANGED since /\ EndsAs("browser", Raised)
  /\ UNCHANGED <<pc, browser, stream, shell, status, told>>

\* Sending what the pod wrote, or why it failed, needs the browser.
FromPod ==
  /\ InRelay /\ task["pod"] = Running
  /\ \/ stream = "ended" /\ EndsAs("pod", IF status = "none" THEN "pod_closed" ELSE "exited")
     \/ browser = "gone" /\ EndsAs("pod", Failed)
  /\ UNCHANGED <<pc, browser, stream, shell, status, told, since, inputs>>

Idles ==
  /\ InRelay /\ task["idle"] = Running /\ since >= IdleTimeout
  /\ EndsAs("idle", "idle")
  /\ UNCHANGED <<pc, browser, stream, shell, status, told, since, inputs>>

-----------------------------------------------------------------------------
(* The peers, and time.                                                    *)

BrowserGoes ==
  /\ browser = "open" /\ browser' = "gone"
  /\ UNCHANGED <<pc, stream, shell, status, task, told, since, inputs>>

StreamCloses ==
  /\ stream = "open" /\ stream' = "ended"
  /\ UNCHANGED <<pc, browser, shell, status, task, told, since, inputs>>

Tick ==
  /\ InRelay /\ since < IdleTimeout /\ since' = since + 1
  /\ UNCHANGED <<pc, browser, stream, shell, status, task, told, inputs>>

Init ==
  /\ pc = "check" /\ browser = "open" /\ stream = "none" /\ shell = "none"
  /\ status = "none" /\ task = NotStarted /\ told = "none" /\ since = 0 /\ inputs = 0

Handler == Check \/ Connect \/ RelayEnds \/ Close
Next ==
  \/ Handler \/ FromBrowser \/ FromPod \/ Idles
  \/ BrowserGoes \/ StreamCloses \/ ShellEnds \/ Tick

\* The loop runs, and so does the clock; users and pods need not do anything.
Fairness == WF_vars(Handler) /\ WF_vars(Idles) /\ WF_vars(Tick)

Spec == Init /\ [][Next]_vars
FairSpec == Spec /\ Fairness

-----------------------------------------------------------------------------
TypeOK ==
  /\ pc \in {"check", "connect", "relay", "close", "closed"}
  /\ browser \in {"open", "gone"} /\ stream \in {"none", "open", "ended", "closed"}
  /\ shell \in {"none", "up", "gone"} /\ status \in {"none", "exit code", "failure"}
  /\ task \in [Side -> Reason \cup {"none", Running, Failed, Raised, Cancelled}]
  /\ told \in Reason \cup {"none", "disconnected", "failed"}
  /\ since \in 0 .. IdleTimeout /\ inputs \in 0 .. MaxInputs

(* The reason given for a session that is over is what happened, whatever  *)
(* the tasks of the relay saw of it and in whatever order they ended: a    *)
(* failure because a peer went, or because a frame made no sense, never    *)
(* hides how the shell ended, and a frame is blamed only if there was one. *)
(* No task and no stream is left then (relay, exec_stream, pod_exec).      *)
OutcomeIsTrue ==
  pc \in {"close", "closed"} /\ task # NotStarted =>
    /\ stream # "open" /\ \A s \in Side : task[s] # Running
    /\ told = "exited" => shell = "gone" /\ status # "none" /\ stream = "ended"
    /\ told = "pod_closed" => status = "none" /\ stream = "ended"
    /\ told = "browser_closed" => browser = "gone"
    /\ told = "disconnected" => browser = "gone" \/ stream = "ended"
    /\ told = "failed" => task["browser"] = Raised /\ task["pod"] = Cancelled
    /\ task["pod"] \in {"exited", "pod_closed"} => told = task["pod"]

(* "A forgotten tab should not keep a shell ... open indefinitely": when   *)
(* nobody types any more, the session ends, whatever the peers do or do    *)
(* not do.                                                                 *)
SessionEnds == (pc = "relay") ~> (pc = "closed")
===============================================================================
