---------------------------- MODULE ClientSession ----------------------------
(***************************************************************************)
(* One registration that several threads share: the event loop in its own  *)
(* thread (shared.py), the registration and heartbeat of the client on it, *)
(* and the calls that each start a server, use it and close it again       *)
(* (client.py).                                                            *)
(*                                                                         *)
(* Work that is put on the loop runs in the order it came.  A call has one *)
(* await per step; a cancellation is delivered there.                      *)
(***************************************************************************)
EXTENDS Integers, FiniteSets

CONSTANTS
  Caller,     \* the threads
  Scoped,     \* those that use with_server; the others call start_server
  Timed,      \* those that call run with a timeout
  OwnsHttp,   \* whether the HTTP client is the session's own
  MaxFaults   \* bound: requests that fail

ClientSessionAssumption ==
  /\ Scoped \subseteq Caller /\ Timed \subseteq Caller
  /\ OwnsHttp \in BOOLEAN /\ MaxFaults \in Nat

VARIABLES
  owner,   \* the thread that enters and leaves the session
  caller,  \* the other threads
  task,    \* the task of each call, on the loop
  cut,     \* the calls whose task has a cancellation to be delivered
  tries,   \* the attempts to close the server
  cause,   \* how the body of the call ended
  fut,     \* what the future of a call holds
  loop,    \* the event loop
  http,    \* the HTTP client
  beat,    \* the heartbeat task
  reg,     \* the registration, at the orchestrator
  server,  \* the server of each call, at the orchestrator
  faults

calls == <<task, cut, tries, cause, fut>>
vars == <<owner, caller, calls, loop, http, beat, reg, server, faults>>

MaxAttempts == 3     \* retry_with_backoff(attempts=3)

Owner == {"enter", "body", "leave", "release", "close", "drain", "cancel", "hooks", "gone"}
Thread == {"idle", "checked", "blocked", "refused", "answered", "timed out"}
Task == {"none", "queued", "post", "poll", "body", "close", "over"}
Future == {"none", "pending", "result", "body error", "request error", "close error", "cancelled"}
Live(c) == task[c] \notin {"none", "over"}

Fault == faults < MaxFaults /\ faults' = faults + 1
NoFault == UNCHANGED faults

-----------------------------------------------------------------------------
(* The threads (SharedIdeGYMClient.submit, run; _LoopThread.submit).       *)

\* The handle and the loop are read before the lock of the loop is taken.
CheckStarted(c) ==
  /\ caller[c] = "idle" /\ owner = "body"
  /\ caller' = [caller EXCEPT ![c] = "checked"]
  /\ UNCHANGED <<owner, calls, loop, http, beat, reg, server, faults>>

Closing == owner \in {"drain", "cancel", "hooks", "gone"}

\* Mutant: the loop takes work as long as it runs.
AcceptsWhileRunning(c) == loop = "running"
Accepts(c) == ~Closing

Submit(c) ==
  /\ caller[c] = "checked"
  /\ IF Accepts(c)
     THEN /\ caller' = [caller EXCEPT ![c] = "blocked"]
          /\ task' = [task EXCEPT ![c] = "queued"]
          /\ fut' = [fut EXCEPT ![c] = "pending"]
     ELSE /\ caller' = [caller EXCEPT ![c] = "refused"]
          /\ UNCHANGED <<task, fut>>
  /\ UNCHANGED <<owner, cut, tries, cause, loop, http, beat, reg, server, faults>>

Answered(c) ==
  /\ caller[c] = "blocked" /\ fut[c] # "pending"
  /\ caller' = [caller EXCEPT ![c] = "answered"]
  /\ UNCHANGED <<owner, calls, loop, http, beat, reg, server, faults>>

\* The future is cancelled at once, the task hears of it on its loop.
TimesOut(c) ==
  /\ caller[c] = "blocked" /\ c \in Timed /\ fut[c] = "pending"
  /\ caller' = [caller EXCEPT ![c] = "timed out"]
  /\ fut' = [fut EXCEPT ![c] = "cancelled"]
  /\ cut' = IF Live(c) THEN cut \cup {c} ELSE cut
  /\ UNCHANGED <<owner, task, tries, cause, loop, http, beat, reg, server, faults>>

-----------------------------------------------------------------------------
(* The tasks.                                                              *)

Runs(c, here) == loop = "running" /\ task[c] = here /\ c \notin cut
Go(c, there) == task' = [task EXCEPT ![c] = there]
\* A future that was cancelled keeps that.
Ends(c, how) ==
  /\ task' = [task EXCEPT ![c] = "over"]
  /\ fut' = [fut EXCEPT ![c] = IF @ = "pending" THEN how ELSE @]
  /\ UNCHANGED tries

Begin(c) ==
  /\ Runs(c, "queued") /\ Go(c, "post")
  /\ UNCHANGED <<owner, caller, cut, tries, cause, fut, loop, http, beat, reg, server, faults>>

\* The orchestrator asks only that there is such a client.
Post(c) ==
  /\ Runs(c, "post")
  /\ \/ /\ http = "open" /\ Go(c, "poll") /\ UNCHANGED <<tries, fut>> /\ NoFault
        /\ server' = [server EXCEPT ![c] = "starting"]
     \/ /\ http = "closed" /\ Ends(c, "request error") /\ UNCHANGED server /\ NoFault
     \/ /\ http = "open" /\ Ends(c, "request error") /\ Fault
        /\ server' \in {server, [server EXCEPT ![c] = "starting"]}
  /\ UNCHANGED <<owner, caller, cut, cause, loop, http, beat, reg>>

Poll(c) ==
  /\ Runs(c, "poll")
  /\ \/ /\ http = "open" /\ server[c] \in {"alive", "ended"} /\ NoFault
        /\ IF server[c] = "ended" THEN Ends(c, "request error")
           ELSE IF c \in Scoped THEN Go(c, "body") /\ UNCHANGED <<tries, fut>>
           ELSE Ends(c, "result")
     \/ http = "closed" /\ Ends(c, "request error") /\ NoFault
     \/ http = "open" /\ Ends(c, "request error") /\ Fault
  /\ UNCHANGED <<owner, caller, cut, cause, loop, http, beat, reg, server>>

\* The body need not come to an end.
Body(c) ==
  /\ Runs(c, "body") /\ Go(c, "close")
  /\ \E how \in {"ok", "raised"} : cause' = [cause EXCEPT ![c] = how]
  /\ UNCHANGED <<owner, caller, cut, tries, fut, loop, http, beat, reg, server, faults>>

\* Mutant: a failure to close the server is only logged.
OutcomeQuiet(c, closed) ==
  CASE cause[c] = "ok" -> "result"
    [] cause[c] = "raised" -> "body error"
    [] OTHER -> "cancelled"
\* A failure to close the server is raised unless it would hide another one.
Outcome(c, closed) ==
  CASE cause[c] = "ok" -> IF closed THEN "result" ELSE "close error"
    [] cause[c] = "raised" -> "body error"
    [] OTHER -> "cancelled"

\* A failed attempt, of which the last is the end.
FailedAttempt(c) ==
  IF tries[c] + 1 = MaxAttempts THEN Ends(c, Outcome(c, FALSE))
  ELSE tries' = [tries EXCEPT ![c] = @ + 1] /\ UNCHANGED <<task, fut>>

\* finish_server; of a server that has ended, a 4xx that is permanent.
Close(c) ==
  /\ Runs(c, "close")
  /\ \/ /\ http = "open" /\ server[c] = "alive" /\ NoFault
        /\ server' = [server EXCEPT ![c] = "finished"] /\ Ends(c, Outcome(c, TRUE))
     \/ /\ http = "open" /\ server[c] = "finished" /\ NoFault   \* an answer got lost
        /\ UNCHANGED server /\ Ends(c, Outcome(c, TRUE))
     \/ /\ http = "open" /\ server[c] = "ended" /\ NoFault
        /\ UNCHANGED server /\ Ends(c, Outcome(c, FALSE))
     \/ /\ http = "closed" /\ FailedAttempt(c) /\ UNCHANGED server /\ NoFault
     \/ /\ http = "open" /\ FailedAttempt(c) /\ Fault
        /\ server' \in {server, [server EXCEPT ![c] = IF @ = "alive" THEN "finished" ELSE @]}
  /\ UNCHANGED <<owner, caller, cut, cause, loop, http, beat, reg>>

\* In the body it leads to closing the server, anywhere else it is the end.
Cancelled(c) ==
  /\ loop = "running" /\ c \in cut /\ Live(c)
  /\ cut' = cut \ {c}
  /\ IF task[c] = "body"
     THEN /\ Go(c, "close") /\ cause' = [cause EXCEPT ![c] = "cancelled"]
          /\ UNCHANGED <<tries, fut>>
     ELSE Ends(c, "cancelled") /\ UNCHANGED cause
  /\ UNCHANGED <<owner, caller, loop, http, beat, reg, server, faults>>

-----------------------------------------------------------------------------
(* The owner, and what it runs on the loop (__enter__, __aenter__).        *)

ReleaseHttp == http' = IF OwnsHttp THEN "closed" ELSE http

\* An answer that is lost leaves a registration behind.
Enter ==
  /\ owner = "enter"
  /\ \/ owner' = "body" /\ reg' = "registered" /\ beat' = "running" /\ UNCHANGED http /\ NoFault
     \/ owner' = "close" /\ reg' \in {"none", "registered"} /\ UNCHANGED beat /\ ReleaseHttp /\ Fault
  /\ UNCHANGED <<caller, calls, loop, server>>

\* __exit__: the handle is cleared, and __aexit__ runs on the loop.
Leave ==
  /\ owner = "body" /\ owner' = "leave"
  /\ beat' = "cancelled"
  /\ UNCHANGED <<caller, calls, loop, http, reg, server, faults>>

\* stop_client: the servers there are then end with the registration.  Its request has
\* no timeout, so that it need not end.
Deregister ==
  /\ owner = "leave" /\ owner' = "release"
  /\ LET stopped == [c \in Caller |-> IF server[c] = "none" THEN "none" ELSE "ended"]
     IN  \/ reg' = "stopped" /\ server' = stopped /\ NoFault
         \/ /\ Fault
            /\ \/ reg' = "stopped" /\ server' = stopped
               \/ UNCHANGED <<reg, server>>
  /\ UNCHANGED <<caller, calls, loop, http, beat>>

Release ==
  /\ owner = "release" /\ owner' = "close" /\ ReleaseHttp
  /\ UNCHANGED <<caller, calls, loop, beat, reg, server, faults>>

\* _LoopThread.close, and _drain.
BeginDrain ==
  /\ owner = "close" /\ owner' = "drain"
  /\ UNCHANGED <<caller, calls, loop, http, beat, reg, server, faults>>

\* The heartbeat ends with the cancellation it got.
BeatEnds ==
  /\ loop = "running" /\ beat = "cancelled" /\ beat' = "over"
  /\ UNCHANGED <<owner, caller, calls, loop, http, reg, server, faults>>

Busy == {c \in Caller : Live(c)}
BeatOver == beat \notin {"running", "cancelled"}
Quiet == Busy = {} /\ BeatOver

\* Mutant: what is still pending is left to itself.
ToCancelNone == {}
ToCancel == Busy

\* Mutant: the drain has no time limit.
DrainedInFull ==
  /\ owner = "drain" /\ Quiet /\ owner' = "hooks"
  /\ UNCHANGED <<caller, calls, loop, http, beat, reg, server, faults>>
Drained ==
  /\ owner = "drain"
  /\ \/ Quiet /\ owner' = "hooks" /\ UNCHANGED cut
     \/ Busy # {} /\ BeatOver /\ owner' = "cancel" /\ cut' = cut \cup ToCancel
  /\ UNCHANGED <<caller, task, tries, cause, fut, loop, http, beat, reg, server, faults>>

\* Two seconds are enough for three attempts on a client that is closed, and
\* for whatever has no server to close.
Outlasts(c) == task[c] = "close" /\ http = "open"
Waited ==
  /\ owner = "cancel" /\ owner' = "hooks"
  /\ \A c \in Busy \cap ToCancel : Outlasts(c)
  /\ UNCHANGED <<caller, calls, loop, http, beat, reg, server, faults>>

Stop ==
  /\ owner = "hooks" /\ owner' = "gone" /\ loop' = "stopped"
  /\ UNCHANGED <<caller, calls, http, beat, reg, server, faults>>

-----------------------------------------------------------------------------
\* The orchestrator ends the operation of a start.
StartEnds(c) ==
  /\ server[c] = "starting"
  /\ \E how \in {"alive", "ended"} : server' = [server EXCEPT ![c] = how]
  /\ UNCHANGED <<owner, caller, calls, loop, http, beat, reg, faults>>

Init ==
  /\ owner = "enter" /\ caller = [c \in Caller |-> "idle"]
  /\ task = [c \in Caller |-> "none"] /\ cut = {}
  /\ tries = [c \in Caller |-> 0] /\ cause = [c \in Caller |-> "none"]
  /\ fut = [c \in Caller |-> "none"]
  /\ loop = "running" /\ http = "open" /\ beat = "none" /\ reg = "none"
  /\ server = [c \in Caller |-> "none"] /\ faults = 0

CallStep(c) == Begin(c) \/ Post(c) \/ Poll(c) \/ Close(c) \/ Cancelled(c)
\* finish_server's request has no timeout, but ends with the HTTP client.
CallGoesOn(c) == Begin(c) \/ Post(c) \/ Poll(c) \/ Cancelled(c) \/ (http = "closed" /\ Close(c))
ThreadStep(c) == Submit(c) \/ Answered(c)
Exit == Release \/ BeginDrain \/ Drained \/ Waited \/ Stop

Next ==
  \/ Enter \/ Leave \/ Deregister \/ Exit \/ BeatEnds
  \/ \E c \in Caller : \/ CheckStarted(c) \/ ThreadStep(c) \/ TimesOut(c)
                       \/ CallStep(c) \/ Body(c) \/ StartEnds(c)

\* Threads and tasks that can go on do so; bodies need not end, nor sessions, nor
\* requests without a timeout.
Fairness ==
  /\ WF_vars(Exit) /\ WF_vars(BeatEnds)
  /\ \A c \in Caller : WF_vars(CallGoesOn(c)) /\ WF_vars(ThreadStep(c)) /\ WF_vars(StartEnds(c))

Spec == Init /\ [][Next]_vars
FairSpec == Spec /\ Fairness

-----------------------------------------------------------------------------
TypeOK ==
  /\ owner \in Owner /\ caller \in [Caller -> Thread]
  /\ task \in [Caller -> Task] /\ cut \subseteq Caller
  /\ tries \in [Caller -> 0 .. MaxAttempts] /\ fut \in [Caller -> Future]
  /\ cause \in [Caller -> {"none", "ok", "raised", "cancelled"}]
  /\ loop \in {"running", "stopped"} /\ http \in {"open", "closed"}
  /\ beat \in {"none", "running", "cancelled", "over"}
  /\ reg \in {"none", "registered", "stopped"}
  /\ server \in [Caller -> {"none", "starting", "alive", "finished", "ended"}]
  /\ faults \in 0 .. MaxFaults

(* When the session's own loop stops, no task is left on it and no call is *)
(* left without an answer, whatever the threads were about when the owner  *)
(* left (_drain, "nothing is torn down mid-flight").                       *)
NothingPending ==
  loop = "stopped" /\ OwnsHttp =>
    Quiet /\ \A c \in Caller : fut[c] # "pending"

(* A call that returns has closed its server, or the server is gone; one   *)
(* whose body failed reports that and not what went wrong after it         *)
(* (with_server).                                                          *)
CloseReported ==
  \A c \in Scoped :
    /\ fut[c] = "result" => server[c] \in {"finished", "ended"}
    /\ cause[c] = "raised" => fut[c] \in {"pending", "body error", "cancelled"}

(* Once the deregistration has ended, or there was none, the owner gets    *)
(* away and leaves no thread waiting, whatever the calls are about (_drain, *)
(* "a caller waiting on it without a timeout would hang").  The request of *)
(* the deregistration has no timeout: an orchestrator that never answers   *)
(* it keeps the owner, and those who wait without a timeout, for ever.     *)
CallersReleased ==
  OwnsHttp /\ owner \in {"release", "close"} ~>
    owner = "gone" /\ \A c \in Caller : caller[c] # "blocked"

-----------------------------------------------------------------------------
(* What the source says of this code, and the code does not do.            *)

(* "a timed-out start_server does not go on to create a server nobody      *)
(* holds" (SharedIdeGYMClient.run).                                        *)
TimedOutStartsNothing ==
  \A c \in Caller : caller[c] = "timed out" /\ c \notin Scoped => server[c] # "alive"

(* "Cancelling is what releases a thread blocked on a submit future with   *)
(* no timeout" (_drain), also when the caller supplied the HTTP client.    *)
CancelReleases == loop = "stopped" => \A c \in Caller : fut[c] # "pending"
===============================================================================
