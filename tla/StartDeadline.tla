---------------------------- MODULE StartDeadline ----------------------------
(***************************************************************************)
(* How long the client waits for a server, and what it reports when it     *)
(* gives up (start_server of operations/servers.py): the POST, the polling *)
(* of its operation, the retries while the quota is full, and the reset of *)
(* a server that is reused.  Time is counted in ticks.                     *)
(***************************************************************************)
EXTENDS Integers

CONSTANTS
  Deadline,    \* what the server was given, and the grace
  RetryDelay,  \* retry_delay_in_seconds
  Allowance,   \* _FINAL_POLL_ALLOWANCE_IN_SEC
  ResetLimit   \* wait_timeout_in_sec of the reset's own polling

StartDeadlineAssumption ==
  /\ Deadline \in Nat \ {0} /\ RetryDelay \in Nat \ {0}
  /\ Allowance \in Nat /\ ResetLimit \in Nat

VARIABLES
  pc,
  now,        \* ticks since the call began
  remaining,  \* remaining_time of this attempt
  refused,    \* whether an attempt was answered 429
  answer,     \* the last answer of an operation
  outcome     \* what the call returns or raises

vars == <<pc, now, remaining, refused, answer, outcome>>

Takes(d) == now' = now + d
Go(there) == pc' = there /\ UNCHANGED outcome
Ends(how) == pc' = "done" /\ outcome' = how

\* Mutant: whatever was answered before, time that is up is a timeout.
GivingUpTimeout == "timeout"
GivingUp == IF refused THEN "busy" ELSE "timeout"

Begin ==
  /\ pc = "begin" /\ Takes(0)
  /\ IF now >= Deadline THEN Ends(GivingUp) /\ UNCHANGED remaining
     ELSE Go("post") /\ remaining' = Deadline - now
  /\ UNCHANGED <<refused, answer>>

\* The request has a timeout of its own, of all the time that remains.
Post ==
  /\ pc = "post"
  /\ \/ \E d \in 0 .. remaining : Takes(d) /\ Go("poll")
     \/ Takes(remaining) /\ Ends("timeout")
     \/ \E d \in 0 .. remaining : Takes(d) /\ Ends("error")
  /\ answer' = "none"
  /\ UNCHANGED <<remaining, refused>>

\* No time for another attempt.
Refused(d) ==
  IF now + d + RetryDelay >= Deadline THEN Ends("busy") ELSE Go("sleep")

\* The polling has that time, too, and an allowance for its last request.
Poll ==
  /\ pc = "poll"
  /\ \E d \in 0 .. remaining + Allowance :
       /\ Takes(d)
       /\ \/ answer' = "started" /\ Ends("server") /\ UNCHANGED refused
          \/ answer' = "reused" /\ Go("reset") /\ UNCHANGED refused
          \/ answer' = "429" /\ refused' = TRUE /\ Refused(d)
          \/ answer' = "failed" /\ Ends("error") /\ UNCHANGED refused
          \/ d >= remaining /\ answer' = "none" /\ Ends("timeout") /\ UNCHANGED refused
  /\ UNCHANGED remaining

\* Mutant: the delay is only reckoned with.
SleepNot ==
  /\ pc = "sleep" /\ Takes(0) /\ Go("begin")
  /\ UNCHANGED <<remaining, refused, answer>>
\* A sleep may last longer.
Sleep ==
  /\ pc = "sleep" /\ Go("begin")
  /\ \E more \in 0 .. Allowance : Takes(RetryDelay + more)
  /\ UNCHANGED <<remaining, refused, answer>>

\* reset_project, without the time that remains.
Reset ==
  /\ pc = "reset"
  /\ \E d \in 0 .. ResetLimit + Allowance :
       /\ Takes(d)
       /\ \/ Ends("server")
          \/ Ends("error")
          \/ d >= ResetLimit /\ Ends("timeout")
  /\ UNCHANGED <<remaining, refused, answer>>

Init ==
  /\ pc = "begin" /\ now = 0 /\ remaining = 0 /\ refused = FALSE
  /\ answer = "none" /\ outcome = "none"

Next == Begin \/ Post \/ Poll \/ Sleep \/ Reset

Fairness == WF_vars(Next)
Spec == Init /\ [][Next]_vars
FairSpec == Spec /\ Fairness

-----------------------------------------------------------------------------
(* Time that ran out while the quota was full is reported as busy and not  *)
(* as a timeout, and nothing else is: "so an except IdeGYMBusyError        *)
(* back-off handler sees it" (_still_rate_limited).                        *)
BusyIsReported ==
  pc = "done" => (answer = "429" => outcome = "busy") /\ (outcome = "busy" => refused)

(* A start comes to its end, however often it is refused.                  *)
StartEnds == (pc = "post") ~> (pc = "done")

-----------------------------------------------------------------------------
(* What the source says of this code, and the code does not do: "One       *)
(* client deadline covers the POST, the polling and the 429 retries"       *)
(* (start_server).                                                         *)
WithinDeadline == answer # "reused" => now <= Deadline + Allowance
===============================================================================
