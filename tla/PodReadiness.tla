---------------------------- MODULE PodReadiness ----------------------------
(***************************************************************************)
(* The wait for the pods of a Deployment (wait_for_pods_ready of           *)
(* kubernetes_client.py), which every start, restart, snapshot job and     *)
(* node holder goes through: polls of the pods, the budget of pods that    *)
(* the scheduler cannot place, which the cluster's autoscaler may extend,  *)
(* the image pulls that fail, and the timeout around all of it.            *)
(*                                                                         *)
(* A tick of the clock is the poll interval.  What a pod is doing is its   *)
(* stage, and what the autoscaler has said of it is its last event: the    *)
(* others do not count (_latest_scaling_verdict).  The call that lists the *)
(* events is one step for all pods.                                        *)
(***************************************************************************)
EXTENDS Integers, FiniteSets

CONSTANTS
  Pod,
  Budgets,           \* pairs of unschedulable_timeout and provisioning_timeout; 0 is none
  WaitTimeout,       \* of the whole wait
  DiagnosisTimeout,  \* _DIAGNOSIS_TIMEOUT_SECONDS
  MaxPulls           \* max_image_pull_attempts

PodReadinessAssumption ==
  /\ Budgets \subseteq Nat \X Nat
  /\ WaitTimeout \in Nat \ {0} /\ DiagnosisTimeout \in Nat /\ MaxPulls \in Nat \ {0}

VARIABLES
  pods,     \* what the cluster holds, by pod
  budget,   \* the configured pair
  now,
  pcW,
  since,    \* unschedulable_since, Never if None
  granted,  \* the budget of this stint
  failing,  \* has_image_pull_error of the last poll
  pulls,    \* consecutive_image_pull_errors
  asked,    \* the pods whose events are read
  outcome,
  seen,     \* history: since when every poll has found a pod without a node
  told      \* history: the autoscaler has said, since then, that a node is on its way

vars == <<pods, budget, now, pcW, since, granted, failing, pulls, asked, outcome, seen, told>>
locals == <<since, granted, failing, pulls, asked, seen, told>>

Never == 0 - 1
Unbounded == WaitTimeout + DiagnosisTimeout + 1  \* more than any wait lasts
Larger(a, b) == IF a >= b THEN a ELSE b

\* _budget_seconds: "zero disables the limit".
Seconds(b) == IF b = 0 THEN Unbounded ELSE b

Stage == {"none", "unschedulable", "creating", "pull failed", "running", "ready"}
Event == {"none", "refused", "in flight"}
NoPod == [stage |-> "none", leaving |-> FALSE, event |-> "none"]

Go(there) == pcW' = there /\ UNCHANGED outcome
Ends(how) == pcW' = "done" /\ outcome' = how

-----------------------------------------------------------------------------
(* What a poll makes of the pods (pods_are_ready).                         *)

Present == {p \in Pod : pods[p].stage # "none"}
\* _live_pods.
Remaining == {p \in Present : ~pods[p].leaving}
Terminating == Present # Remaining
\* Every live pod, and at least one (_pod_is_ready).
Ready == Remaining # {} /\ \A p \in Remaining : pods[p].stage = "ready"
Unscheduled == {p \in Remaining : pods[p].stage = "unschedulable"}
PullError == \E p \in Remaining : pods[p].stage = "pull failed"

\* The pulls are counted after the scheduler has been dealt with.
CountPulls(failed) ==
  /\ pulls' = IF failed THEN pulls + 1 ELSE 0
  /\ IF failed /\ pulls + 1 >= MaxPulls THEN Ends("pull errors") ELSE Go("sleep")

\* A stint begins with the budget of its own.
Stint == IF since = Never THEN now ELSE since
GrantOfStint == IF since = Never THEN Seconds(budget[1]) ELSE granted

\* Mutant: the clock runs on while the pods have their nodes.
NoStintKept == since
NoStint == Never

Poll ==
  /\ pcW = "list"
  /\ failing' = PullError
  /\ IF Ready /\ ~Terminating
     THEN Ends("ready") /\ UNCHANGED <<since, granted, pulls, seen, told>>
     ELSE IF Unscheduled = {}
     THEN /\ since' = NoStint /\ seen' = Never /\ told' = FALSE /\ UNCHANGED granted
          /\ CountPulls(PullError)
     ELSE /\ since' = Stint /\ granted' = GrantOfStint /\ UNCHANGED told
          /\ seen' = IF seen = Never THEN now ELSE seen
          /\ IF now - Stint >= GrantOfStint
             THEN Go("ask") /\ UNCHANGED pulls
             ELSE CountPulls(PullError)
  /\ UNCHANGED <<pods, budget, now, asked>>

\* The list of the verdict is another one than that of the poll (node_scaling_verdict).
AskPods ==
  /\ pcW = "ask"
  /\ asked' = Unscheduled
  /\ Go("events")
  /\ UNCHANGED <<pods, budget, now, since, granted, failing, pulls, seen, told>>

\* The best that is said of any pod; events that cannot be read are no verdict.
Verdicts ==
  LET heard == {pods[p].event : p \in asked}
  IN {IF "in flight" \in heard THEN "in flight"
      ELSE IF "refused" \in heard THEN "refused" ELSE "unknown"}
     \cup (IF asked = {} THEN {} ELSE {"unreadable"})

\* An answer can only extend the budget.
Extended(verdict) ==
  IF verdict = "in flight" THEN Larger(granted, Seconds(budget[2])) ELSE granted

AskEvents ==
  /\ pcW = "events"
  /\ \E verdict \in Verdicts :
       /\ granted' = Extended(verdict)
       /\ told' = (told \/ verdict = "in flight")
       /\ IF now - since >= Extended(verdict)
          THEN Ends("unschedulable") /\ UNCHANGED <<pulls, asked>>
          ELSE CountPulls(failing) /\ asked' = {}
  /\ UNCHANGED <<pods, budget, now, since, failing, seen>>

Sleep ==
  /\ pcW = "sleep" /\ now < WaitTimeout
  /\ now' = now + 1
  /\ Go("list")
  /\ UNCHANGED <<pods, budget, locals>>

Awaits == pcW \in {"list", "ask", "events", "sleep"}

\* A call fails, and its error is the caller's.
CallFails ==
  /\ pcW \in {"list", "ask"}
  /\ Ends("error")
  /\ UNCHANGED <<pods, budget, now, locals>>

TimesOut ==
  /\ Awaits /\ now >= WaitTimeout
  /\ Go("describe")
  /\ UNCHANGED <<pods, budget, now, locals>>

\* describe_pod_startup: has its answer, or none and a timeout of its own.
Describe ==
  /\ pcW = "describe"
  /\ Ends("timeout")
  /\ UNCHANGED <<pods, budget, now, locals>>

\* Calls take time, as long as they are let; so does the diagnosis.
Until == IF pcW = "describe" THEN WaitTimeout + DiagnosisTimeout ELSE WaitTimeout
Tick ==
  /\ pcW \in {"list", "ask", "events", "describe"} /\ now < Until
  /\ now' = now + 1
  /\ UNCHANGED <<pods, budget, pcW, locals, outcome>>

-----------------------------------------------------------------------------
(* The cluster.                                                            *)

Becomes(p, to) == pods' = [pods EXCEPT ![p] = to]
ClusterOnly == UNCHANGED <<budget, now, pcW, locals, outcome>>

PodCreated(p) ==
  /\ pods[p].stage = "none"
  /\ \E at \in {"unschedulable", "creating"} : Becomes(p, [NoPod EXCEPT !.stage = at])
  /\ ClusterOnly

\* The autoscaler changes its mind: a limit was raised, a node group is full.
AutoscalerSays(p) ==
  /\ pods[p].stage = "unschedulable"
  /\ \E e \in {"refused", "in flight"} : Becomes(p, [pods[p] EXCEPT !.event = e])
  /\ ClusterOnly

Follows(from) ==
  CASE from = "unschedulable" -> {"creating"}
    [] from = "creating" -> {"pull failed", "running"}
    [] from = "pull failed" -> {"creating"}
    [] from = "running" -> {"ready"}
    [] from = "ready" -> {"running"}
    [] OTHER -> {}

PodMoves(p) ==
  /\ \E to \in Follows(pods[p].stage) :
       Becomes(p, [pods[p] EXCEPT !.stage = to, !.event = "none"])
  /\ ClusterOnly

PodLeaves(p) ==
  /\ pods[p].stage # "none"
  /\ Becomes(p, IF pods[p].leaving THEN NoPod ELSE [pods[p] EXCEPT !.leaving = TRUE])
  /\ ClusterOnly

\* A Deployment of its own, or one whose old pod is on its way out (the RESTART reuse).
Init ==
  /\ pods \in [Pod -> {NoPod, [stage |-> "ready", leaving |-> TRUE, event |-> "none"]}]
  /\ budget \in Budgets /\ now = 0 /\ pcW = "list"
  /\ since = Never /\ granted = Seconds(budget[1]) /\ failing = FALSE /\ pulls = 0
  /\ asked = {} /\ outcome = "none" /\ seen = Never /\ told = FALSE

Waiter == Poll \/ AskPods \/ AskEvents \/ Sleep \/ TimesOut \/ Describe
Cluster(p) == PodCreated(p) \/ AutoscalerSays(p) \/ PodMoves(p) \/ PodLeaves(p)
Next == Waiter \/ CallFails \/ Tick \/ \E p \in Pod : pcW # "done" /\ Cluster(p)

\* The event loop runs; the cluster need not do anything.
Fairness == WF_vars(Waiter)

Spec == Init /\ [][Next]_vars
FairSpec == Spec /\ Fairness

-----------------------------------------------------------------------------
TypeOK ==
  /\ pods \in [Pod -> [stage : Stage, leaving : BOOLEAN, event : Event]]
  /\ budget \in Budgets /\ now \in 0 .. WaitTimeout + DiagnosisTimeout
  /\ pcW \in {"list", "ask", "events", "sleep", "describe", "done"}
  /\ since \in {Never} \cup 0 .. WaitTimeout /\ granted \in Nat
  /\ failing \in BOOLEAN /\ pulls \in 0 .. MaxPulls /\ asked \subseteq Pod
  /\ outcome \in {"none", "ready", "unschedulable", "pull errors", "error", "timeout"}
  /\ seen \in {Never} \cup 0 .. WaitTimeout /\ told \in BOOLEAN

(* Pods that wait for a node are given up only when they have waited, from *)
(* one poll to the next, for what they were promised: the first budget,    *)
(* and the second as soon as the autoscaler has once said that a node is   *)
(* on its way, whatever it says later; a budget of zero is no budget       *)
(* (wait_for_pods_ready, SchedulingConfig).                                *)
BudgetsKept ==
  outcome = "unschedulable" =>
    /\ seen # Never /\ budget[1] # 0 /\ now - seen >= budget[1]
    /\ told => budget[2] # 0 /\ now - seen >= budget[2]

(* The wait ends, whatever the cluster does: with all pods ready, with an  *)
(* error, or with its timeout and the diagnosis.                           *)
WaitEnds == (pcW = "list") ~> (pcW = "done")

-----------------------------------------------------------------------------
(* What the source says, and the code does not do: it "fails fast ... if   *)
(* pods stay Unschedulable for longer than the budget".  The events are    *)
(* those of a second list, and pods that have got their node between the   *)
(* two have no verdict: they are given up for being unschedulable.         *)
StillUnschedulable == outcome = "unschedulable" => asked # {}
=============================================================================
