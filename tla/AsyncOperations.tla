-------------------------- MODULE AsyncOperations --------------------------
(***************************************************************************)
(* Starting a server as an asynchronous operation: the client library      *)
(* posts a request, a replica records an operation and runs the start as a *)
(* task, the library polls for the outcome and tries again when it is      *)
(* told to, and the watcher looks after operations nobody finishes.        *)
(*                                                                         *)
(* All calls are for one client name and one kind of server, so that they  *)
(* compete for the FINISHED ones.  How a start works on its server is in   *)
(* ServerLifecycle; here it succeeds, is refused or fails.                 *)
(***************************************************************************)
EXTENDS Integers, FiniteSets

CONSTANTS
    Call,        \* calls of start_server in client programs
    Op,          \* ids the async_operations table may hand out
    None,
    MaxClock,    \* bound on the clock that orders operations
    MaxServers,  \* bound on the FINISHED servers on offer
    Fifo,        \* enable_fifo_server_reuse
    Faults       \* what may go wrong, of AllFaults

\* "api": a request of the client gets no response.  "db": a statement raises,
\* before or after it took effect.  "cancel": a replica shuts down and cancels
\* its tasks.  "crash": it dies.
AllFaults == {"api", "db", "cancel", "crash"}

ASSUME OperationsConstants ==
    /\ None \notin Op \cup Call
    /\ MaxClock \in Nat /\ MaxServers \in Nat
    /\ Fifo \in BOOLEAN
    /\ Faults \subseteq AllFaults

VARIABLES
    ops,      \* [Op -> row of async_operations]
    task,     \* [Op -> the next step of its task]
    call,     \* [Call -> the state of a client's call]
    offered,  \* how many FINISHED servers match
    clock     \* milliseconds, as far as they order operations

vars == <<ops, task, call, offered, clock>>

Answer == {"SUCCEEDED", "FAILED", "CANCELLED"}
Status == {"free", "inserted", "SCHEDULED", "IN_PROGRESS", "FINISHED_BY_WATCHER", "deleted"}
              \cup Answer
\* age counts from started_at: "stale" is beyond request_stale, "old" beyond
\* request_max_age.  busy: the result is a 429.
OpRow == [status : Status, at : 0 .. MaxClock, by : Call \cup {None},
          age : {"unstarted", "young", "stale", "old"}, busy : BOOLEAN]
TaskPC == {"none", "insert", "find", "blocked", "claim", "begin", "work",
           "succeed", "refuse", "fail", "cancel", "close"}
Returned == {"served", "failed", "busy", "timeout"}
CallState == [pc : {"idle", "post", "poll", "pause"} \cup Returned, op : Op \cup {None},
              over : BOOLEAN,     \* the deadline of the call has passed
              late : BOOLEAN,     \* so has the deadline of its polling
              inTime : BOOLEAN]   \* the operation had succeeded by then

NoRow == [status |-> "free", at |-> 0, by |-> None, age |-> "unstarted", busy |-> FALSE]
NoCall == [pc |-> "idle", op |-> None, over |-> FALSE, late |-> FALSE, inTime |-> FALSE]

-----------------------------------------------------------------------------
(* The orchestrator.                                                       *)

Goto(o, pc) == task' = [task EXCEPT ![o] = pc]

\* The call whose POST asked for o, if it still waits for the response.
Posting(o) == {c \in Call : call[c].pc = "post" /\ call[c].op = o}
Respond(o, pc) ==
    call' = [c \in Call |-> IF c \in Posting(o) THEN [call[c] EXCEPT !.pc = pc] ELSE call[c]]

\* save_async_operation: the time is that of the INSERT, others see the row at
\* the commit, after which the task is started and the POST answered.
Schedule(o) ==
    /\ task[o] = "insert"
    /\ ops' = [ops EXCEPT ![o].status = "SCHEDULED"]
    /\ \E pc \in {"find", "begin"} : Goto(o, pc)   \* reuse_strategy: some, NONE
    /\ Respond(o, "poll")
    /\ UNCHANGED <<offered, clock>>

\* has_pending_start_server_operations: those scheduled before this instant,
\* the asking one among them.
Pending == {p \in Op : ops[p].status = "SCHEDULED" /\ ops[p].at < clock}

Find(o) ==
    /\ task[o] = "find"
    /\ Goto(o, IF Fifo /\ Pending # {} THEN "blocked" ELSE "claim")
    /\ UNCHANGED <<ops, call, offered, clock>>

\* A start that is queued behind others is refused if a server is on offer;
\* otherwise there is nothing to queue for, and it gets a new one.
Blocked(o) ==
    /\ task[o] = "blocked"
    /\ Goto(o, IF offered > 0 THEN "refuse" ELSE "begin")
    /\ UNCHANGED <<ops, call, offered, clock>>

\* A server is claimed; or there is none, or none that is not locked.
\* (ClaimUnseen is faulty: it does not look whether there is one.)
ClaimUnseen(o) ==
    /\ task[o] = "claim"
    /\ offered' = offered - 1
    /\ Goto(o, "begin")
    /\ UNCHANGED <<ops, call, clock>>
Claim(o) ==
    /\ task[o] = "claim"
    /\ offered' \in {offered, offered - 1} \cap Nat
    /\ Goto(o, "begin")
    /\ UNCHANGED <<ops, call, clock>>

\* update_async_operation: a row that is still there, whatever it says.
Gone(o) == ops[o].status = "deleted"
Update(o, status, busy) ==
    ops' = IF Gone(o) THEN ops
           ELSE [ops EXCEPT ![o].status = status, ![o].busy = busy]

Begin(o) ==
    /\ task[o] = "begin"
    /\ ops' = IF Gone(o) THEN ops
              ELSE [ops EXCEPT ![o].status = "IN_PROGRESS", ![o].age = "young"]
    /\ Goto(o, "work")
    /\ UNCHANGED <<call, offered, clock>>

\* The rest of _task_start_server: done, refused for quota, or failed.
Work(o) ==
    /\ task[o] = "work"
    /\ \E pc \in {"succeed", "refuse", "fail"} : Goto(o, pc)
    /\ UNCHANGED <<ops, call, offered, clock>>

\* The outcome is committed; the session is yet to be closed.
Record(o) ==
    /\ \/ task[o] = "succeed" /\ Update(o, "SUCCEEDED", FALSE)
       \/ task[o] = "refuse" /\ Update(o, "FAILED", TRUE)
       \/ task[o] = "fail" /\ Update(o, "FAILED", FALSE)
       \/ task[o] = "cancel" /\ Update(o, "CANCELLED", FALSE)
    /\ Goto(o, "close")
    /\ UNCHANGED <<call, offered, clock>>

Close(o) ==
    /\ task[o] = "close"
    /\ Goto(o, "none")
    /\ UNCHANGED <<ops, call, offered, clock>>

\* A statement raises, or CancelledError comes out of an await.  The start then
\* records that, even after it recorded its success; a handler just ends.
Interrupt(o) ==
    \E h \in (IF "cancel" \in Faults THEN {"cancel"} ELSE {})
                \cup (IF "db" \in Faults THEN {"fail"} ELSE {}) :
        /\ \/ /\ \/ task[o] \in {"find", "blocked", "claim", "begin", "work", "succeed"}
                 \/ task[o] = "close" /\ ops[o].status = "SUCCEEDED"
              /\ Goto(o, h)
           \/ task[o] \in {"refuse", "fail", "cancel"} /\ Goto(o, "none")
        /\ UNCHANGED <<ops, call, offered, clock>>

\* An endpoint that raises answers with an error, which the client passes on.
Raised(o) == Respond(o, "failed")

\* The replica dies with the task.  A request that is cut off, by that or by an
\* exception, may leave a row without a task.
Die(o) ==
    /\ "crash" \in Faults
    /\ task[o] \notin {"none", "insert"}
    /\ Goto(o, "none")
    /\ UNCHANGED <<ops, call, offered, clock>>

CutOff(o) ==
    /\ Faults \cap {"db", "cancel", "crash"} # {}
    /\ task[o] = "insert"
    /\ \E status \in {"SCHEDULED", "deleted"} : ops' = [ops EXCEPT ![o].status = status]
    /\ Goto(o, "none")
    /\ Raised(o)
    /\ UNCHANGED <<offered, clock>>

-----------------------------------------------------------------------------
(* The client library.                                                     *)

\* start_server, or its next attempt, as long as there is time.
Post(c, o) ==
    /\ call[c].pc = "idle" \/ (call[c].pc = "pause" /\ ~call[c].over)
    /\ ops[o] = NoRow
    /\ ops' = [ops EXCEPT ![o].status = "inserted", ![o].at = clock, ![o].by = c]
    /\ Goto(o, "insert")
    /\ call' = [call EXCEPT ![c].pc = "post", ![c].op = o]
    /\ UNCHANGED <<offered, clock>>

\* A request without a response raises, as does one that hangs beyond the
\* allowance after the deadline, and start_server does not catch it.
Lose(c) ==
    /\ "api" \in Faults
    /\ call[c].pc \in {"post", "poll"}
    /\ call' = [call EXCEPT ![c].pc = "failed"]
    /\ UNCHANGED <<ops, task, offered, clock>>

\* The deadline of the call; and that of the polling, which is given at the
\* response to the POST the time that was left before it.
Deadline(c) ==
    /\ \/ /\ call[c].pc \in {"post", "poll", "pause"} /\ ~call[c].over
          /\ call' = [call EXCEPT ![c].over = TRUE]
       \/ /\ call[c].pc = "poll" /\ call[c].over /\ ~call[c].late
          /\ call' = [call EXCEPT ![c].late = TRUE,
                                  ![c].inTime = ops[call[c].op].status = "SUCCEEDED"]
    /\ UNCHANGED <<ops, task, offered, clock>>

\* What a call does next with the row it polled; the last poll is made at the
\* deadline.  (Three faulty ones: PollNotAgain does not look at the deadline,
\* PollForever never stops, PollThenRetry tries again instead of waiting.)
Outcome(row, k) ==
    CASE row.status = "SUCCEEDED" -> "served"
      [] row.status = "FAILED" /\ row.busy -> IF k.over THEN "busy" ELSE "pause"
      [] row.status \in {"FAILED", "CANCELLED", "deleted"} -> "failed"
      [] OTHER -> "poll"
PollNotAgain(row, k) == IF k.late THEN "timeout" ELSE Outcome(row, k)
PollForever(row, k) == Outcome(row, k)
PollThenRetry(row, k) ==
    IF Outcome(row, k) = "poll" THEN IF k.over THEN "timeout" ELSE "pause" ELSE Outcome(row, k)
AfterPoll(row, k) ==
    IF Outcome(row, k) = "poll" /\ k.late THEN "timeout" ELSE Outcome(row, k)

Poll(c) ==
    /\ call[c].pc = "poll"
    /\ call' = [call EXCEPT ![c].pc = AfterPoll(ops[call[c].op], call[c])]
    /\ UNCHANGED <<ops, task, offered, clock>>

\* The pause before another attempt ended after the deadline.
GiveUp(c) ==
    /\ call[c].pc = "pause" /\ call[c].over
    /\ call' = [call EXCEPT ![c].pc = "busy"]
    /\ UNCHANGED <<ops, task, offered, clock>>

-----------------------------------------------------------------------------
(* The watcher, and time.                                                  *)

\* delete_old_async_operations: by started_at, whatever the status.
DeleteOld ==
    /\ \E o \in Op : ops[o].age = "old"
    /\ ops' = [o \in Op |-> IF ops[o].age = "old"
                            THEN [ops[o] EXCEPT !.status = "deleted", !.age = "unstarted"]
                            ELSE ops[o]]
    /\ UNCHANGED <<task, call, offered, clock>>

\* mark_stale_async_operations_as_finished.  (StaleUnstarted is faulty.)
StaleUnstarted(row) == row.age = "stale" /\ row.status = "SCHEDULED"
Stale(row) == row.age \in {"stale", "old"} /\ row.status = "IN_PROGRESS"

MarkStale ==
    /\ \E o \in Op : Stale(ops[o])
    /\ ops' = [o \in Op |-> IF Stale(ops[o])
                            THEN [ops[o] EXCEPT !.status = "FINISHED_BY_WATCHER"] ELSE ops[o]]
    /\ UNCHANGED <<task, call, offered, clock>>

Age(o) ==
    /\ ops[o].age \in {"young", "stale"}
    /\ ops' = [ops EXCEPT ![o].age = IF @ = "young" THEN "stale" ELSE "old"]
    /\ UNCHANGED <<task, call, offered, clock>>

Tick ==
    /\ clock < MaxClock
    /\ clock' = clock + 1
    /\ UNCHANGED <<ops, task, call, offered>>

\* Somebody finishes a server.
Offer ==
    /\ offered < MaxServers
    /\ offered' = offered + 1
    /\ UNCHANGED <<ops, task, call, clock>>

-----------------------------------------------------------------------------
Init ==
    /\ ops = [o \in Op |-> NoRow]
    /\ task = [o \in Op |-> "none"]
    /\ call = [c \in Call |-> NoCall]
    /\ offered = 0
    /\ clock = 0

Step(o) ==
    Schedule(o) \/ Find(o) \/ Blocked(o) \/ Claim(o) \/ Begin(o) \/ Work(o) \/ Record(o) \/ Close(o)

Next ==
    \/ \E o \in Op : Step(o) \/ Interrupt(o) \/ Die(o) \/ CutOff(o) \/ Age(o)
    \/ \E c \in Call : (\E o \in Op : Post(c, o)) \/ Lose(c) \/ Deadline(c) \/ Poll(c) \/ GiveUp(c)
    \/ DeleteOld \/ MarkStale \/ Tick \/ Offer

Spec == Init /\ [][Next]_vars

\* The event loop that answers a POST runs it, clients poll, deadlines pass,
\* and the watcher, which loops for ever, finds operations stale in time.  No
\* task is obliged to get anywhere: a replica may die with it.
FairSpec ==
    /\ Spec
    /\ \A o \in Op : WF_vars(Schedule(o)) /\ WF_vars(Age(o))
    /\ \A c \in Call : WF_vars(Deadline(c)) /\ WF_vars(Poll(c)) /\ WF_vars(GiveUp(c))
    /\ WF_vars(MarkStale)

-----------------------------------------------------------------------------
TypeOK ==
    /\ ops \in [Op -> OpRow]
    /\ task \in [Op -> TaskPC]
    /\ call \in [Call -> CallState]
    /\ offered \in 0 .. MaxServers
    /\ clock \in 0 .. MaxClock

\* A call of start_server gets one server at most, however often it is refused,
\* interrupted or overtaken by the watcher: of the operations it posted no two
\* can still start a server or have started one.
MayStart(o) ==
    \/ task[o] \in {"insert", "find", "blocked", "claim", "begin", "work", "succeed"}
    \/ ops[o].status = "SUCCEEDED"
OneServerPerCall ==
    \A o, p \in Op :
        o # p /\ ops[o].by # None /\ ops[o].by = ops[p].by => ~(MayStart(o) /\ MayStart(p))

\* "an operation that succeeded after the last early poll would be reported as
\* timed out, orphaning, say, a server that did start": not so, a call that
\* timed out had no success by its deadline (wait_for_async_operation_to_end).
NoMissedSuccess == \A c \in Call : call[c].pc = "timeout" => ~call[c].inTime

\* Whoever dies, nobody is left waiting: every call returns, though its operation
\* be marked by the watcher or deleted, or its refusals go on; and an operation
\* that was started does not stay IN_PROGRESS for ever, the watcher ends it.
CallsReturn == \A c \in Call : call[c].pc # "idle" ~> call[c].pc \in Returned
StartedEnd ==
    \A o \in Op : ops[o].status = "IN_PROGRESS" ~> ops[o].status # "IN_PROGRESS"
NobodyWaits == CallsReturn /\ StartedEnd

-----------------------------------------------------------------------------
(* What the source says of this code, and the code does not do.            *)

\* "this request must wait for older queued operations to proceed first"
\* (find_matching_finished_server): a start that is refused for the queue's sake
\* is not the only one in it.
RefusedBehindAnother ==
    [][\A o \in Op :
          task[o] = "blocked" /\ task'[o] = "refuse" =>
              \E p \in Op \ {o} : ops[p].by # None /\ ops[p].at <= ops[o].at]_vars
=============================================================================
