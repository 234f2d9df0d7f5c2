----------------------- MODULE AsyncOperationsProofs -----------------------
(***************************************************************************)
(* Proofs about AsyncOperations, for any calls, operation ids, bounds and  *)
(* faults: its type invariant, that a call gets one server at most, and    *)
(* that a call that timed out missed no success.                           *)
(*                                                                         *)
(* Neither of the two is inductive.  What makes the first so is that only  *)
(* the operation a call posted last may still start a server, and that it  *)
(* may not once the call pauses; what makes the second so is that no step  *)
(* of a task, of the watcher or of a fault takes an operation that has     *)
(* succeeded back among those a poll waits for.                            *)
(***************************************************************************)
EXTENDS AsyncOperations, TLAPS

-----------------------------------------------------------------------------
(* The inductive invariant.                                                *)

\* What a call refers to is its own, and a call that has not begun has none.
CallsOwn ==
    \A c \in Call :
        IF call[c].pc = "idle" THEN \A o \in Op : ops[o].by # c
        ELSE call[c].op \in Op /\ ops[call[c].op].by = c

\* Where the task of an operation that succeeded may be: closing, or recording
\* an interrupt.  One that was refused for quota is over.
AfterSuccess == {"close", "fail", "cancel", "none"}
OutcomeIsLate(o) ==
    /\ ops[o].status = "FAILED" /\ ops[o].busy => task[o] \in {"close", "none"}
    /\ ops[o].status = "SUCCEEDED" => task[o] \in AfterSuccess

\* Of the operations of a call only the last may start a server, and none may
\* while the call pauses before the next.
OnlyTheLast ==
    /\ \A o \in Op : ops[o].by # None /\ MayStart(o) => call[ops[o].by].op = o
    /\ \A c \in Call : call[c].pc = "pause" => ~MayStart(call[c].op)

\* An operation no poll waits for any more, and none will.
Settled(o) ==
    /\ ops[o].status \in Answer \cup {"deleted"}
    /\ task[o] \in AfterSuccess

InTimeIsSettled ==
    \A c \in Call :
        /\ call[c].over => call[c].pc # "idle"
        /\ call[c].inTime => call[c].over /\ call[c].pc \in {"poll"} \cup Returned
        /\ call[c].inTime /\ call[c].pc = "poll" => Settled(call[c].op)

Inv ==
    /\ TypeOK
    /\ CallsOwn
    /\ \A o \in Op : OutcomeIsLate(o)
    /\ OnlyTheLast
    /\ InTimeIsSettled
    /\ NoMissedSuccess

-----------------------------------------------------------------------------
(* Types.                                                                  *)

\* Rows and calls that are changed where the code changes them.
LEMMA RowTypes ==
    ASSUME NEW row \in OpRow
    PROVE  /\ \A status \in Status : [row EXCEPT !.status = status] \in OpRow
           /\ \A status \in Status, busy \in BOOLEAN :
                  [row EXCEPT !.status = status, !.busy = busy] \in OpRow
           /\ \A age \in {"stale", "old"} : [row EXCEPT !.age = age] \in OpRow
           /\ \A status \in Status, age \in {"unstarted", "young"} :
                  [row EXCEPT !.status = status, !.age = age] \in OpRow
           /\ \A status \in Status, at \in 0 .. MaxClock, c \in Call :
                  [row EXCEPT !.status = status, !.at = at, !.by = c] \in OpRow
BY DEF OpRow

LEMMA CallTypes ==
    ASSUME NEW k \in CallState
    PROVE  /\ \A pc \in Returned : [k EXCEPT !.pc = pc] \in CallState
           /\ \A o \in Op : [k EXCEPT !.pc = "post", !.op = o] \in CallState
           /\ [k EXCEPT !.over = TRUE] \in CallState
           /\ \A b \in BOOLEAN : [k EXCEPT !.late = TRUE, !.inTime = b] \in CallState
BY DEF CallState, Returned

\* Every step of a task keeps the types.
LEMMA TaskTypes ==
    ASSUME TypeOK, NEW o \in Op, Step(o) \/ Interrupt(o) \/ Die(o) \/ CutOff(o) \/ Age(o)
    PROVE  TypeOK'
<1> USE OperationsConstants DEF TypeOK, Goto
<1>1. ASSUME NEW p \in Op, NEW pc \in {"poll", "failed"}, Respond(p, pc)
      PROVE  call' \in [Call -> CallState]
  BY <1>1 DEF Respond, Posting, CallState, Returned
<1>2. ops[o] \in OpRow
  OBVIOUS
<1>3. CASE Schedule(o)
  <2>1. ops' \in [Op -> OpRow]
    BY <1>2, <1>3, RowTypes DEF Schedule, Status
  <2>2. QED
    BY <1>1, <1>3, <2>1 DEF Schedule, TaskPC
<1>4. CASE Find(o) \/ Blocked(o) \/ Work(o) \/ Close(o)
  BY <1>4 DEF Find, Blocked, Work, Close, TaskPC
<1>5. CASE Claim(o)
  BY <1>5 DEF Claim, TaskPC
<1>6. CASE Begin(o)
  <2>1. [ops[o] EXCEPT !.status = "IN_PROGRESS", !.age = "young"] \in OpRow
    BY <1>2, RowTypes DEF Status
  <2>2. ops' = ops
            \/ ops' = [ops EXCEPT ![o] = [ops[o] EXCEPT !.status = "IN_PROGRESS", !.age = "young"]]
    BY <1>6 DEF Begin
  <2>3. QED
    BY <1>6, <2>1, <2>2 DEF Begin, TaskPC
<1>7. CASE Record(o)
  <2>1. \A status \in Answer, busy \in BOOLEAN : Update(o, status, busy) => ops' \in [Op -> OpRow]
    <3>1. SUFFICES ASSUME NEW status \in Answer, NEW busy \in BOOLEAN, Update(o, status, busy)
                   PROVE  ops' \in [Op -> OpRow]
      OBVIOUS
    <3>2. [ops[o] EXCEPT !.status = status, !.busy = busy] \in OpRow
      BY <1>2, RowTypes DEF Status
    <3>3. ops' = ops \/ ops' = [ops EXCEPT ![o] = [ops[o] EXCEPT !.status = status, !.busy = busy]]
      BY <3>1 DEF Update
    <3>4. QED
      BY <3>2, <3>3
  <2>2. QED
    BY <1>7, <2>1 DEF Record, Answer, TaskPC
<1>8. CASE Interrupt(o)
  BY <1>8 DEF Interrupt, TaskPC
<1>9. CASE Die(o)
  BY <1>9 DEF Die, TaskPC
<1>10. CASE CutOff(o)
  <2>1. \A status \in {"SCHEDULED", "deleted"} : [ops[o] EXCEPT !.status = status] \in OpRow
    BY <1>2, RowTypes DEF Status
  <2>2. QED
    BY <1>1, <1>10, <2>1 DEF CutOff, Raised, TaskPC
<1>11. CASE Age(o)
  <2>1. [ops[o] EXCEPT !.age = "stale"] \in OpRow /\ [ops[o] EXCEPT !.age = "old"] \in OpRow
    BY <1>2, RowTypes DEF OpRow
  <2>2. ops' = [ops EXCEPT ![o] = [ops[o] EXCEPT !.age = "stale"]]
            \/ ops' = [ops EXCEPT ![o] = [ops[o] EXCEPT !.age = "old"]]
    BY <1>11 DEF Age
  <2>3. QED
    BY <1>11, <2>1, <2>2 DEF Age
<1>12. QED
  BY <1>3, <1>4, <1>5, <1>6, <1>7, <1>8, <1>9, <1>10, <1>11 DEF Step

\* So does every step of a client, of the watcher and of the world.
LEMMA OtherTypes ==
    ASSUME TypeOK
    PROVE  /\ \A c \in Call : (\E o \in Op : Post(c, o)) \/ Lose(c) \/ Deadline(c) \/ Poll(c)
                                  \/ GiveUp(c) => TypeOK'
           /\ DeleteOld \/ MarkStale \/ Tick \/ Offer => TypeOK'
<1> USE OperationsConstants DEF TypeOK
<1>1. ASSUME NEW c \in Call, NEW o \in Op, Post(c, o)
      PROVE  TypeOK'
  <2>1. ops[o] \in OpRow /\ call[c] \in CallState /\ clock \in 0 .. MaxClock
    OBVIOUS
  <2>2. [ops[o] EXCEPT !.status = "inserted", !.at = clock, !.by = c] \in OpRow
    BY <2>1, RowTypes DEF Status
  <2>3. ops' = [ops EXCEPT ![o] = [ops[o] EXCEPT !.status = "inserted", !.at = clock, !.by = c]]
    BY <1>1 DEF Post
  <2>4. [call[c] EXCEPT !.pc = "post", !.op = o] \in CallState
    BY <2>1, CallTypes
  <2>5. call' = [call EXCEPT ![c] = [call[c] EXCEPT !.pc = "post", !.op = o]]
    BY <1>1 DEF Post
  <2>6. QED
    BY <1>1, <2>2, <2>3, <2>4, <2>5 DEF Post, Goto, TaskPC
<1>2. ASSUME NEW c \in Call, Lose(c) \/ GiveUp(c)
      PROVE  TypeOK'
  <2>1. \A pc \in {"failed", "busy"} : [call[c] EXCEPT !.pc = pc] \in CallState
    BY CallTypes DEF Returned
  <2>2. QED
    BY <1>2, <2>1 DEF Lose, GiveUp
<1>3. ASSUME NEW c \in Call, Deadline(c)
      PROVE  TypeOK'
  <2>1. call[c] \in CallState
    OBVIOUS
  <2>2. /\ [call[c] EXCEPT !.over = TRUE] \in CallState
        /\ \A b \in BOOLEAN : [call[c] EXCEPT !.late = TRUE, !.inTime = b] \in CallState
    BY <2>1, CallTypes
  <2>3. \/ call' = [call EXCEPT ![c] = [call[c] EXCEPT !.over = TRUE]]
        \/ \E b \in BOOLEAN : call' = [call EXCEPT ![c] = [call[c] EXCEPT !.late = TRUE, !.inTime = b]]
    BY <1>3 DEF Deadline
  <2>4. call' \in [Call -> CallState]
    BY <2>2, <2>3
  <2>5. QED
    BY <1>3, <2>4 DEF Deadline
<1>4. ASSUME NEW c \in Call, Poll(c)
      PROVE  TypeOK'
  <2>1. AfterPoll(ops[call[c].op], call[c])
            \in {"served", "busy", "pause", "failed", "poll", "timeout"}
    BY DEF AfterPoll, Outcome
  <2>2. QED
    BY <1>4, <2>1 DEF Poll, CallState, Returned
<1>5. CASE DeleteOld
  <2>1. \A o \in Op : [ops[o] EXCEPT !.status = "deleted", !.age = "unstarted"] \in OpRow
    BY RowTypes DEF Status
  <2>2. QED
    BY <1>5, <2>1 DEF DeleteOld
<1>6. CASE MarkStale
  <2>1. \A o \in Op : [ops[o] EXCEPT !.status = "FINISHED_BY_WATCHER"] \in OpRow
    BY RowTypes DEF Status
  <2>2. QED
    BY <1>6, <2>1 DEF MarkStale
<1>7. CASE Tick \/ Offer
  BY <1>7 DEF Tick, Offer
<1>8. QED
  BY <1>1, <1>2, <1>3, <1>4, <1>5, <1>6, <1>7

\* Every variable has its type.
THEOREM TypesHold == Spec => []TypeOK
<1>1. Init => TypeOK
  BY OperationsConstants
     DEF Init, TypeOK, NoRow, NoCall, OpRow, Status, TaskPC, CallState, Returned, Answer
<1>2. TypeOK /\ [Next]_vars => TypeOK'
  <2>1. TypeOK /\ Next => TypeOK'
    BY TaskTypes, OtherTypes DEF Next
  <2>2. TypeOK /\ UNCHANGED vars => TypeOK'
    BY DEF TypeOK, vars
  <2>3. QED
    BY <2>1, <2>2
<1>3. QED
  BY <1>1, <1>2, PTL DEF Spec

-----------------------------------------------------------------------------
(* What a step does to an operation.  Only a POST lets one start that      *)
(* could not, and only its row is new.                                     *)

GoesOn(o) ==
    /\ ops[o].by' = ops[o].by
    /\ MayStart(o)' => MayStart(o)
    /\ Settled(o) => Settled(o)'

LEMMA TaskGoesOn ==
    ASSUME TypeOK, NEW o \in Op, Step(o) \/ Interrupt(o) \/ Die(o) \/ CutOff(o) \/ Age(o),
           NEW p \in Op, OutcomeIsLate(p)
    PROVE  OutcomeIsLate(p)' /\ GoesOn(p)
<1> USE DEF TypeOK, OpRow, Status, TaskPC, OutcomeIsLate, GoesOn, MayStart, Settled, AfterSuccess, Answer, Goto
<1>1. CASE Schedule(o)
  BY <1>1 DEF Schedule
<1>2. CASE Find(o)
  BY <1>2 DEF Find
<1>3. CASE Blocked(o)
  BY <1>3 DEF Blocked
<1>4. CASE Claim(o)
  BY <1>4 DEF Claim
<1>5. CASE Begin(o)
  BY <1>5 DEF Begin, Gone
<1>6. CASE Work(o)
  BY <1>6 DEF Work
<1>7. CASE Record(o)
  BY <1>7 DEF Record, Update, Gone
<1>8. CASE Close(o)
  BY <1>8 DEF Close
<1>9. CASE Interrupt(o)
  BY <1>9 DEF Interrupt
<1>10. CASE Die(o)
  BY <1>10 DEF Die
<1>11. CASE CutOff(o)
  BY <1>11 DEF CutOff
<1>12. CASE Age(o)
  BY <1>12 DEF Age
<1>13. QED
  BY <1>1, <1>2, <1>3, <1>4, <1>5, <1>6, <1>7, <1>8, <1>9, <1>10, <1>11, <1>12 DEF Step

LEMMA WatcherGoesOn ==
    ASSUME TypeOK, DeleteOld \/ MarkStale, NEW p \in Op, OutcomeIsLate(p)
    PROVE  OutcomeIsLate(p)' /\ GoesOn(p)
<1> USE DEF TypeOK, OpRow, OutcomeIsLate, GoesOn, MayStart, Settled, AfterSuccess, Answer
<1>1. CASE DeleteOld
  <2>1. ops'[p] = ops[p] \/ ops'[p] = [ops[p] EXCEPT !.status = "deleted", !.age = "unstarted"]
    BY <1>1 DEF DeleteOld
  <2>2. QED
    BY <1>1, <2>1 DEF DeleteOld
<1>2. CASE MarkStale
  <2>1. \/ ops'[p] = ops[p]
        \/ ops[p].status = "IN_PROGRESS" /\ ops'[p] = [ops[p] EXCEPT !.status = "FINISHED_BY_WATCHER"]
    BY <1>2 DEF MarkStale, Stale
  <2>2. QED
    BY <1>2, <2>1 DEF MarkStale
<1>3. QED
  BY <1>1, <1>2

-----------------------------------------------------------------------------
(* What a step does to the calls.                                          *)

\* A step that is not the client's changes a call only by the response to its
\* POST.
Answered(c) ==
    \/ call'[c] = call[c]
    \/ call[c].pc = "post" /\ \E pc \in {"poll", "failed"} : call'[c] = [call[c] EXCEPT !.pc = pc]

LEMMA TaskAnswers ==
    ASSUME TypeOK, NEW o \in Op, Step(o) \/ Interrupt(o) \/ Die(o) \/ CutOff(o) \/ Age(o),
           NEW c \in Call
    PROVE  Answered(c)
BY DEF TypeOK, Answered, Step, Schedule, Find, Blocked, Claim, Begin, Work, Record, Close, Interrupt,
       Die, CutOff, Raised, Age, Respond, Posting

LEMMA OthersKeepInv ==
    ASSUME Inv, TypeOK',
           \A o \in Op : OutcomeIsLate(o)' /\ GoesOn(o), \A c \in Call : Answered(c)
    PROVE  Inv'
<1>1. \A c \in Call : /\ call'[c].op = call[c].op /\ call'[c].over = call[c].over
                      /\ call'[c].inTime = call[c].inTime
                      /\ \/ call'[c].pc = call[c].pc
                         \/ call[c].pc = "post" /\ call'[c].pc \in {"poll", "failed"}
  <2>1. TAKE c \in Call
  <2>2. CASE call'[c] = call[c]
    BY <2>2
  <2>3. CASE call'[c] # call[c]
    <3>1. PICK pc \in {"poll", "failed"} : call[c].pc = "post" /\ call'[c] = [call[c] EXCEPT !.pc = pc]
      BY <2>3 DEF Answered
    <3>2. call[c] \in CallState
      BY DEF Inv, TypeOK
    <3>3. QED
      BY <3>1, <3>2 DEF CallState
  <2>4. QED
    BY <2>2, <2>3
<1>2. CallsOwn'
  <2>1. \A o \in Op : ops'[o].by = ops[o].by
    BY DEF GoesOn
  <2>2. QED
    BY <1>1, <2>1 DEF Inv, CallsOwn
<1> USE DEF Inv, TypeOK, CallState, Returned, GoesOn
<1>3. OnlyTheLast'
  <2>1. \A o \in Op : ops[o].by \in Call \cup {None}
    BY DEF OpRow
  <2>2. \A o \in Op : ops'[o].by # None /\ MayStart(o)' => call'[ops'[o].by].op = o
    BY <1>1, <2>1 DEF OnlyTheLast
  <2>3. ASSUME NEW c \in Call, call'[c].pc = "pause"
        PROVE  ~MayStart(call[c].op)'
    <3>1. call[c].pc = "pause" /\ call'[c].op = call[c].op /\ call[c].op \in Op
      BY <1>1, <2>3 DEF CallsOwn
    <3>2. ~MayStart(call[c].op)
      BY <3>1 DEF OnlyTheLast
    <3>3. QED
      BY <3>1, <3>2 DEF MayStart
  <2>4. QED
    BY <2>2, <2>3 DEF OnlyTheLast
<1>4. InTimeIsSettled'
  <2>1. ASSUME NEW c \in Call, call'[c].inTime, call'[c].pc = "poll"
        PROVE  Settled(call[c].op)'
    <3>1. call[c].inTime /\ call[c].pc = "poll" /\ call'[c].op = call[c].op /\ call[c].op \in Op
      BY <1>1, <2>1 DEF InTimeIsSettled, CallsOwn
    <3>2. Settled(call[c].op)
      BY <3>1 DEF InTimeIsSettled
    <3>3. QED
      BY <3>1, <3>2 DEF Settled
  <2>2. QED
    BY <1>1, <2>1 DEF InTimeIsSettled
<1>5. NoMissedSuccess'
  BY <1>1 DEF NoMissedSuccess
<1>6. QED
  BY <1>2, <1>3, <1>4, <1>5

\* A POST: none of the earlier operations of the call may still start a server.
LEMMA PostKeepsInv ==
    ASSUME Inv, TypeOK', NEW c \in Call, NEW o \in Op, Post(c, o)
    PROVE  Inv'
<1> USE OperationsConstants DEF Inv, TypeOK
<1>1. /\ ops'[o].by = c /\ ops'[o].status = "inserted" /\ task'[o] = "insert"
      /\ \A p \in Op \ {o} : ops'[p] = ops[p] /\ task'[p] = task[p]
      /\ ops[o] = NoRow
  BY DEF Post, Goto, OpRow
<1>2. /\ call'[c] = [call[c] EXCEPT !.pc = "post", !.op = o]
      /\ call'[c].pc = "post" /\ call'[c].op = o
      /\ call'[c].over = call[c].over /\ call'[c].inTime = call[c].inTime
      /\ \A d \in Call \ {c} : call'[d] = call[d]
  BY DEF Post, CallState
<1>3. \A p \in Op : ops[p].by = c => ~MayStart(p)
  <2>1. CASE call[c].pc = "idle"
    BY <2>1 DEF CallsOwn
  <2>2. CASE call[c].pc = "pause"
    BY <2>2 DEF OnlyTheLast
  <2>3. QED
    BY <2>1, <2>2 DEF Post
<1>4. \A d \in Call : call[d].pc # "idle" => call[d].op \in Op \ {o}
  BY <1>1 DEF CallsOwn, NoRow
<1>5. \A p \in Op \ {o} : MayStart(p)' = MayStart(p) /\ Settled(p)' = Settled(p)
  BY <1>1 DEF MayStart, Settled
<1>6. CallsOwn'
  <2>1. ASSUME NEW d \in Call \ {c}
        PROVE  IF call'[d].pc = "idle" THEN \A p \in Op : ops'[p].by # d
               ELSE call'[d].op \in Op /\ ops'[call'[d].op].by = d
    BY <2>1, <1>1, <1>2, <1>4 DEF CallsOwn
  <2>2. call'[c].pc # "idle" /\ call'[c].op \in Op /\ ops'[call'[c].op].by = c
    BY <1>1, <1>2
  <2>3. QED
    BY <2>1, <2>2 DEF CallsOwn
<1>7. \A p \in Op : OutcomeIsLate(p)'
  BY <1>1 DEF OutcomeIsLate
<1>8. OnlyTheLast'
  <2>1. ASSUME NEW p \in Op, ops'[p].by # None, MayStart(p)'
        PROVE  call'[ops'[p].by].op = p
    <3>1. CASE p = o
      BY <3>1, <1>1, <1>2
    <3>2. CASE p # o
      <4>1. ops'[p] = ops[p] /\ MayStart(p) /\ ops[p].by \in Call
        BY <3>2, <1>1, <1>5, <2>1 DEF OpRow
      <4>2. ops[p].by # c
        BY <4>1, <1>3
      <4>3. QED
        BY <2>1, <4>1, <4>2, <1>2 DEF OnlyTheLast
    <3>3. QED
      BY <3>1, <3>2
  <2>2. ASSUME NEW d \in Call, call'[d].pc = "pause"
        PROVE  ~MayStart(call[d].op)'
    <3>1. d # c /\ call'[d] = call[d] /\ call[d].pc = "pause" /\ call[d].op \in Op \ {o}
      BY <2>2, <1>2, <1>4
    <3>2. ~MayStart(call[d].op)
      BY <3>1 DEF OnlyTheLast
    <3>3. QED
      BY <3>1, <3>2, <1>1 DEF MayStart
  <2>3. QED
    BY <2>1, <2>2 DEF OnlyTheLast
<1>9. InTimeIsSettled'
  <2>1. ~call[c].over
    BY DEF Post, InTimeIsSettled
  <2>2. ASSUME NEW d \in Call, d # c
        PROVE  /\ call'[d].over => call'[d].pc # "idle"
               /\ call'[d].inTime => call'[d].over /\ call'[d].pc \in {"poll"} \cup Returned
               /\ call'[d].inTime /\ call'[d].pc = "poll" => Settled(call[d].op)'
    BY <2>2, <1>1, <1>2, <1>4 DEF InTimeIsSettled, Settled
  <2>3. QED
    BY <2>1, <2>2, <1>2 DEF InTimeIsSettled
<1>10. NoMissedSuccess'
  BY <1>2 DEF NoMissedSuccess
<1>11. QED
  BY <1>6, <1>7, <1>8, <1>9, <1>10

\* The other steps of the client leave the operations alone.
LEMMA ClientKeepsInv ==
    ASSUME Inv, TypeOK', NEW c \in Call, Lose(c) \/ Deadline(c) \/ Poll(c) \/ GiveUp(c)
    PROVE  Inv'
<1> USE DEF Inv, TypeOK
<1>1. UNCHANGED <<ops, task>>
  BY DEF Lose, Deadline, Poll, GiveUp
<1>2. \A d \in Call \ {c} : call'[d] = call[d]
  BY DEF Lose, Deadline, Poll, GiveUp
<1>3. call[c].pc # "idle" /\ call'[c].pc # "idle" /\ call'[c].op = call[c].op
  BY DEF Lose, Deadline, Poll, GiveUp, AfterPoll, Outcome, CallState
<1>4. \A p \in Op : MayStart(p)' = MayStart(p) /\ Settled(p)' = Settled(p)
  BY <1>1 DEF MayStart, Settled
<1>5. CallsOwn'
  BY <1>1, <1>2, <1>3 DEF CallsOwn
<1>6. \A p \in Op : OutcomeIsLate(p)'
  BY <1>1 DEF OutcomeIsLate
<1>7. call[c].op \in Op
  BY <1>3 DEF CallsOwn
<1>8. call'[c].pc = "pause" => ~MayStart(call[c].op)
  <2>1. ASSUME Poll(c), call'[c].pc = "pause"
        PROVE  ~MayStart(call[c].op)
    <3>1. ops[call[c].op].status = "FAILED" /\ ops[call[c].op].busy
      BY <2>1 DEF Poll, AfterPoll, Outcome, CallState
    <3>2. QED
      BY <3>1, <1>7 DEF OutcomeIsLate, MayStart
  <2>2. ASSUME Lose(c) \/ Deadline(c) \/ GiveUp(c), call'[c].pc = "pause"
        PROVE  ~MayStart(call[c].op)
    BY <2>2 DEF Lose, Deadline, GiveUp, CallState, OnlyTheLast
  <2>3. QED
    BY <2>1, <2>2
<1>9. OnlyTheLast'
  <2>1. \A p \in Op : ops'[p].by # None /\ MayStart(p)' => call'[ops'[p].by].op = p
    BY <1>1, <1>2, <1>3, <1>4 DEF OnlyTheLast, OpRow
  <2>2. ASSUME NEW d \in Call, call'[d].pc = "pause"
        PROVE  ~MayStart(call[d].op)'
    BY <2>2, <1>1, <1>2, <1>3, <1>8 DEF OnlyTheLast, MayStart
  <2>3. QED
    BY <2>1, <2>2 DEF OnlyTheLast
<1>10. /\ call'[c].over => call'[c].pc # "idle"
       /\ call'[c].inTime => call'[c].over /\ call'[c].pc \in {"poll"} \cup Returned
       /\ call'[c].inTime /\ call'[c].pc = "poll" => Settled(call[c].op)
       /\ call'[c].pc = "timeout" => ~call'[c].inTime
  <2>1. CASE Lose(c)
    BY <2>1 DEF Lose, CallState, Returned, InTimeIsSettled
  <2>2. CASE Deadline(c)
    BY <2>2, <1>7 DEF Deadline, CallState, Returned, InTimeIsSettled, OutcomeIsLate, Settled, Answer,
                      NoMissedSuccess
  <2>3. CASE Poll(c)
    <3>1. /\ call[c].pc = "poll" /\ call'[c].over = call[c].over /\ call'[c].inTime = call[c].inTime
          /\ call'[c].pc = AfterPoll(ops[call[c].op], call[c])
      BY <2>3 DEF Poll, CallState
    <3>2. CASE call[c].inTime
      <4>1. call[c].over /\ Settled(call[c].op)
        BY <3>1, <3>2 DEF InTimeIsSettled
      <4>2. AfterPoll(ops[call[c].op], call[c]) \in {"served", "busy", "failed"}
        BY <4>1 DEF AfterPoll, Outcome, Settled, Answer
      <4>3. QED
        BY <3>1, <4>1, <4>2 DEF Returned
    <3>3. CASE ~call[c].inTime
      BY <3>1, <3>3, <1>3 DEF InTimeIsSettled
    <3>4. QED
      BY <3>2, <3>3
  <2>4. CASE GiveUp(c)
    BY <2>4 DEF GiveUp, CallState, Returned, InTimeIsSettled
  <2>5. QED
    BY <2>1, <2>2, <2>3, <2>4
<1>11. InTimeIsSettled'
  BY <1>1, <1>2, <1>3, <1>4, <1>10, <1>5 DEF InTimeIsSettled, CallsOwn
<1>12. NoMissedSuccess'
  BY <1>2, <1>10 DEF NoMissedSuccess
<1>13. QED
  BY <1>5, <1>6, <1>9, <1>11, <1>12

-----------------------------------------------------------------------------
(* The theorems.                                                           *)

LEMMA InvHolds == Spec => []Inv
<1>1. Init => Inv
  <2> SUFFICES ASSUME Init PROVE Inv
    OBVIOUS
  <2>1. TypeOK
    BY OperationsConstants
       DEF Init, TypeOK, NoRow, NoCall, OpRow, Status, TaskPC, CallState, Returned, Answer
  <2>2. QED
    BY <2>1, OperationsConstants
       DEF Init, NoRow, NoCall, Inv, CallsOwn, OutcomeIsLate, OnlyTheLast, MayStart, InTimeIsSettled,
           NoMissedSuccess
<1>2. Inv /\ [Next]_vars => Inv'
  <2> SUFFICES ASSUME Inv, [Next]_vars PROVE Inv'
    OBVIOUS
  <2>1. ASSUME NEW o \in Op, Step(o) \/ Interrupt(o) \/ Die(o) \/ CutOff(o) \/ Age(o)
        PROVE  Inv'
    BY <2>1, TaskTypes, TaskGoesOn, TaskAnswers, OthersKeepInv DEF Inv
  <2>2. ASSUME NEW c \in Call, NEW o \in Op, Post(c, o)
        PROVE  Inv'
    BY <2>2, OtherTypes, PostKeepsInv DEF Inv
  <2>3. ASSUME NEW c \in Call, Lose(c) \/ Deadline(c) \/ Poll(c) \/ GiveUp(c)
        PROVE  Inv'
    BY <2>3, OtherTypes, ClientKeepsInv DEF Inv
  <2>4. CASE DeleteOld \/ MarkStale
    <3>1. \A c \in Call : Answered(c)
      BY <2>4 DEF DeleteOld, MarkStale, Answered
    <3>2. QED
      BY <2>4, <3>1, OtherTypes, WatcherGoesOn, OthersKeepInv DEF Inv
  <2>5. CASE Tick \/ Offer \/ UNCHANGED vars
    BY <2>5, OtherTypes
       DEF Tick, Offer, vars, Inv, TypeOK, CallsOwn, OutcomeIsLate, OnlyTheLast, MayStart,
           InTimeIsSettled, Settled, NoMissedSuccess
  <2>6. QED
    BY <2>1, <2>2, <2>3, <2>4, <2>5 DEF Next
<1>3. QED
  BY <1>1, <1>2, PTL DEF Spec

\* A call of start_server gets one server at most, whatever is refused,
\* interrupted, lost, marked or deleted: only the operation it posted last may
\* still start one, or has.
THEOREM OneServerPerCallHolds == Spec => []OneServerPerCall
<1>1. Inv => OneServerPerCall
  BY DEF Inv, OnlyTheLast, OneServerPerCall
<1>2. QED
  BY <1>1, InvHolds, PTL

\* A call that reports a timeout had no success by its deadline.
THEOREM NoMissedSuccessHolds == Spec => []NoMissedSuccess
<1>1. Inv => NoMissedSuccess
  BY DEF Inv
<1>2. QED
  BY <1>1, InvHolds, PTL

=============================================================================
