------------------------------ MODULE Terminals ------------------------------
(***************************************************************************)
(* The terminals of the OpenHands plugin: the registry and the operations  *)
(* of the session manager (terminal/manager.py) over native shell sessions *)
(* (terminal/backends/subprocess.py).                                      *)
(*                                                                         *)
(* Tasks of one event loop serve one request each.  The registry lock is   *)
(* never held across an await, so what it guards is one step; the op_lock  *)
(* of a handle is a FIFO lock that is held across many.  Besides the tasks *)
(* there are the threads that spawn, signal and kill shells, which go on   *)
(* when the task that awaits them is cancelled, and the shells themselves. *)
(*                                                                         *)
(* A handle and a session are named for the task that made them: no task   *)
(* makes two of either.  Output is abstracted to the completion sentinels  *)
(* in it, input to the lines a shell reads.                                *)
(***************************************************************************)
EXTENDS Integers, Sequences, FiniteSets

CONSTANTS
  Task,          \* the tasks that serve requests
  Boot,          \* the start of the service, which may make the default terminal
  Default,       \* the id of the default terminal
  None,
  Kinds,         \* the operations that callers ask for
  MaxTerminals,  \* max_terminals
  MaxCancels     \* bound: cancellations of tasks

Object == Task \cup {Boot}
TerminalId == Task \cup {Default}      \* a terminal created without an id has a fresh one

Creating == {"create", "default"}
Operating == {"execute", "input", "poll", "interrupt"}
Restarting == {"reset", "restart"}      \* restart: execute with reset=True
Closing == {"close", "reset_all"}
Kind == Creating \cup Operating \cup Restarting \cup Closing

TerminalsAssumption ==
  /\ Kinds \subseteq Kind /\ Kinds # {}
  /\ MaxTerminals \in Nat \ {0} /\ MaxCancels \in Nat
  /\ IsFiniteSet(Task)
  /\ Boot \notin Task /\ Default \notin Object /\ None \notin Object
  /\ None \notin [by : Task, what : {"command", "probe", "text"}]

VARIABLES
  req,        \* the request of each task
  pc,         \* where each task is in it
  at,         \* the handles it has looked up, or the creator it has joined
  terminals,  \* _handles
  creating,   \* _creating
  state,      \* the state of each handle
  session,    \* the session of each handle
  holder,     \* who holds its op_lock
  queue,      \* who waits for it
  shell,      \* the sessions, each with its shell
  cancels     \* cancellations so far

registry == <<terminals, creating>>
handles == <<state, session>>
lock == <<holder, queue>>
task == <<req, pc, at>>
vars == <<task, registry, handles, lock, shell, cancels>>

Request == [kind : Kind, id : TerminalId \cup {None}]
PC == {"new", "joined", "start", "abort", "wait", "drain", "resync", "window",
       "signal", "signalled", "swap", "teardown", "close", "done", "cancelled"}
State == {"none", "READY", "RUNNING", "LOST", "CLOSING", "CLOSED"}

\* A line of input: a command with its sentinel, the probe of _resync, or text
\* for whatever reads it.
Line == [by : Task, what : {"command", "probe", "text"}]
CommandOf(t) == [by |-> t, what |-> "command"]
ProbeOf(t) == [by |-> t, what |-> "probe"]
TextOf(t) == [by |-> t, what |-> "text"]

Shell == [life : {"none", "starting", "live", "closing", "closed"},
          dead : BOOLEAN,                   \* _dead: the shell has exited
          pending : Task \cup {None},       \* _pending_token
          flag : BOOLEAN,                   \* _interrupt_flag
          signals : SUBSET Task,            \* interrupts whose thread has yet to run
          killer : Task \cup {None},        \* the task that closes it
          stdin : Seq(Line),                \* lines the shell has yet to read
          fg : Line \cup {None},            \* what it runs
          hit : BOOLEAN,                    \* whether that was sent SIGINT
          out : SUBSET Line]                \* the sentinels in _unread

NoShell == [life |-> "none", dead |-> FALSE, pending |-> None, flag |-> FALSE,
            signals |-> {}, killer |-> None, stdin |-> <<>>, fg |-> None,
            hit |-> FALSE, out |-> {}]
LiveShell == [NoShell EXCEPT !.life = "live"]

Registered == {h \in Object : \E i \in TerminalId : terminals[i] = h}
InFlight(t) == pc[t] \notin {"new", "done", "cancelled"}

-----------------------------------------------------------------------------
(* Creation: reserve the id or join, start the shell, publish the handle.  *)

IdOf(t, k) == IF k = "create" THEN t ELSE Default

(* Mutant: the quota counts the published handles only.                    *)
FullOfHandles == Cardinality(Registered) >= MaxTerminals
Full ==
  Cardinality(Registered) + Cardinality({i \in TerminalId : creating[i] # None}) >= MaxTerminals

BeginCreate(t, k) ==
  /\ pc[t] = "new" /\ k \in Creating
  /\ req' = [req EXCEPT ![t] = [kind |-> k, id |-> IdOf(t, k)]]
  /\ LET i == IdOf(t, k)
     IN  \/ /\ terminals[i] # None \/ (creating[i] = None /\ Full)
            /\ pc' = [pc EXCEPT ![t] = "done"]
            /\ UNCHANGED <<at, creating, shell>>
         \/ /\ terminals[i] = None /\ creating[i] # None
            /\ pc' = [pc EXCEPT ![t] = "joined"]
            /\ at' = [at EXCEPT ![t] = {creating[i]}]
            /\ UNCHANGED <<creating, shell>>
         \/ /\ terminals[i] = None /\ creating[i] = None /\ ~Full
            /\ pc' = [pc EXCEPT ![t] = "start"]
            /\ creating' = [creating EXCEPT ![i] = t]
            /\ shell' = [shell EXCEPT ![t].life = "starting"]
            /\ UNCHANGED at
  /\ UNCHANGED <<terminals, handles, lock, cancels>>

(* The startup of the creator is over, and its reservation resolved.       *)
JoinEnds(t) ==
  /\ pc[t] = "joined" /\ creating[Default] \notin at[t]
  /\ pc' = [pc EXCEPT ![t] = "done"]
  /\ UNCHANGED <<req, at, registry, handles, lock, shell, cancels>>

Publish(t) ==
  /\ pc[t] = "start" /\ shell[t].life = "live"
  /\ terminals' = [terminals EXCEPT ![req[t].id] = t]
  /\ creating' = [creating EXCEPT ![req[t].id] = None]
  /\ state' = [state EXCEPT ![t] = "READY"]
  /\ session' = [session EXCEPT ![t] = t]
  /\ pc' = [pc EXCEPT ![t] = "done"]
  /\ UNCHANGED <<req, at, lock, shell, cancels>>

(* Mutant: a creation that fails keeps its reservation.                    *)
FreedNot(t) == creating
Freed(t) == [i \in TerminalId |-> IF creating[i] = t THEN None ELSE creating[i]]

(* The shell could not be spawned, or the task was cancelled and has       *)
(* closed the one that was.                                                *)
Withdraw(t) ==
  /\ \/ pc[t] = "start" /\ pc' = [pc EXCEPT ![t] = "done"]
     \/ pc[t] = "abort" /\ req[t].kind \in Creating /\ pc' = [pc EXCEPT ![t] = "cancelled"]
  /\ shell[t].life = "closed"
  /\ creating' = Freed(t)
  /\ UNCHANGED <<req, at, terminals, handles, lock, shell, cancels>>

-----------------------------------------------------------------------------
(* The op_lock of a handle, and what every operation does before and after *)
(* the part that it guards.                                                *)

Enqueue(t, h) == queue' = [queue EXCEPT ![h] = Append(@, t)]

(* Mutant: whoever is first in the queue goes on, lock or no lock.         *)
TurnUnlocked(t, h) ==
  /\ h \in at[t]
  /\ queue[h] # <<>> /\ Head(queue[h]) = t
  /\ queue' = [queue EXCEPT ![h] = Tail(@)]

(* An op_lock is handed on in the order of arrival.                        *)
Turn(t, h) ==
  /\ h \in at[t]
  /\ holder[h] = None /\ queue[h] # <<>> /\ Head(queue[h]) = t
  /\ queue' = [queue EXCEPT ![h] = Tail(@)]
Hold(t, h, next) ==
  /\ holder' = [holder EXCEPT ![h] = t]
  /\ pc' = [pc EXCEPT ![t] = next]

TurnsAway(h) == state[h] \in {"CLOSING", "CLOSED"}

(* The look-up.  A close marks the handle; an interrupt that finds the     *)
(* lock taken does not wait for it and signals the session at once.        *)
BeginOperation(t, k, i) ==
  /\ pc[t] = "new" /\ k \in Kinds \ (Creating \cup {"reset_all"})
  /\ req' = [req EXCEPT ![t] = [kind |-> k, id |-> i]]
  /\ LET h == terminals[i]
     IN  \/ /\ h = None
            /\ pc' = [pc EXCEPT ![t] = "done"]
            /\ UNCHANGED <<at, state, queue, shell>>
         \/ /\ h # None /\ ~(k = "interrupt" /\ holder[h] # None)
            /\ at' = [at EXCEPT ![t] = {h}]
            /\ pc' = [pc EXCEPT ![t] = IF k = "close" THEN "close" ELSE "wait"]
            /\ state' = IF k = "close" THEN [state EXCEPT ![h] = "CLOSING"] ELSE state
            /\ Enqueue(t, h)
            /\ UNCHANGED shell
         \/ /\ h # None /\ k = "interrupt" /\ holder[h] # None
            /\ at' = [at EXCEPT ![t] = {h}]
            /\ pc' = [pc EXCEPT ![t] = "signalled"]
            /\ shell' = IF shell[session[h]].dead THEN shell
                        ELSE [shell EXCEPT ![session[h]].signals = @ \cup {t}]
            /\ UNCHANGED <<state, queue>>
  /\ UNCHANGED <<registry, session, holder, cancels>>

(* The acknowledgement of an interrupt that held no lock.                  *)
Acknowledge(t) ==
  /\ pc[t] = "signalled" /\ \A s \in Object : t \notin shell[s].signals
  /\ pc' = [pc EXCEPT ![t] = "done"]
  /\ UNCHANGED <<req, at, registry, handles, lock, shell, cancels>>

(* reset_all unregisters every terminal before it closes any.              *)
BeginResetAll(t) ==
  /\ pc[t] = "new" /\ "reset_all" \in Kinds
  /\ req' = [req EXCEPT ![t] = [kind |-> "reset_all", id |-> None]]
  /\ at' = [at EXCEPT ![t] = Registered]
  /\ pc' = [pc EXCEPT ![t] = IF Registered = {} THEN "done" ELSE "close"]
  /\ terminals' = [i \in TerminalId |-> None]
  /\ state' = [h \in Object |-> IF h \in Registered THEN "CLOSING" ELSE state[h]]
  /\ queue' = [h \in Object |-> IF h \in Registered THEN Append(queue[h], t) ELSE queue[h]]
  /\ UNCHANGED <<creating, session, holder, shell, cancels>>

-----------------------------------------------------------------------------
(* The guarded part: its first step, taken with the lock.                  *)

Refuse(t, s) ==      \* an error, or a neutral result; nothing is held
  /\ pc' = [pc EXCEPT ![t] = "done"]
  /\ state' = s
  /\ UNCHANGED <<holder, shell>>

Reject(t, h) ==
  /\ pc[t] = "wait" /\ Turn(t, h)
  /\ TurnsAway(h)
  /\ Refuse(t, state)
  /\ UNCHANGED <<req, at, registry, session, cancels>>

Allowed(t, h, kinds) ==
  /\ pc[t] = "wait" /\ req[t].kind \in kinds /\ Turn(t, h)
  /\ ~TurnsAway(h)

Type(s, line) == [shell EXCEPT ![s].stdin = IF shell[s].dead THEN @ ELSE Append(@, line)]

(* A new command, unless one is still in the foreground.                   *)
Execute(t, h) ==
  /\ Allowed(t, h, {"execute"})
  /\ LET s == session[h]
     IN  \/ shell[s].pending # None /\ Refuse(t, state)
         \/ /\ shell[s].pending = None /\ shell[s].dead
            /\ Refuse(t, [state EXCEPT ![h] = "LOST"])
         \/ /\ shell[s].pending = None /\ ~shell[s].dead
            /\ shell' = [shell EXCEPT ![s].flag = FALSE, ![s].pending = t,
                                      ![s].stdin = Append(@, CommandOf(t))]
            /\ Hold(t, h, "drain")
            /\ UNCHANGED state
  /\ UNCHANGED <<req, at, registry, session, cancels>>

(* Text for the command in the foreground; a poll writes nothing, and      *)
(* without such a command looks at the output for a while.                 *)
Input(t, h) ==
  /\ Allowed(t, h, {"input"})
  /\ LET s == session[h]
     IN  \/ shell[s].pending = None /\ Refuse(t, state)
         \/ /\ shell[s].pending # None /\ shell[s].dead
            /\ Refuse(t, [state EXCEPT ![h] = "LOST"])
         \/ /\ shell[s].pending # None /\ ~shell[s].dead
            /\ shell' = Type(s, TextOf(t))
            /\ Hold(t, h, "drain")
            /\ UNCHANGED state
  /\ UNCHANGED <<req, at, registry, session, cancels>>

Poll(t, h) ==
  /\ Allowed(t, h, {"poll"})
  /\ LET s == session[h]
     IN  \/ shell[s].dead /\ Refuse(t, [state EXCEPT ![h] = "LOST"])
         \/ /\ ~shell[s].dead
            /\ Hold(t, h, IF shell[s].pending = None THEN "window" ELSE "drain")
            /\ UNCHANGED <<state, shell>>
  /\ UNCHANGED <<req, at, registry, session, cancels>>

(* Nothing is signalled on an idle terminal.                               *)
Interrupt(t, h) ==
  /\ Allowed(t, h, {"interrupt"})
  /\ LET s == session[h]
     IN  \/ shell[s].pending = None /\ Refuse(t, state)
         \/ /\ shell[s].pending # None /\ shell[s].dead
            /\ Refuse(t, [state EXCEPT ![h] = "LOST"])
         \/ /\ shell[s].pending # None /\ ~shell[s].dead
            /\ shell' = [shell EXCEPT ![s].signals = @ \cup {t}]
            /\ Hold(t, h, "signal")
            /\ UNCHANGED state
  /\ UNCHANGED <<req, at, registry, session, cancels>>

(* The new shell is started first.                                         *)
Reset(t, h) ==
  /\ Allowed(t, h, Restarting)
  /\ shell' = [shell EXCEPT ![t].life = "starting"]
  /\ Hold(t, h, "swap")
  /\ UNCHANGED <<req, at, registry, handles, cancels>>

(* The thread that kills a live shell, awaited by t.                       *)
KillBy(t, s) ==
  [shell EXCEPT ![s].life = IF @ = "live" THEN "closing" ELSE @, ![s].killer = t]

Close(t, h) ==
  /\ pc[t] = "close" /\ Turn(t, h)
  /\ shell' = KillBy(t, session[h])
  /\ Hold(t, h, "close")
  /\ UNCHANGED <<req, at, registry, handles, cancels>>

-----------------------------------------------------------------------------
(* The rest of the guarded part.                                           *)

Works(t, h, where) == pc[t] = where /\ h \in at[t] /\ holder[h] = t

(* _apply, and the end of the operation: the handle is what the result     *)
(* says, whatever it was.                                                  *)
Apply(t, h, s) ==
  /\ state' = [state EXCEPT ![h] = s]
  /\ holder' = [holder EXCEPT ![h] = None]
  /\ pc' = [pc EXCEPT ![t] = "done"]
  /\ UNCHANGED <<req, at, registry, session, queue, cancels>>

Printed(s) == shell[s].pending # None /\ CommandOf(shell[s].pending) \in shell[s].out

(* _drain: the sentinel, the end of the shell, or the deadline.            *)
Drain(t, h) ==
  /\ Works(t, h, "drain") /\ ~shell[session[h]].flag
  /\ LET s == session[h]
     IN  \/ /\ Printed(s)
            /\ shell' = [shell EXCEPT ![s].pending = None, ![s].out = {}]
            /\ Apply(t, h, "READY")
         \/ /\ ~Printed(s) /\ shell[s].dead
            /\ shell' = [shell EXCEPT ![s].pending = None]
            /\ Apply(t, h, "LOST")
         \/ /\ ~Printed(s) /\ ~shell[s].dead
            /\ Apply(t, h, "RUNNING")
            /\ UNCHANGED shell

(* An interrupt is seen: a probe follows the command.                      *)
Resync(t, h) ==
  /\ Works(t, h, "drain") /\ shell[session[h]].flag
  /\ shell' = [Type(session[h], ProbeOf(t)) EXCEPT ![session[h]].flag = FALSE]
  /\ pc' = [pc EXCEPT ![t] = "resync"]
  /\ UNCHANGED <<req, at, registry, handles, lock, cancels>>

Answered(t, s) == ProbeOf(t) \in shell[s].out

(* Mutant: a command that outlasts the interrupt is forgotten.             *)
StillPendingNot(s) == None
StillPending(s) == shell[s].pending

(* The answer to the probe; or none in time, after which the output read   *)
(* in between is gone and the command counts as running.                   *)
Synced(t, h) ==
  /\ Works(t, h, "resync")
  /\ LET s == session[h]
     IN  \/ /\ Answered(t, s)
            /\ shell' = [shell EXCEPT ![s].pending = None, ![s].out = {}]
            /\ Apply(t, h, "READY")
         \/ /\ ~Answered(t, s) /\ shell[s].dead
            /\ shell' = [shell EXCEPT ![s].pending = None, ![s].out = {}]
            /\ Apply(t, h, "LOST")
         \/ /\ ~Answered(t, s) /\ ~shell[s].dead
            /\ shell' = [shell EXCEPT ![s].pending = StillPending(s), ![s].out = {}]
            /\ Apply(t, h, "RUNNING")

(* One look in between throws the output away.                             *)
Discard(t, h) ==
  /\ Works(t, h, "resync")
  /\ ~Answered(t, session[h]) /\ shell[session[h]].out # {}
  /\ shell' = [shell EXCEPT ![session[h]].out = {}]
  /\ UNCHANGED <<task, registry, handles, lock, cancels>>

(* _read_window: what there is; with no time at all not even that.         *)
Window(t, h) ==
  /\ Works(t, h, "window")
  /\ \/ /\ shell' = [shell EXCEPT ![session[h]].flag = FALSE, ![session[h]].out = {}]
        /\ LET s == shell[session[h]]
           IN  Apply(t, h, IF s.dead /\ ~s.flag THEN "LOST" ELSE "READY")
     \/ UNCHANGED shell /\ Apply(t, h, "READY")

(* The signal is sent: the interrupt polls for a result.                   *)
Signalled(t, h) ==
  /\ Works(t, h, "signal") /\ t \notin shell[session[h]].signals
  /\ \/ /\ shell[session[h]].dead
        /\ Apply(t, h, "LOST")
     \/ /\ ~shell[session[h]].dead
        /\ pc' = [pc EXCEPT ![t] = "drain"]
        /\ UNCHANGED <<req, at, registry, handles, lock, cancels>>
  /\ UNCHANGED shell

(* Mutant: the old session is read once the new one is in place.           *)
OldAfterSwap(t, h) == t
Old(t, h) == session[h]

(* The new shell is up, and takes the place of the old; or is not.         *)
Swap(t, h) ==
  /\ Works(t, h, "swap") /\ shell[t].life = "live"
  /\ session' = [session EXCEPT ![h] = t]
  /\ state' = [state EXCEPT ![h] = "READY"]
  /\ shell' = KillBy(t, Old(t, h))
  /\ pc' = [pc EXCEPT ![t] = "teardown"]
  /\ UNCHANGED <<req, at, registry, lock, cancels>>

KeepOld(t, h) ==
  /\ \/ Works(t, h, "swap") /\ pc' = [pc EXCEPT ![t] = "done"]
     \/ Works(t, h, "abort") /\ pc' = [pc EXCEPT ![t] = "cancelled"]
  /\ shell[t].life = "closed"
  /\ holder' = [holder EXCEPT ![h] = None]
  /\ UNCHANGED <<req, at, registry, handles, queue, shell, cancels>>

Killed(t) == \A s \in Object : shell[s].killer = t => shell[s].life # "closing"

(* The old one is down.  An execute that asked for the reset looks its     *)
(* terminal up again, and queues for its command.                          *)
TornDown(t, h) ==
  /\ Works(t, h, "teardown") /\ Killed(t)
  /\ holder' = [holder EXCEPT ![h] = None]
  /\ LET g == terminals[req[t].id]
     IN  IF req[t].kind = "restart" /\ g # None
         THEN /\ req' = [req EXCEPT ![t].kind = "execute"]
              /\ at' = [at EXCEPT ![t] = {g}]
              /\ pc' = [pc EXCEPT ![t] = "wait"]
              /\ Enqueue(t, g)
         ELSE pc' = [pc EXCEPT ![t] = "done"] /\ UNCHANGED <<req, at, queue>>
  /\ UNCHANGED <<registry, handles, shell, cancels>>

(* Mutant: a closed handle is still found.                                 *)
StaysRegistered(h) == terminals
Unregistered(h) == [i \in TerminalId |-> IF terminals[i] = h THEN None ELSE terminals[i]]

(* A close gives the id up if the handle still has it; a reset_all did so  *)
(* at its start, and ends with its last handle.                            *)
Closed(t, h) ==
  /\ Works(t, h, "close") /\ shell[session[h]].life = "closed"
  /\ state' = [state EXCEPT ![h] = "CLOSED"]
  /\ holder' = [holder EXCEPT ![h] = None]
  /\ terminals' = Unregistered(h)
  /\ at' = [at EXCEPT ![t] = @ \ {h}]
  /\ pc' = [pc EXCEPT ![t] = IF at[t] = {h} THEN "done" ELSE "close"]
  /\ UNCHANGED <<req, creating, session, queue, shell, cancels>>

-----------------------------------------------------------------------------
(* A task is cancelled where it awaits.  It leaves the queues and releases *)
(* the locks it holds, and nothing else: a command stays pending, a handle *)
(* marked for closing stays marked, and a thread at work goes on.          *)

Without(q, t) ==      \* a task waits once at most
  IF \E n \in DOMAIN q : q[n] = t
  THEN LET n == CHOOSE n \in DOMAIN q : q[n] = t
       IN  SubSeq(q, 1, n - 1) \o SubSeq(q, n + 1, Len(q))
  ELSE q
Leaves(t) ==
  /\ queue' = [h \in Object |-> Without(queue[h], t)]
  /\ holder' = [h \in Object |-> IF holder[h] = t THEN None ELSE holder[h]]

Cancel(t) ==
  /\ InFlight(t) /\ cancels < MaxCancels
  /\ cancels' = cancels + 1
  /\ \/ /\ pc[t] \notin {"start", "swap"}        \* in "abort" for the second time
        /\ Leaves(t)
        /\ pc' = [pc EXCEPT ![t] = "cancelled"]
        /\ UNCHANGED <<creating, shell>>
     \/ /\ pc[t] \in {"start", "swap"} /\ shell[t].life = "live"
        /\ shell' = KillBy(t, t)
        /\ pc' = [pc EXCEPT ![t] = "abort"]
        /\ UNCHANGED <<creating, lock>>
     \* There is no process yet that close() could kill.
     \/ /\ pc[t] \in {"start", "swap"} /\ shell[t].life # "live"
        /\ creating' = Freed(t)
        /\ Leaves(t)
        /\ pc' = [pc EXCEPT ![t] = "cancelled"]
        /\ UNCHANGED shell
  /\ UNCHANGED <<req, at, terminals, handles>>

-----------------------------------------------------------------------------
(* Threads and shells.                                                     *)

Outside == <<task, registry, handles, lock, cancels>>

Spawn(s) ==
  /\ shell[s].life = "starting"
  /\ \/ shell' = [shell EXCEPT ![s].life = "live"]
     \/ shell' = [shell EXCEPT ![s].life = "closed", ![s].dead = TRUE]
  /\ UNCHANGED Outside

Kill(s) ==
  /\ shell[s].life = "closing"
  /\ shell' = [shell EXCEPT ![s].life = "closed", ![s].dead = TRUE,
                            ![s].stdin = <<>>, ![s].fg = None, ![s].hit = FALSE]
  /\ UNCHANGED Outside

(* SIGINT goes to whatever is in the foreground by now.                    *)
Signal(s, t) ==
  /\ t \in shell[s].signals
  /\ shell' = [shell EXCEPT ![s].signals = @ \ {t}, ![s].flag = TRUE,
                            ![s].hit = shell[s].fg # None]
  /\ UNCHANGED Outside

Up(s) == shell[s].life \in {"live", "closing"} /\ ~shell[s].dead

(* The shell is idle and reads a line.  A probe is over at once.           *)
ReadsLine(s) ==
  /\ Up(s) /\ shell[s].fg = None /\ shell[s].stdin # <<>>
  /\ LET line == Head(shell[s].stdin)
     IN  shell' = [shell EXCEPT ![s].stdin = Tail(@), ![s].hit = FALSE,
                     ![s].fg = IF line.what = "probe" THEN None ELSE line,
                     ![s].out = IF line.what = "probe" THEN @ \cup {line} ELSE @]
  /\ UNCHANGED Outside

(* What is in the foreground reads the line instead.                       *)
TakesInput(s) ==
  /\ Up(s) /\ shell[s].fg # None /\ shell[s].stdin # <<>>
  /\ shell' = [shell EXCEPT ![s].stdin = Tail(@)]
  /\ UNCHANGED Outside

(* A command that ends prints its sentinel, but one that SIGINT ends may   *)
(* take its sentinel with it.                                              *)
Ends(s) ==
  /\ Up(s) /\ shell[s].fg # None
  /\ \/ shell' = [shell EXCEPT ![s].fg = None, ![s].hit = FALSE,
                    ![s].out = IF shell[s].fg.what = "command"
                               THEN @ \cup {shell[s].fg} ELSE @]
     \/ /\ shell[s].hit
        /\ shell' = [shell EXCEPT ![s].fg = None, ![s].hit = FALSE]
  /\ UNCHANGED Outside

(* A command, or text that a shell runs, makes the shell exit.             *)
Exits(s) ==
  /\ Up(s) /\ shell[s].fg # None
  /\ shell' = [shell EXCEPT ![s].dead = TRUE, ![s].fg = None, ![s].hit = FALSE,
                            ![s].stdin = <<>>]
  /\ UNCHANGED Outside

-----------------------------------------------------------------------------
(* The service starts with or without a default terminal.                  *)
Init ==
  /\ req = [t \in Task |-> [kind |-> CHOOSE k \in Kinds : TRUE, id |-> None]]
  /\ pc = [t \in Task |-> "new"]
  /\ at = [t \in Task |-> {}]
  /\ creating = [i \in TerminalId |-> None]
  /\ session = [h \in Object |-> h]
  /\ holder = [h \in Object |-> None]
  /\ queue = [h \in Object |-> <<>>]
  /\ cancels = 0
  /\ \/ /\ terminals = [i \in TerminalId |-> IF i = Default THEN Boot ELSE None]
        /\ state = [h \in Object |-> IF h = Boot THEN "READY" ELSE "none"]
        /\ shell = [s \in Object |-> IF s = Boot THEN LiveShell ELSE NoShell]
     \/ /\ terminals = [i \in TerminalId |-> None]
        /\ state = [h \in Object |-> "none"]
        /\ shell = [s \in Object |-> NoShell]

(* Of the ids of no terminal, Default stands for all.                      *)
Begin(t) ==
  \/ \E k \in Kinds : BeginCreate(t, k)
  \/ \E k \in Kinds, i \in TerminalId :
       (terminals[i] # None \/ i = Default) /\ BeginOperation(t, k, i)
  \/ BeginResetAll(t)

Step(t) ==
  \/ JoinEnds(t) \/ Publish(t) \/ Withdraw(t) \/ Acknowledge(t)
  \/ \E h \in Object :
       \/ Reject(t, h) \/ Execute(t, h) \/ Input(t, h) \/ Poll(t, h) \/ Interrupt(t, h)
       \/ Reset(t, h) \/ Close(t, h)
       \/ Drain(t, h) \/ Resync(t, h) \/ Synced(t, h) \/ Discard(t, h) \/ Window(t, h)
       \/ Signalled(t, h) \/ Swap(t, h) \/ KeepOld(t, h) \/ TornDown(t, h) \/ Closed(t, h)

Thread(s) == Spawn(s) \/ Kill(s) \/ \E t \in Task : Signal(s, t)

ShellRuns(s) == ReadsLine(s) \/ TakesInput(s) \/ Ends(s) \/ Exits(s)

Next ==
  \/ \E t \in Task : Begin(t) \/ Step(t) \/ Cancel(t)
  \/ \E s \in Object : Thread(s) \/ ShellRuns(s)

Spec == Init /\ [][Next]_vars

-----------------------------------------------------------------------------
(* The values the variables have; a handle that can be looked up has been  *)
(* published and is not closed (create, close).                            *)
TypeOK ==
  /\ req \in [Task -> Request]
  /\ pc \in [Task -> PC]
  /\ at \in [Task -> SUBSET Object]
  /\ terminals \in [TerminalId -> Object \cup {None}]
  /\ creating \in [TerminalId -> Task \cup {None}]
  /\ state \in [Object -> State]
  /\ session \in [Object -> Object]
  /\ holder \in [Object -> Task \cup {None}]
  /\ queue \in [Object -> Seq(Task)]
  /\ shell \in [Object -> Shell]
  /\ cancels \in 0 .. MaxCancels
  /\ \A h \in Registered : state[h] \notin {"none", "CLOSED"}

(* The quota counts every terminal there is or is about to be: creations   *)
(* that run at once, are cancelled, joined or overtaken by a reset_all     *)
(* never add up to more (create, max_terminals).                           *)
QuotaHeld ==
  Cardinality(Registered) + Cardinality({i \in TerminalId : creating[i] # None}) <= MaxTerminals

(* What a shell runs or has yet to read as a command is the one command    *)
(* that its session takes for pending: a terminal that says it is idle has *)
(* no command of a caller in it, whatever was interrupted, timed out,      *)
(* cancelled or eaten, so that none is typed into another                  *)
(* (has_foreground_command, _drain, _resync).                              *)
CommandsTracked ==
  \A s \in Object, t \in Task :
    CommandOf(t) \in {shell[s].fg} \cup {shell[s].stdin[n] : n \in DOMAIN shell[s].stdin}
      => shell[s].pending = t

CloseCancelled(h) ==
  \E t \in Task : pc[t] = "cancelled" /\ req[t].kind \in Closing /\ h \in at[t]

(* Nobody works on a session while it is closed or is being closed, not    *)
(* even an operation that found the handle before: only a close that was   *)
(* cancelled leaves its thread alone with others (close, reset).           *)
ClosedAlone ==
  \A t \in Task : \A h \in at[t] :
    holder[h] = t /\ pc[t] \in {"drain", "resync", "window", "signal"}
      => shell[session[h]].life = "live" \/ CloseCancelled(h)

(* A shell that runs has somebody who can or will close it: a registered   *)
(* handle, the task that starts it, or the one that closes its handle.     *)
HasOwner(s) ==
  \/ \E h \in Registered : session[h] = s
  \/ s \in Task /\ pc[s] \in {"start", "swap", "abort"}
  \/ \E t \in Task : pc[t] = "close" /\ \E h \in at[t] : session[h] = s

LostByCancel(s) ==
  \/ s \in Task /\ pc[s] = "cancelled" /\ req[s].kind \in Creating \cup Restarting
  \/ \E t \in Task :
       pc[t] = "cancelled" /\ req[t].kind = "reset_all" /\ \E h \in at[t] : session[h] = s

(* A shell has an owner as long as it is not being killed; only the        *)
(* cancellation of its own start, or of a reset_all, leaves one without.   *)
NoShellLost ==
  \A s \in Object :
    shell[s].life \in {"starting", "live"} => HasOwner(s) \/ LostByCancel(s)

\* What a thread has to do: start a shell, kill one, or send it SIGINT.
ThreadRuns(s) == shell[s].life \in {"starting", "closing"} \/ shell[s].signals # {}

\* What a task can do while no thread has anything to do: it holds the op_lock it needs or is
\* the next to get it, its shell has been started or killed, the startup it joined is over.
CanGo(t) ==
  \/ pc[t] = "joined" /\ creating[Default] \notin at[t]
  \/ pc[t] = "start" /\ shell[t].life \in {"live", "closed"}
  \/ pc[t] = "abort" /\ req[t].kind \in Creating /\ shell[t].life = "closed"
  \/ pc[t] = "signalled"
  \/ \E h \in at[t] :
       /\ pc[t] \in {"wait", "close"}
       /\ holder[h] = None /\ queue[h] # <<>> /\ Head(queue[h]) = t
  \/ \E h \in at[t] :
       /\ holder[h] = t
       /\ \/ pc[t] \in {"drain", "resync", "window", "signal", "teardown"}
          \/ pc[t] = "swap" /\ shell[t].life \in {"live", "closed"}
          \/ pc[t] = "abort" /\ shell[t].life = "closed"
          \/ pc[t] = "close" /\ shell[session[h]].life = "closed"

\* A creation that is cancelled again while it closes its shell keeps its place: what joined
\* it waits for ever.
LeftWaiting(t) == pc[t] = "joined" /\ \E u \in at[t] : creating[Default] = u /\ pc[u] = "cancelled"

(* As long as a task is in flight, and has not joined a creation that was  *)
(* cancelled twice, somebody can go on: no operation waits for an op_lock, *)
(* a startup or a thread that will not come, and none depends on what a    *)
(* shell does (TerminalHandle.op_lock, create, reset_all).                 *)
NoneStuck ==
  (\E t \in Task : InFlight(t) /\ ~LeftWaiting(t)) =>
    (\E s \in Object : ThreadRuns(s)) \/ \E t \in Task : CanGo(t)

-----------------------------------------------------------------------------
(* What the source says of this code, and the code does not do.            *)

(* "Reject an operation that acquired the op lock after close() marked the *)
(* handle CLOSING" (_reject_if_closing).                                   *)
RejectedOnceClosing ==
  [][\A t \in Task, h \in Object :
       pc[t] = "wait" /\ holder'[h] = t /\ holder[h] # t =>
         ~\E u \in Task : pc[u] = "close" /\ h \in at[u]]_vars

(* "never write text to an idle shell" (SubprocessBackendSession.input).   *)
TextOnlyToCommands ==
  [][\A s \in Object, t \in Task :
       shell'[s].stdin = Append(shell[s].stdin, TextOf(t)) =>
         shell[s].fg # None \/ shell[s].stdin # <<>>]_vars

(* "close any partial resource ... so no stale handle or quota slot        *)
(* lingers" (create).                                                      *)
NoShellLostEver == \A s \in Object : shell[s].life = "live" => HasOwner(s)

(* "... free the reservation slot ...; joiners observe the same failure"   *)
(* (create).                                                               *)
NobodyLeftWaiting == \A t \in Task : ~LeftWaiting(t)
=============================================================================
