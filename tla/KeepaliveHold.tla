---------------------------- MODULE KeepaliveHold ----------------------------
(***************************************************************************)
(* The hold of a server against the watcher's inactivity reaper            *)
(* (keepalive_server and extend_idegym_server_keepalive), with what else   *)
(* touches the row of one server: its requests, its finish and stop, the   *)
(* hand-over to another client (RESTART or RESET), and the watcher, which  *)
(* lists the row and decides later (cleanup_servers).                      *)
(*                                                                         *)
(* An action is a statement or a commit, as far as others can come between *)
(* (READ COMMITTED).  That the same rows are crash-checked and charged to  *)
(* quotas is ServerLifecycle's and ResourceQuota's.                        *)
(***************************************************************************)
EXTENDS Integers

CONSTANTS
  Client, First,      \* First starts the server
  Holder,             \* keepalive requests that run at once
  Durations,          \* their minutes
  InactiveTimeout, FinishedTimeout,
  LastRequest,        \* bound: nobody asks anything after this time
  MaxTime

KeepaliveAssumption ==
  /\ First \in Client /\ Durations \subseteq Nat \ {0}
  /\ {InactiveTimeout, FinishedTimeout, LastRequest, MaxTime} \subseteq Nat

VARIABLES
  row,       \* of the server: status, owner, last_heartbeat_time, keepalive_until
  now,
  hold,      \* the keepalive requests
  handover,  \* the start that reuses the server
  pass,      \* the watcher's pass, with what the owner was told when it listed the row
  promised   \* history: the latest time the owner was told it holds the server until

vars == <<row, now, hold, handover, pass, promised>>

NoHold == 0  \* keepalive_until is null
Statuses == {"ALIVE", "FINISHED", "REUSED", "STOPPED", "KILLED"}
Terminal == {"STOPPED", "KILLED"}
Later(a, b) == IF a >= b THEN a ELSE b

NoRequest == [at |-> "idle", client |-> First, until |-> NoHold]
NoHandover == [at |-> "idle", to |-> First, loaded |-> NoHold]
NoPass == [at |-> "idle", time |-> 0, promised |-> NoHold]

Asking == now <= LastRequest

-----------------------------------------------------------------------------
(* Keepalive requests.                                                     *)

\* The window is counted from when the request came.
Ask(h, c) ==
  /\ Asking /\ hold[h].at = "idle"
  /\ \E d \in Durations : hold' = [hold EXCEPT ![h] = [at |-> "update", client |-> c, until |-> now + d]]
  /\ UNCHANGED <<row, now, handover, pass, promised>>

\* Mutant: the window that was asked for last is the window.
LongestLast(old, until) == until
\* GREATEST, in the UPDATE itself.
Longest(old, until) == Later(old, until)

\* One conditional UPDATE, by its owner, of a server that is not terminal.
Update(h) ==
  LET x == hold[h]
      to == Longest(row.until, x.until)
  IN /\ x.at = "update"
     /\ IF row.owner = x.client /\ row.status \notin Terminal
        THEN /\ row' = [row EXCEPT !.until = to] /\ promised' = Later(promised, to)
             /\ hold' = [hold EXCEPT ![h] = NoRequest]
        ELSE hold' = [hold EXCEPT ![h].at = "load"] /\ UNCHANGED <<row, promised>>
     /\ UNCHANGED <<now, handover, pass>>

\* Nothing matched: the row is loaded to tell 404 from 410.
Load(h) ==
  /\ hold[h].at = "load"
  /\ hold' = [hold EXCEPT ![h] = NoRequest]
  /\ UNCHANGED <<row, now, handover, pass, promised>>

-----------------------------------------------------------------------------
(* What else touches the row.                                              *)

\* update_idegym_server_heartbeat: a request ends, or the owner finishes or stops.
Writes(status) == row' = [row EXCEPT !.status = status, !.beat = now]
Beat ==
  /\ Asking /\ row.status \notin Terminal
  /\ \E status \in {"ALIVE", "FINISHED", "STOPPED"} : Writes(status)
  /\ UNCHANGED <<now, hold, handover, pass, promised>>

\* get_server_status reads, and get_owned_server with it: nothing counts as activity.

\* find_matching_finished_server.
Claim(c) ==
  /\ Asking /\ handover.at = "idle" /\ row.status = "FINISHED"
  /\ Writes("REUSED")
  /\ handover' = [NoHandover EXCEPT !.at = "restart", !.to = c]
  /\ UNCHANGED <<now, hold, pass, promised>>

\* update_idegym_server_owner reads the row and writes it when it commits; a column that
\* is set to what was read is not in the UPDATE.
ReadOwner ==
  /\ handover.at = "restart"
  /\ handover' = [handover EXCEPT !.at = "own", !.loaded = row.until]
  /\ UNCHANGED <<row, now, hold, pass, promised>>

Owned(r) == [r EXCEPT !.owner = handover.to,
                      !.until = IF handover.loaded = NoHold THEN @ ELSE NoHold]
WriteOwner ==
  /\ handover.at = "own"
  /\ row' = Owned(row)
  /\ promised' = IF handover.to = row.owner THEN row'.until ELSE NoHold
  /\ handover' = [handover EXCEPT !.at = "report"]
  /\ UNCHANGED <<now, hold, pass>>

\* A RESTART ends with a heartbeat, if the row has not ended meanwhile; a RESET with none.
Report ==
  /\ handover.at = "report"
  /\ UNCHANGED row \/ (row.status \notin Terminal /\ Writes("ALIVE"))
  /\ handover' = NoHandover
  /\ UNCHANGED <<now, hold, pass, promised>>

-----------------------------------------------------------------------------
(* The watcher.                                                            *)

\* The time of a pass is read before the database is.
PassBegins ==
  /\ pass.at = "idle"
  /\ pass' = [NoPass EXCEPT !.at = "list", !.time = now]
  /\ UNCHANGED <<row, now, hold, handover, promised>>

\* Mutant: holds are not looked at for FINISHED servers.
HeldRunning(r, time) == r.until > time /\ r.status # "FINISHED"
Held(r, time) == r.until > time
Idle(r, time) ==
  time - r.beat > IF r.status = "FINISHED" THEN FinishedTimeout ELSE InactiveTimeout

\* It decides by the row as it is listed; the Deployment goes, after those of the
\* servers before it, and then the row is written.
PassLists ==
  /\ pass.at = "list"
  /\ pass' = IF row.status \in Terminal \/ Held(row, pass.time) \/ ~Idle(row, pass.time) THEN NoPass
             ELSE [pass EXCEPT !.at = "write", !.promised = promised]
  /\ UNCHANGED <<row, now, hold, handover, promised>>

\* The object that was listed is not terminal: the row is written whatever it is now.
PassWrites ==
  /\ pass.at = "write"
  /\ Writes("KILLED") /\ pass' = NoPass
  /\ UNCHANGED <<now, hold, handover, promised>>

\* Bound: a start that has begun and a request that came end soon after the last.
Tick ==
  /\ now < MaxTime /\ now' = now + 1
  /\ ~Asking => handover.at = "idle" /\ \A h \in Holder : hold[h].at = "idle"
  /\ UNCHANGED <<row, hold, handover, pass, promised>>

Init ==
  /\ row = [status |-> "ALIVE", owner |-> First, beat |-> 0, until |-> NoHold]
  /\ now = 0 /\ hold = [h \in Holder |-> NoRequest] /\ handover = NoHandover
  /\ pass = NoPass /\ promised = NoHold

Watcher == PassBegins \/ PassLists \/ PassWrites
Start == ReadOwner \/ WriteOwner \/ Report
Next ==
  \/ \E h \in Holder : Update(h) \/ Load(h) \/ \E c \in Client : Ask(h, c)
  \/ Beat \/ (\E c \in Client : Claim(c)) \/ Start \/ Watcher \/ Tick

Spec == Init /\ [][Next]_vars

-----------------------------------------------------------------------------
TypeOK ==
  /\ row \in [status : Statuses, owner : Client, beat : Nat, until : Nat]
  /\ now \in 0 .. MaxTime /\ promised \in Nat
  /\ hold \in [Holder -> [at : {"idle", "update", "load"}, client : Client, until : Nat]]
  /\ handover.at \in {"idle", "restart", "own", "report"}
  /\ pass.at \in {"idle", "list", "write"} /\ pass.time \in 0 .. MaxTime

(* What the owner was told before a pass listed its server binds that      *)
(* pass: it does not reap the server while the hold lasts, however many    *)
(* holders there are, with whatever windows, FINISHED or not; and a hold   *)
(* is in the row for as long as the server has its owner                   *)
(* (extend_idegym_server_keepalive, cleanup_servers).                      *)
PromisesKept ==
  /\ pass.at = "write" => pass.promised <= pass.time
  /\ promised <= row.until

-----------------------------------------------------------------------------
(* What the documents say of this code, and the code does not do.          *)

(* "a new owner never inherits a hold it did not ask for"                  *)
(* (architecture/watcher.md): one that the old owner takes between the     *)
(* read and the write of the hand-over stays.                              *)
NoInheritedHold == row.until <= promised

(* "The watcher skips any server whose hold has not expired": but for one  *)
(* that was taken after the pass had listed the server.                    *)
HeldNotReaped == pass.at = "write" => row.until <= pass.time
=============================================================================
