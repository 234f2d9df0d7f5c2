--------------------------- MODULE OpenHandsProofs ---------------------------
(***************************************************************************)
(* Theorems about the runtime of the OpenHands plugin: its tool calls      *)
(* (ToolCalls), for every number of tasks and keys, every menu of requests *)
(* and every size of the deduplicator, and its terminals (Terminals), for  *)
(* every number of tasks, terminals and cancellations and every choice of  *)
(* kinds of request.                                                       *)
(*                                                                         *)
(* Tool calls.  Whoever is past the lease holds it, and whoever works      *)
(* holds all he needs (Complete), in the mode he asked for (Held), and     *)
(* alone if that is exclusive (Alone).  So conflicting work excludes each  *)
(* other.  An entry of the registry counts everybody at its lock           *)
(* (Registered); so none is dropped while somebody waits, and a waiter     *)
(* always has a reason to (NoLostWakeup).  A reset finds no leader and no  *)
(* follower, as both hold the lease, so that it may drop all flights.      *)
(* Locks are taken in the order of their keys (Ordered), so who holds the  *)
(* last lock that anybody sleeps in does not sleep (NoneStuck).  Entries   *)
(* are evicted when one completes, so completed ones alone never exceed    *)
(* the size of the cache (CacheInv).                                       *)
(*                                                                         *)
(* Terminals, whose a shell is (OwnInv).  A task that may yet start a      *)
(* shell has given it to no handle (Unused), so that no two handles share  *)
(* one (OneHandle).  Who holds a handle's lock works on that handle and    *)
(* has found it open (Holders), so a session that is closed, or is being   *)
(* closed by the holder, has nobody else on it.  A handle stays            *)
(* registered until it is closed or a reset_all has it (Kept), and its     *)
(* shell lives until then (Lives).  A shell without a handle is that of a  *)
(* task that is starting it, or that was cancelled while it did            *)
(* (ShellOwned).                                                           *)
(*                                                                         *)
(* Terminals, what a shell has to read (LinesInv).  A command is typed     *)
(* only when none is pending, so a shell has one at most, and the session  *)
(* takes it for pending (Tracked).  The pending command is given up        *)
(* without its sentinel only when a probe has been answered, and a probe   *)
(* is behind every command, as its task has held the lock since (Probed).  *)
(*                                                                         *)
(* Terminals, why nobody is stuck (GoInv).  A task on its way holds the    *)
(* lock it works with, or is once in the queue of each that it needs; the  *)
(* shell it awaits has been started or is being killed, and a reservation  *)
(* is that of a creation that runs, or was cancelled twice (OnItsWay).  So *)
(* the holder of a lock can go on, or a thread can for him (HolderGoes),   *)
(* a free lock has a first in its queue who can (QueueGoes), and a joiner  *)
(* has the creation it joined (SomebodyGoes).                              *)
(***************************************************************************)
EXTENDS MCOpenHands, Sequences, FiniteSetTheorems, WellFoundedInduction, TLAPS

Working == {"run", "drain", "teardown", "settle"}

Flight == [req : Menu, leader : Task, gen : Nat, done : BOOLEAN]

Held ==
  \A l \in Lock, t \in Task :
    /\ t \in readers[l] => req[t].modes[l] = "shared"
    /\ t \in writers[l] \cup queue[l] => req[t].modes[l] = "exclusive"

Alone ==
  \A l \in Lock : \A t \in writers[l] :
    readers[l] = {} /\ \A u \in writers[l] : u = t

Registered ==
  \A l \in Lock :
    /\ readers[l] \cup writers[l] \cup queue[l] \cup parked[l] \subseteq refs[l]
    /\ \A t \in refs[l] :
         /\ l \in Needs(t) /\ pc[t] # "idle"
         /\ l # Gate => pc[t] \in {"locks", "run", "drain"}

Complete ==
  \A t \in Task :
    /\ pc[t] \notin {"idle", "gate"} => Gate \in Holds(t)
    /\ pc[t] \in Working => Needs(t) \subseteq Holds(t)
    /\ Resetting(t) => IsReset(t)

Workers == \A t \in running \ again : pc[t] \in {"run", "drain"}

(* An entry in flight has its leader.                                      *)
Led ==
  \A i \in Id, u \in Task :
    flight[i] # NoFlight /\ ~flight[i].done /\ flight[i].leader = u
      => Leads(u) /\ req[u] = flight[i].req /\ req[u].id = i

Joining == \A t \in Task : pc[t] \in {"join", "follow"} => req[t].id # NoId

FlightInv == SingleFlight /\ IdsFresh /\ Led /\ Joining

LockInv == Held /\ Alone /\ Registered /\ Complete /\ Workers /\ NoLostWakeup

-----------------------------------------------------------------------------
(* What the menu says of any request.                                      *)
LEMMA Requests ==
  ASSUME Typing, NEW t \in Task
  PROVE  /\ req[t] \in Menu /\ req[t] \in Request /\ WellFormed(req[t])
         /\ \A l \in Lock : req[t].modes[l] \in Mode
         /\ Gate \in Lock /\ Gate \in Needs(t)
BY RuntimeAssumption DEF Typing, Request, Gate, Lock, WellFormed, Needs, Mode

(* The variables keep their types.                                         *)
LEMMA TypingStep == ASSUME Typing, SingleFlight, [Next]_vars PROVE Typing'
<1> USE DEF Typing
<1>1. CASE UNCHANGED vars
  BY <1>1 DEF vars, locks
<1> SUFFICES ASSUME NEW t \in Task,
                    \/ \E r \in Menu : Start(t, r)
                    \/ Move(t)
                    \/ Cancel(t) \/ CancelRun(t) \/ CancelAgain(t)
                    \/ WorkerEnds(t)
             PROVE Typing'
  BY <1>1 DEF Next
<1>2. ASSUME Leave(t) PROVE \A s \in {readers, writers, queue, parked, refs}' :
                              s \in [Lock -> SUBSET Task]
  BY <1>2 DEF Leave, Without
<1>3. ASSUME Returns(t)
      PROVE pc' \in [Task -> {"idle", "gate", "join", "locks", "run", "drain", "follow",
                              "told", "teardown", "settle"}]
  BY <1>3 DEF Returns
<1>4. ASSUME Retract(t)
      PROVE flight' \in [Id -> {NoFlight} \cup
                               [req : Menu, leader : Task, gen : Nat, done : BOOLEAN]]
  BY <1>4 DEF Retract, Leads
<1>5. ASSUME Publish(t)
      PROVE flight' \in [Id -> {NoFlight} \cup
                               [req : Menu, leader : Task, gen : Nat, done : BOOLEAN]]
  <2>1. CASE Leads(t)
    <3> DEFINE e == flight[req[t].id]
    <3>1. e = [req |-> req[t], leader |-> t, gen |-> generation, done |-> FALSE]
      BY <2>1 DEF SingleFlight
    <3>2. \A x \in Flight : [x EXCEPT !.done = TRUE] \in Flight
      BY DEF Flight
    <3>4. e \in Flight
      BY <3>1 DEF Flight
    <3>3. PICK gone \in Evictions(req[t].id) :
            flight' = [i \in Id |-> IF i \in gone THEN NoFlight
                                    ELSE IF i = req[t].id THEN [flight[i] EXCEPT !.done = TRUE]
                                    ELSE flight[i]]
      BY <1>5, <2>1 DEF Publish
    <3> QED BY <3>2, <3>3, <3>4 DEF Flight
  <2>2. CASE ~Leads(t)
    BY <1>5, <2>2 DEF Publish
  <2> QED BY <2>1, <2>2
<1>6. ASSUME NEW r \in Menu, Start(t, r) PROVE Typing'
  BY <1>6 DEF Start, locks
<1>7. ASSUME NEW l \in Lock, Take(t, l) PROVE Typing'
  BY <1>7 DEF Take, Counted, After
<1>8. ASSUME NEW l \in Lock, Park(t, l) PROVE Typing'
  BY <1>8 DEF Park, Counted
<1>9. CASE Lead(t)
  BY <1>9, Requests DEF Lead, locks
<1>10. CASE Follow(t)
  BY <1>10 DEF Follow, locks
<1>11. CASE Answered(t) \/ Told(t) \/ Settle(t)
  BY <1>2, <1>3, <1>11 DEF Answered, Told, Settle
<1>12. CASE Finish(t)
  BY <1>2, <1>3, <1>5, <1>12 DEF Finish
<1>13. CASE Fail(t) \/ Cancel(t) \/ CancelAgain(t)
  BY <1>2, <1>3, <1>4, <1>13 DEF Fail, Cancel, CancelAgain
<1>14. CASE Clear(t)
  BY <1>14 DEF Clear, locks
<1>15. CASE CancelRun(t) \/ WorkerEnds(t)
  BY <1>15 DEF CancelRun, WorkerEnds, locks
<1> QED
  BY <1>6, <1>7, <1>8, <1>9, <1>10, <1>11, <1>12, <1>13, <1>14, <1>15 DEF Move

-----------------------------------------------------------------------------
(* The end of a call or a reset, by whatever way: what it gives up leaves  *)
(* the locks as they should be.                                            *)
LEMMA LeaveKeepsLocks ==
  ASSUME Typing, LockInv, NEW t \in Task, Leave(t), Returns(t), UNCHANGED req,
         running' \ again' \subseteq (running \ again) \ {t}
  PROVE  LockInv'
<1> USE DEF Typing
<1>1. \A l \in Lock : ~Dropped(t, l) =>
        /\ readers'[l] = readers[l] \ {t} /\ writers'[l] = writers[l] \ {t}
        /\ queue'[l] = queue[l] \ {t}
  BY DEF Leave, Without
<1>2. \A l \in Lock : Dropped(t, l) =>
        /\ readers'[l] = {} /\ writers'[l] = {} /\ queue'[l] = {} /\ parked'[l] = {}
        /\ refs[l] \subseteq {t}
  <2> SUFFICES ASSUME NEW l \in Lock, Dropped(t, l)
               PROVE  /\ readers'[l] = {} /\ writers'[l] = {} /\ queue'[l] = {}
                      /\ parked'[l] = {} /\ refs[l] \subseteq {t}
    OBVIOUS
  <2>1. refs[l] \subseteq {t} /\ parked[l] \subseteq refs[l]
    BY DEF Dropped, LockInv, Registered
  <2> QED BY <2>1 DEF Leave, Without
<1>3. \A l \in Lock : /\ refs'[l] = refs[l] \ {t}
                      /\ parked'[l] = IF Wakes(t, l) THEN {} ELSE parked[l] \ {t}
  BY DEF Leave
<1>4. pc'[t] = "idle" /\ \A u \in Task \ {t} :
        pc'[u] = pc[u] \/ (pc[u] = "follow" /\ pc'[u] = "told")
  BY DEF Returns, Follows
<1>5. \A l \in Lock : /\ readers'[l] \subseteq readers[l] \ {t}
                      /\ writers'[l] \subseteq writers[l] \ {t}
                      /\ queue'[l] \subseteq queue[l] \ {t}
                      /\ parked'[l] \subseteq parked[l] \ {t}
  <2> SUFFICES ASSUME NEW l \in Lock
               PROVE  /\ readers'[l] \subseteq readers[l] \ {t}
                      /\ writers'[l] \subseteq writers[l] \ {t}
                      /\ queue'[l] \subseteq queue[l] \ {t}
                      /\ parked'[l] \subseteq parked[l] \ {t}
    OBVIOUS
  <2>1. CASE Dropped(t, l)
    BY <1>2, <2>1
  <2>2. CASE ~Dropped(t, l)
    BY <1>1, <1>3, <2>2
  <2> QED BY <2>1, <2>2
<1>6. Held'
  BY <1>5 DEF LockInv, Held
<1>7. Alone'
  BY <1>5 DEF LockInv, Alone
<1>8. Registered'
  <2> SUFFICES ASSUME NEW l \in Lock
               PROVE  /\ readers'[l] \cup writers'[l] \cup queue'[l] \cup parked'[l]
                           \subseteq refs'[l]
                      /\ \A u \in refs'[l] :
                           /\ l \in Needs(u)' /\ pc'[u] # "idle"
                           /\ l # Gate => pc'[u] \in {"locks", "run", "drain"}
    BY DEF Registered
  <2>1. readers[l] \cup writers[l] \cup queue[l] \cup parked[l] \subseteq refs[l]
    BY DEF LockInv, Registered
  <2>2. ASSUME NEW u \in refs'[l]
        PROVE  /\ l \in Needs(u)' /\ pc'[u] # "idle"
               /\ l # Gate => pc'[u] \in {"locks", "run", "drain"}
    <3>1. u \in refs[l] /\ u \in Task \ {t}
      BY <1>3
    <3>2. /\ l \in Needs(u) /\ pc[u] # "idle"
          /\ l # Gate => pc[u] \in {"locks", "run", "drain"}
      BY <3>1 DEF LockInv, Registered
    <3>3. pc'[u] = pc[u] \/ (pc[u] = "follow" /\ pc'[u] = "told")
      BY <1>4, <3>1
    <3> QED BY <3>2, <3>3 DEF Needs
  <2> QED BY <1>3, <1>5, <2>1, <2>2
<1>9. ASSUME NEW l \in Lock, NEW u \in Task \ {t}, u \in readers[l] \cup writers[l]
      PROVE  u \in readers'[l] \cup writers'[l]
  <2>1. u \in refs[l]
    BY <1>9 DEF LockInv, Registered
  <2>2. ~Dropped(t, l)
    BY <2>1, <1>2
  <2> QED BY <1>1, <1>9, <2>2
<1>10. Complete'
  <2>1. \A u \in Task \ {t} : Holds(u) \subseteq Holds(u)' /\ Needs(u)' = Needs(u)
    BY <1>9 DEF Holds, Needs
  <2>2. \A u \in Task \ {t} : (pc'[u] \notin {"idle", "gate"} => Gate \in Holds(u)')
                            /\ (pc'[u] \in Working => Needs(u)' \subseteq Holds(u)')
                            /\ (Resetting(u)' => IsReset(u)')
    BY <1>4, <2>1 DEF LockInv, Complete, Working, Resetting, IsReset
  <2> QED BY <1>4, <2>2 DEF Complete, Working, Resetting
<1>11. Workers'
  BY <1>4 DEF LockInv, Workers
<1>12. NoLostWakeup'
  <2> SUFFICES ASSUME NEW l \in Lock, NEW u \in parked'[l]
               PROVE  \/ writers'[l] # {}
                      \/ IF req'[u].modes[l] = "exclusive" THEN readers'[l] # {}
                         ELSE queue'[l] # {}
    BY DEF NoLostWakeup
  <2>1. ~Dropped(t, l) /\ ~Wakes(t, l) /\ u \in parked[l]
    BY <1>2, <1>3
  <2>2. readers'[l] = readers[l] /\ writers'[l] = writers[l] /\ queue'[l] = queue[l]
    <3>1. t \notin readers[l] \cup writers[l] \cup queue[l]
      BY <2>1 DEF Wakes
    <3>2. /\ readers'[l] = readers[l] \ {t} /\ writers'[l] = writers[l] \ {t}
          /\ queue'[l] = queue[l] \ {t}
      BY <1>1, <2>1
    <3> QED BY <3>1, <3>2
  <2> QED BY <2>1, <2>2 DEF LockInv, NoLostWakeup
<1> QED
  BY <1>6, <1>7, <1>8, <1>10, <1>11, <1>12 DEF LockInv

(* A task that takes a lock: the lock was free for it.                     *)
LEMMA TakeKeepsLocks ==
  ASSUME Typing, LockInv, NEW t \in Task, NEW l \in Lock, Take(t, l)
  PROVE  LockInv'
<1> USE DEF Typing
<1> DEFINE X == req[t].modes[l] = "exclusive"
<1>1. /\ l \in Needs(t) \ Holds(t) /\ CanTake(t, l) /\ UNCHANGED <<req, parked, again>>
      /\ pc[t] = IF l = Gate THEN "gate" ELSE "locks"
      /\ pc' = [pc EXCEPT ![t] = After(t, l)]
      /\ running' = IF After(t, l) = "run" THEN running \cup {t} ELSE running
      /\ queue' = [queue EXCEPT ![l] = @ \ {t}]
      /\ refs' = [refs EXCEPT ![l] = @ \cup {t}]
  BY DEF Take, Asks, Wanted, Counted
<1>2. X => writers' = [writers EXCEPT ![l] = @ \cup {t}] /\ readers' = readers
  BY DEF Take
<1>3. ~X => /\ readers' = [readers EXCEPT ![l] = @ \cup {t}] /\ writers' = writers
            /\ req[t].modes[l] = "shared"
  BY <1>1, Requests DEF Take, Needs, Mode
<1>4. Held'
  BY <1>1, <1>2, <1>3 DEF LockInv, Held
<1>5. Alone'
  <2>1. writers[l] = {} /\ (X => readers[l] = {})
    BY <1>1 DEF CanTake
  <2> QED BY <1>1, <1>2, <1>3, <2>1 DEF LockInv, Alone
<1>6. pc'[t] \notin {"idle", "gate"} /\ (l # Gate => pc'[t] \in {"locks", "run"})
  BY <1>1 DEF After
<1>7. Registered'
  <2>1. ASSUME NEW k \in Lock
        PROVE readers'[k] \cup writers'[k] \cup queue'[k] \cup parked'[k] \subseteq refs'[k]
    BY <1>1, <1>2, <1>3 DEF LockInv, Registered
  <2>2. ASSUME NEW k \in Lock, NEW u \in refs'[k]
        PROVE /\ k \in Needs(u)' /\ pc'[u] # "idle"
              /\ k # Gate => pc'[u] \in {"locks", "run", "drain"}
    <3>1. u \in Task /\ (u \in refs[k] \/ (u = t /\ k = l))
      BY <1>1
    <3>2. CASE u = t
      <4>1. k \in Needs(t) /\ (k # Gate => l # Gate)
        BY <1>1, <3>1, <3>2 DEF LockInv, Registered
      <4> QED BY <1>1, <1>6, <3>2, <4>1 DEF Needs
    <3>3. CASE u # t
      BY <1>1, <3>1, <3>3 DEF LockInv, Registered, Needs
    <3> QED BY <3>2, <3>3
  <2> QED BY <2>1, <2>2 DEF Registered
<1>8. Complete'
  <2>1. \A u \in Task : /\ Holds(u)' = IF u = t THEN Holds(u) \cup {l} ELSE Holds(u)
                        /\ Needs(u)' = Needs(u) /\ IsReset(u)' = IsReset(u)
    BY <1>1, <1>2, <1>3 DEF Holds, Needs, IsReset
  <2>2. Gate \in Holds(t)'
    <3>1. CASE l = Gate
      BY <2>1, <3>1
    <3>2. CASE l # Gate
      BY <1>1, <2>1, <3>2 DEF LockInv, Complete
    <3> QED BY <3>1, <3>2
  <2>3. ASSUME pc'[t] \in Working
        PROVE  Needs(t) \subseteq Holds(t)' /\ (Resetting(t)' => IsReset(t))
    <3>1. CASE l # Gate
      BY <1>1, <2>1, <2>3, <3>1 DEF After, Working, Resetting
    <3>2. CASE l = Gate
      <4>1. IsReset(t) /\ Needs(t) = {Gate}
        BY <1>1, <2>3, <3>2, Requests DEF After, Working, WellFormed, Needs, IsReset
      <4> QED BY <2>1, <3>2, <4>1
    <3> QED BY <3>1, <3>2
  <2>4. ASSUME NEW u \in Task \ {t} PROVE pc'[u] = pc[u]
    BY <1>1
  <2>5. ASSUME NEW u \in Task
        PROVE  /\ pc'[u] \notin {"idle", "gate"} => Gate \in Holds(u)'
               /\ pc'[u] \in Working => Needs(u)' \subseteq Holds(u)'
               /\ Resetting(u)' => IsReset(u)'
    <3>1. CASE u = t
      BY <2>1, <2>2, <2>3, <3>1 DEF Resetting, Working
    <3>2. CASE u # t
      BY <2>1, <2>4, <3>2 DEF LockInv, Complete, Resetting
    <3> QED BY <3>1, <3>2
  <2> QED BY <2>5 DEF Complete
<1>9. Workers'
  BY <1>1 DEF LockInv, Workers
<1>10. NoLostWakeup'
  <2> SUFFICES ASSUME NEW k \in Lock, NEW u \in parked[k]
               PROVE  \/ writers'[k] # {}
                      \/ IF req[u].modes[k] = "exclusive" THEN readers'[k] # {}
                         ELSE queue'[k] # {}
    BY <1>1 DEF NoLostWakeup
  <2>1. CASE k # l
    BY <1>1, <1>2, <1>3, <2>1 DEF LockInv, NoLostWakeup
  <2>2. CASE k = l /\ X
    BY <1>1, <1>2, <2>2
  <2>3. CASE k = l /\ ~X
    <3>1. queue[l] = {} /\ writers[l] = {} /\ readers'[l] # {}
      BY <1>1, <1>3, <2>3 DEF CanTake
    <3> QED BY <2>3, <3>1 DEF LockInv, NoLostWakeup
  <2> QED BY <2>1, <2>2, <2>3
<1> QED
  BY <1>4, <1>5, <1>7, <1>8, <1>9, <1>10 DEF LockInv

(* A task that goes to sleep: it has a reason to.                          *)
LEMMA ParkKeepsLocks ==
  ASSUME Typing, LockInv, NEW t \in Task, NEW l \in Lock, Park(t, l)
  PROVE  LockInv'
<1> USE DEF Typing
<1>1. /\ l \in Needs(t) /\ ~CanTake(t, l)
      /\ UNCHANGED <<req, pc, readers, writers, running, again>>
      /\ pc[t] = IF l = Gate THEN "gate" ELSE "locks"
      /\ parked' = [parked EXCEPT ![l] = @ \cup {t}]
      /\ queue' = IF req[t].modes[l] = "exclusive"
                  THEN [queue EXCEPT ![l] = @ \cup {t}] ELSE queue
      /\ refs' = [refs EXCEPT ![l] = @ \cup {t}]
  BY DEF Park, Asks, Wanted, Counted
<1>2. Held'
  BY <1>1 DEF LockInv, Held
<1>3. Alone'
  BY <1>1 DEF LockInv, Alone
<1>4. Registered'
  BY <1>1 DEF LockInv, Registered, Needs
<1>5. Complete' /\ Workers'
  BY <1>1 DEF LockInv, Complete, Workers, Holds, Needs, IsReset, Resetting
<1>6. NoLostWakeup'
  BY <1>1 DEF LockInv, NoLostWakeup, CanTake
<1> QED
  BY <1>2, <1>3, <1>4, <1>5, <1>6 DEF LockInv

(* The steps that touch no lock.                                           *)
LEMMA QuietKeepsLocks ==
  ASSUME Typing, LockInv, NEW t \in Task, UNCHANGED locks,
         \/ \E r \in Menu : Start(t, r)
         \/ Lead(t) \/ Follow(t) \/ Clear(t) \/ CancelRun(t) \/ WorkerEnds(t)
  PROVE  LockInv'
<1> USE DEF Typing, locks
<1>1. CASE \E r \in Menu : Start(t, r)
  <2>1. PICK r \in Menu : Start(t, r)
    BY <1>1
  <2>2. /\ pc[t] = "idle" /\ pc' = [pc EXCEPT ![t] = "gate"] /\ t \notin running
        /\ req' = [req EXCEPT ![t] = r] /\ UNCHANGED <<running, again>>
    BY <2>1 DEF Start
  <2>3. \A l \in Lock : t \notin refs[l]
    BY <2>2 DEF LockInv, Registered
  <2>4. \A l \in Lock : t \notin readers[l] \cup writers[l] \cup queue[l] \cup parked[l]
    BY <2>3 DEF LockInv, Registered
  <2>5. Held' /\ Alone' /\ NoLostWakeup' /\ Workers'
    BY <2>2, <2>4 DEF LockInv, Held, Alone, NoLostWakeup, Workers
  <2>6. Registered'
    BY <2>2, <2>3 DEF LockInv, Registered, Needs
  <2>7. Complete'
    BY <2>2 DEF LockInv, Complete, Working, Holds, Needs, Resetting, IsReset
  <2> QED BY <2>5, <2>6, <2>7 DEF LockInv
<1>2. CASE Lead(t) \/ Follow(t) \/ Clear(t) \/ CancelRun(t)
  <2>1. /\ UNCHANGED <<req, running, again>>
        /\ \E there \in {"locks", "follow", "settle", "drain"} :
             /\ pc' = [pc EXCEPT ![t] = there]
             /\ pc[t] \notin {"idle", "gate"}
             /\ there \in Working => pc[t] \in Working
             /\ pc[t] \in {"locks", "run", "drain"} => there \in {"locks", "drain"}
             /\ there = "settle" => pc[t] = "teardown"
             /\ pc[t] \in {"run", "drain"} => there = "drain"
    BY <1>2 DEF Lead, Follow, Clear, CancelRun, Working
  <2>2. PICK there \in {"locks", "follow", "settle", "drain"} :
             /\ pc' = [pc EXCEPT ![t] = there]
             /\ pc[t] \notin {"idle", "gate"}
             /\ there \in Working => pc[t] \in Working
             /\ pc[t] \in {"locks", "run", "drain"} => there \in {"locks", "drain"}
             /\ there = "settle" => pc[t] = "teardown"
             /\ pc[t] \in {"run", "drain"} => there = "drain"
    BY <2>1
  <2>3. Held' /\ Alone' /\ NoLostWakeup'
    BY <2>1 DEF LockInv, Held, Alone, NoLostWakeup
  <2>4. Registered'
    BY <2>1, <2>2 DEF LockInv, Registered, Needs
  <2>5. Complete'
    BY <2>1, <2>2 DEF LockInv, Complete, Working, Holds, Needs, Resetting, IsReset
  <2>6. Workers'
    BY <2>1, <2>2 DEF LockInv, Workers
  <2> QED BY <2>3, <2>4, <2>5, <2>6 DEF LockInv
<1>3. CASE WorkerEnds(t)
  <2>1. /\ UNCHANGED <<req, pc>> /\ running' = running \ {t} /\ again' = again \ {t}
    BY <1>3 DEF WorkerEnds
  <2>2. Workers' /\ Held' /\ Alone' /\ NoLostWakeup' /\ Registered'
    BY <2>1 DEF LockInv, Workers, Held, Alone, NoLostWakeup, Registered, Needs
  <2>3. Complete'
    BY <2>1 DEF LockInv, Complete, Holds, Needs, Resetting, IsReset
  <2> QED BY <2>2, <2>3 DEF LockInv
<1> QED BY <1>1, <1>2, <1>3

(* Every step keeps the locks as they should be.                           *)
LEMMA LockStep == ASSUME Typing, LockInv, [Next]_vars PROVE LockInv'
<1>1. CASE UNCHANGED vars
  BY <1>1 DEF vars, locks, LockInv, Held, Alone, Registered, Complete, Workers,
              NoLostWakeup, Working, Holds, Needs, Resetting, IsReset
<1>2. ASSUME NEW t \in Task,
             Answered(t) \/ Told(t) \/ Settle(t) \/ Cancel(t)
               \/ Finish(t) \/ Fail(t) \/ CancelAgain(t)
      PROVE  LockInv'
  <2>1. Leave(t) /\ Returns(t) /\ UNCHANGED req
    BY <1>2 DEF Answered, Told, Settle, Cancel, Finish, Fail, CancelAgain
  <2>2. running' \ again' \subseteq (running \ again) \ {t}
    <3>1. CASE Answered(t) \/ Told(t) \/ Settle(t) \/ Cancel(t)
      <4>1. pc[t] \notin {"run", "drain"} /\ UNCHANGED <<running, again>>
        BY <3>1 DEF Answered, Told, Settle, Cancel
      <4> QED BY <4>1 DEF LockInv, Workers
    <3>2. CASE Finish(t) \/ Fail(t) \/ CancelAgain(t)
      BY <3>2 DEF Finish, Fail, CancelAgain
    <3> QED BY <1>2, <3>1, <3>2
  <2> QED BY <2>1, <2>2, LeaveKeepsLocks
<1>3. ASSUME NEW t \in Task,
             \/ \E r \in Menu : Start(t, r)
             \/ Lead(t) \/ Follow(t) \/ Clear(t) \/ CancelRun(t) \/ WorkerEnds(t)
      PROVE  LockInv'
  <2>1. UNCHANGED locks
    BY <1>3 DEF Start, Lead, Follow, Clear, CancelRun, WorkerEnds
  <2> QED BY <1>3, <2>1, QuietKeepsLocks
<1> QED
  BY <1>1, <1>2, <1>3, TakeKeepsLocks, ParkKeepsLocks DEF Next, Move

-----------------------------------------------------------------------------
(* Flights.                                                                *)

(* The end of a call: if it leads, its entry goes or is done, and its      *)
(* followers are told; completed entries may go, no other changes.         *)
LEMMA ReturnKeepsFlights ==
  ASSUME Typing, FlightInv, NEW t \in Task, Returns(t), UNCHANGED <<req, generation>>,
         \A i \in Id :
           \/ flight'[i] = NoFlight
           \/ flight'[i] = flight[i] /\ ~(Leads(t) /\ i = req[t].id)
           \/ /\ Leads(t) /\ i = req[t].id /\ flight[i] # NoFlight
              /\ flight'[i].done /\ flight'[i].gen = flight[i].gen,
         \A u \in Task \ {t} : Leads(u) => flight'[req[u].id] = flight[req[u].id]
  PROVE  FlightInv'
<1> USE DEF Typing
<1>1. pc'[t] = "idle" /\ \A u \in Task \ {t} :
        pc'[u] = IF Follows(u, t) THEN "told" ELSE pc[u]
  BY DEF Returns
<1>2. IdsFresh'
  BY DEF FlightInv, IdsFresh
<1>3. \A u \in Task \ {t} : (Leads(u)' <=> Leads(u))
  BY <1>1 DEF Leads, Follows
<1>4. ~Leads(t)'
  BY <1>1 DEF Leads
<1>5. ASSUME NEW u \in Task, Leads(u)'
      PROVE  flight'[req'[u].id]
               = [req |-> req'[u], leader |-> u, gen |-> generation', done |-> FALSE]
  BY <1>3, <1>4, <1>5 DEF FlightInv, SingleFlight
<1>6. ASSUME NEW u \in Task, pc'[u] = "follow"
      PROVE  \E v \in Task : Leads(v)' /\ req'[v] = req'[u]
  <2>1. pc[u] = "follow" /\ u # t /\ ~Follows(u, t)
    BY <1>1, <1>6
  <2>2. PICK v \in Task : Leads(v) /\ req[v] = req[u]
    BY <2>1 DEF FlightInv, SingleFlight
  <2>3. v # t
    BY <2>1, <2>2 DEF Follows
  <2> QED BY <1>3, <2>2, <2>3
<1>7. Led'
  <2> SUFFICES ASSUME NEW i \in Id, NEW u \in Task,
                      flight'[i] # NoFlight, ~flight'[i].done, flight'[i].leader = u
               PROVE  Leads(u)' /\ req[u] = flight'[i].req /\ req[u].id = i
    BY DEF Led
  <2>1. flight'[i] = flight[i] /\ ~(Leads(t) /\ i = req[t].id)
    OBVIOUS
  <2>2. Leads(u) /\ req[u] = flight[i].req /\ req[u].id = i
    BY <2>1 DEF FlightInv, Led
  <2>3. u # t
    BY <2>1, <2>2
  <2> QED BY <1>3, <2>1, <2>2, <2>3
<1>8. Joining'
  BY <1>1 DEF FlightInv, Joining
<1> QED BY <1>2, <1>5, <1>6, <1>7, <1>8 DEF FlightInv, SingleFlight

(* The steps in which nobody begins or ceases to lead or to follow.        *)
LEMMA QuietKeepsFlights ==
  ASSUME Typing, FlightInv, UNCHANGED <<flight, generation>>,
         \A u \in Task : /\ (Leads(u)' <=> Leads(u))
                         /\ Leads(u) => req'[u] = req[u]
                         /\ pc'[u] = "follow" => (pc[u] = "follow" /\ req'[u] = req[u])
                         /\ pc'[u] = "join" => req'[u].id # NoId
  PROVE  FlightInv'
<1> USE DEF Typing
<1>1. ASSUME NEW u \in Task, Leads(u)'
      PROVE  flight'[req'[u].id]
               = [req |-> req'[u], leader |-> u, gen |-> generation', done |-> FALSE]
  BY <1>1 DEF FlightInv, SingleFlight
<1>2. ASSUME NEW u \in Task, pc'[u] = "follow"
      PROVE  \E v \in Task : Leads(v)' /\ req'[v] = req'[u]
  BY <1>2 DEF FlightInv, SingleFlight
<1>3. IdsFresh' /\ Joining'
  BY DEF FlightInv, IdsFresh, Joining
<1>4. Led'
  BY DEF FlightInv, Led
<1> QED BY <1>1, <1>2, <1>3, <1>4 DEF FlightInv, SingleFlight

(* Every step keeps the flights as they should be.                         *)
LEMMA FlightStep ==
  ASSUME Typing, LockInv, FlightInv, [Next]_vars
  PROVE  FlightInv'
<1> USE DEF Typing
<1>1. CASE UNCHANGED vars
  BY <1>1 DEF vars, FlightInv, SingleFlight, IdsFresh, Led, Joining, Leads
<1>0. ASSUME NEW t \in Task, Leads(t)
      PROVE  flight[req[t].id].leader = t /\ ~flight[req[t].id].done
  <2>1. flight[req[t].id]
          = [req |-> req[t], leader |-> t, gen |-> generation, done |-> FALSE]
    BY <1>0 DEF FlightInv, SingleFlight
  <2> QED BY <2>1
<1>2. \A t, u \in Task : Leads(t) /\ Leads(u) /\ req[t].id = req[u].id => t = u
  BY <1>0
<1>3. \A t \in Task : req[t].id # NoId => req[t].id \in Id
  BY Requests DEF Request
<1>4. \A t \in Task : Leads(t) => flight[req[t].id] \in Flight /\ flight[req[t].id] # NoFlight
  <2> SUFFICES ASSUME NEW t \in Task, Leads(t)
               PROVE  flight[req[t].id] \in Flight /\ flight[req[t].id] # NoFlight
    OBVIOUS
  <2>1. flight[req[t].id]
          = [req |-> req[t], leader |-> t, gen |-> generation, done |-> FALSE]
    BY DEF FlightInv, SingleFlight
  <2>2. flight[req[t].id] \in Flight
    BY <2>1 DEF Flight
  <2> QED BY <2>2, RuntimeAssumption DEF Flight
<1>5. ASSUME NEW t \in Task,
             Answered(t) \/ Told(t) \/ Settle(t) \/ Fail(t) \/ Cancel(t) \/ CancelAgain(t)
      PROVE  FlightInv'
  <2>1. Returns(t) /\ UNCHANGED <<req, generation>>
    BY <1>5 DEF Answered, Told, Settle, Fail, Cancel, CancelAgain
  <2>2. Retract(t)
    BY <1>5 DEF Answered, Told, Settle, Fail, Cancel, CancelAgain, Retract, Leads
  <2>3. CASE ~Leads(t)
    <3>1. UNCHANGED flight
      BY <2>2, <2>3 DEF Retract
    <3> QED BY <2>1, <2>3, <3>1, ReturnKeepsFlights
  <2>4. CASE Leads(t)
    <3>1. \A i \in Id : flight'[i] = IF i = req[t].id THEN NoFlight ELSE flight[i]
      BY <2>2, <2>4 DEF Retract
    <3>2. \A u \in Task \ {t} : Leads(u) => flight'[req[u].id] = flight[req[u].id]
      BY <1>2, <1>3, <2>4, <3>1 DEF Leads
    <3> QED BY <2>1, <3>1, <3>2, ReturnKeepsFlights
  <2> QED BY <2>3, <2>4
<1>6. ASSUME NEW t \in Task, Finish(t) PROVE FlightInv'
  <2>1. Returns(t) /\ Publish(t) /\ UNCHANGED <<req, generation>>
    BY <1>6 DEF Finish
  <2>2. CASE ~Leads(t)
    <3>1. UNCHANGED flight
      BY <2>1, <2>2 DEF Publish
    <3> QED BY <2>1, <2>2, <3>1, ReturnKeepsFlights
  <2>3. CASE Leads(t)
    <3>1. PICK gone \in Evictions(req[t].id) :
            flight' = [i \in Id |-> IF i \in gone THEN NoFlight
                                    ELSE IF i = req[t].id THEN [flight[i] EXCEPT !.done = TRUE]
                                    ELSE flight[i]]
      BY <2>1, <2>3 DEF Publish
    <3>2. \A i \in gone : i = req[t].id \/ flight[i].done
      BY DEF Evictions
    <3>3. ASSUME NEW u \in Task \ {t}, Leads(u)
          PROVE  flight'[req[u].id] = flight[req[u].id]
      <4>1. req[u].id # req[t].id /\ req[u].id \in Id
        BY <1>2, <1>3, <2>3, <3>3 DEF Leads
      <4>2. ~flight[req[u].id].done
        BY <1>0, <3>3
      <4> QED BY <3>1, <3>2, <4>1, <4>2
    <3>4. \A e \in Flight : [e EXCEPT !.done = TRUE].done /\ [e EXCEPT !.done = TRUE].gen = e.gen
      BY DEF Flight
    <3>5. ASSUME NEW i \in Id
          PROVE  \/ flight'[i] = NoFlight
                 \/ flight'[i] = flight[i] /\ ~(Leads(t) /\ i = req[t].id)
                 \/ /\ Leads(t) /\ i = req[t].id /\ flight[i] # NoFlight
                    /\ flight'[i].done /\ flight'[i].gen = flight[i].gen
      <4>1. CASE i \in gone
        BY <3>1, <4>1
      <4>2. CASE i \notin gone /\ i = req[t].id
        <5>1. flight'[i] = [flight[i] EXCEPT !.done = TRUE]
          BY <3>1, <4>2
        <5> QED BY <1>4, <2>3, <3>4, <4>2, <5>1
      <4>3. CASE i \notin gone /\ i # req[t].id
        BY <3>1, <4>3
      <4> QED BY <4>1, <4>2, <4>3
    <3> QED BY <2>1, <3>3, <3>5, ReturnKeepsFlights
  <2> QED BY <2>2, <2>3
<1>7. ASSUME NEW t \in Task, Lead(t) PROVE FlightInv'
  <2> DEFINE e == [req |-> req[t], leader |-> t, gen |-> generation, done |-> FALSE]
  <2>1. /\ pc[t] = "join" /\ flight[req[t].id] = NoFlight /\ UNCHANGED <<req, generation>>
        /\ pc' = [pc EXCEPT ![t] = "locks"]
        /\ flight' = [flight EXCEPT ![req[t].id] = e]
    BY <1>7 DEF Lead
  <2>2. \A u \in Task \ {t} : /\ (Leads(u)' <=> Leads(u))
                              /\ Leads(u) => req[u].id # req[t].id
    BY <1>4, <2>1 DEF Leads
  <2>3. ASSUME NEW u \in Task, Leads(u)'
        PROVE  flight'[req'[u].id]
                 = [req |-> req'[u], leader |-> u, gen |-> generation', done |-> FALSE]
    <3>1. req[u].id \in Id
      BY <1>3, <2>1, <2>3 DEF Leads
    <3>2. CASE u = t
      BY <2>1, <3>1, <3>2
    <3>3. CASE u # t
      BY <2>1, <2>2, <2>3, <3>1, <3>3 DEF FlightInv, SingleFlight
    <3> QED BY <3>2, <3>3
  <2>4. ASSUME NEW u \in Task, pc'[u] = "follow"
        PROVE  \E v \in Task : Leads(v)' /\ req'[v] = req'[u]
    <3>1. pc[u] = "follow"
      BY <2>1, <2>4
    <3>2. PICK v \in Task : Leads(v) /\ req[v] = req[u]
      BY <3>1 DEF FlightInv, SingleFlight
    <3>3. v # t
      BY <2>1, <3>2 DEF Leads
    <3> QED BY <2>1, <2>2, <3>2, <3>3
  <2>5. IdsFresh' /\ Joining'
    BY <2>1 DEF FlightInv, IdsFresh, Joining
  <2>6. Led'
    <3> SUFFICES ASSUME NEW i \in Id, NEW u \in Task,
                        flight'[i] # NoFlight, ~flight'[i].done, flight'[i].leader = u
                 PROVE  Leads(u)' /\ req[u] = flight'[i].req /\ req[u].id = i
      BY <2>1 DEF Led
    <3>1. CASE i = req[t].id
      <4>1. flight'[i] = e
        BY <2>1, <3>1
      <4>2. u = t /\ i # NoId
        BY <4>1, RuntimeAssumption
      <4> QED BY <2>1, <3>1, <4>1, <4>2 DEF Leads
    <3>2. CASE i # req[t].id
      <4>1. flight'[i] = flight[i]
        BY <2>1, <3>2
      <4>2. Leads(u) /\ req[u] = flight[i].req /\ req[u].id = i
        BY <4>1 DEF FlightInv, Led
      <4> QED BY <2>2, <3>2, <4>1, <4>2
    <3> QED BY <3>1, <3>2
  <2> QED BY <2>3, <2>4, <2>5, <2>6 DEF FlightInv, SingleFlight
<1>8. ASSUME NEW t \in Task, Follow(t) PROVE FlightInv'
  <2>1. /\ pc[t] = "join" /\ flight[req[t].id] # NoFlight /\ UNCHANGED <<req, flight, generation>>
        /\ flight[req[t].id].req = req[t] /\ ~flight[req[t].id].done
        /\ pc' = [pc EXCEPT ![t] = "follow"]
    BY <1>8 DEF Follow, SameBody
  <2>2. \A u \in Task : (Leads(u)' <=> Leads(u))
    BY <2>1 DEF Leads
  <2>3. req[t].id \in Id
    BY <1>3, <2>1 DEF FlightInv, Joining
  <2>4. ASSUME NEW u \in Task, Leads(u)'
        PROVE  flight'[req'[u].id]
                 = [req |-> req'[u], leader |-> u, gen |-> generation', done |-> FALSE]
    BY <2>1, <2>2, <2>4 DEF FlightInv, SingleFlight
  <2>5. \E v \in Task : Leads(v) /\ req[v] = req[t]
    <3> DEFINE v == flight[req[t].id].leader
    <3>1. v \in Task
      BY <2>1, <2>3
    <3>2. Leads(v) /\ req[v] = req[t]
      BY <2>1, <2>3 DEF FlightInv, Led
    <3> QED BY <3>1, <3>2
  <2>6. ASSUME NEW u \in Task, pc'[u] = "follow"
        PROVE  \E v \in Task : Leads(v)' /\ req'[v] = req'[u]
    <3>1. CASE u = t
      BY <2>1, <2>2, <2>5, <3>1
    <3>2. CASE u # t
      <4>1. pc[u] = "follow"
        BY <2>1, <2>6, <3>2
      <4> QED BY <2>1, <2>2, <4>1 DEF FlightInv, SingleFlight
    <3> QED BY <3>1, <3>2
  <2>7. IdsFresh' /\ Joining'
    BY <2>1 DEF FlightInv, IdsFresh, Joining
  <2>8. Led'
    BY <2>1, <2>2 DEF FlightInv, Led
  <2> QED BY <2>4, <2>6, <2>7, <2>8 DEF FlightInv, SingleFlight
<1>9. ASSUME NEW t \in Task, Clear(t) PROVE FlightInv'
  <2>1. /\ Resetting(t) /\ pc[t] = "teardown" /\ pc' = [pc EXCEPT ![t] = "settle"]
        /\ flight' = [i \in Id |-> NoFlight] /\ UNCHANGED req
    BY <1>9 DEF Clear, Resetting
  <2>2. t \in writers[Gate]
    BY <2>1, Requests DEF LockInv, Complete, Held, IsReset, Holds
  <2>3. \A u \in Task : u # t => pc[u] \in {"idle", "gate"}
    BY <2>2, Requests DEF LockInv, Complete, Alone, Holds
  <2>4. \A u \in Task : ~Leads(u)' /\ pc'[u] # "follow"
    BY <2>1, <2>3 DEF Leads
  <2>5. Joining'
    BY <2>1, <2>4 DEF FlightInv, Joining
  <2> QED BY <2>1, <2>4, <2>5 DEF FlightInv, SingleFlight, IdsFresh, Led
<1>10. ASSUME NEW t \in Task, NEW r \in Menu, Start(t, r) PROVE FlightInv'
  <2>1. /\ pc[t] = "idle" /\ pc' = [pc EXCEPT ![t] = "gate"]
        /\ req' = [req EXCEPT ![t] = r] /\ UNCHANGED <<flight, generation>>
    BY <1>10 DEF Start
  <2>2. \A u \in Task : /\ (Leads(u)' <=> Leads(u))
                        /\ Leads(u) => req'[u] = req[u]
                        /\ pc'[u] = "follow" => (pc[u] = "follow" /\ req'[u] = req[u])
                        /\ pc'[u] = "join" => req'[u].id # NoId
    BY <2>1 DEF Leads, FlightInv, Joining
  <2> QED BY <2>1, <2>2, QuietKeepsFlights
<1>11. ASSUME NEW t \in Task, NEW l \in Lock, Take(t, l) PROVE FlightInv'
  <2>1. /\ pc[t] = IF l = Gate THEN "gate" ELSE "locks"
        /\ pc' = [pc EXCEPT ![t] = After(t, l)] /\ UNCHANGED <<req, flight, generation>>
    BY <1>11 DEF Take, Asks
  <2>2. \A u \in Task : /\ (Leads(u)' <=> Leads(u))
                        /\ Leads(u) => req'[u] = req[u]
                        /\ pc'[u] = "follow" => (pc[u] = "follow" /\ req'[u] = req[u])
                        /\ pc'[u] = "join" => req'[u].id # NoId
    BY <2>1 DEF Leads, After, FlightInv, Joining
  <2> QED BY <2>1, <2>2, QuietKeepsFlights
<1>12. ASSUME NEW t \in Task,
              (\E l \in Lock : Park(t, l)) \/ CancelRun(t) \/ WorkerEnds(t)
       PROVE  FlightInv'
  <2>1. /\ UNCHANGED <<req, flight, generation>>
        /\ UNCHANGED pc \/ (pc[t] = "run" /\ pc' = [pc EXCEPT ![t] = "drain"])
    BY <1>12 DEF Park, CancelRun, WorkerEnds
  <2>2. \A u \in Task : /\ (Leads(u)' <=> Leads(u))
                        /\ Leads(u) => req'[u] = req[u]
                        /\ pc'[u] = "follow" => (pc[u] = "follow" /\ req'[u] = req[u])
                        /\ pc'[u] = "join" => req'[u].id # NoId
    BY <2>1 DEF Leads, FlightInv, Joining
  <2> QED BY <2>1, <2>2, QuietKeepsFlights
<1> QED
  BY <1>1, <1>5, <1>6, <1>7, <1>8, <1>9, <1>10, <1>11, <1>12 DEF Next, Move

-----------------------------------------------------------------------------

Inv == Typing /\ LockInv /\ FlightInv

(* The inductive invariant: the locks are held, queued for and counted as  *)
(* LockInv says, and the flights led and followed as FlightInv says, in    *)
(* every state of rwlock.py, scheduler.py, dedup.py and service.py.        *)
THEOREM Invariance == Spec => []Inv
<1>1. Init => Inv
  <2> SUFFICES ASSUME Init PROVE Inv
    OBVIOUS
  <2>1. Typing
    BY DEF Init, Typing
  <2>2. LockInv
    BY DEF Init, LockInv, Held, Alone, Registered, Complete, Workers, NoLostWakeup,
           Working, Resetting
  <2>3. FlightInv
    BY DEF Init, FlightInv, SingleFlight, IdsFresh, Led, Joining, Leads
  <2> QED BY <2>1, <2>2, <2>3 DEF Inv
<1>2. Inv /\ [Next]_vars => Inv'
  BY TypingStep, LockStep, FlightStep DEF Inv, FlightInv
<1> QED BY <1>1, <1>2, PTL DEF Spec

(* Two tools whose requests conflict never work in the workspace at once,  *)
(* and none works while the environment is reset (service.py).             *)
THEOREM ExclusionHolds == Spec => []Exclusion
<1>1. Inv => Exclusion
  <2> SUFFICES ASSUME Inv, NEW t \in Task, NEW u \in Task, t # u, Works(t), Works(u),
                      NEW l \in Lock,
                      "none" \notin {req[t].modes[l], req[u].modes[l]},
                      "exclusive" \in {req[t].modes[l], req[u].modes[l]}
               PROVE  FALSE
    BY DEF Exclusion, Conflict
  <2>1. pc[t] \in Working /\ pc[u] \in Working
    BY DEF Works, Resetting, Working, Inv, LockInv, Workers
  <2>2. /\ t \in readers[l] \cup writers[l] /\ u \in readers[l] \cup writers[l]
    BY <2>1 DEF Inv, LockInv, Complete, Needs, Holds
  <2>3. t \in writers[l] \/ u \in writers[l]
    BY <2>2 DEF Inv, LockInv, Held
  <2> QED BY <2>2, <2>3 DEF Inv, LockInv, Alone
<1> QED BY <1>1, Invariance, PTL

(* Nobody sleeps in a lock without a reason (rwlock.py; scheduler.py).     *)
THEOREM NoLostWakeupHolds == Spec => []NoLostWakeup
<1>1. Inv => NoLostWakeup
  BY DEF Inv, LockInv
<1> QED BY <1>1, Invariance, PTL

(* The registry of locks has an entry for exactly those who hold its lock  *)
(* or wait for it (scheduler.py).                                          *)
THEOREM RegistryTightHolds == Spec => []RegistryTight
<1>1. Inv => RegistryTight
  BY DEF Inv, LockInv, Registered, RegistryTight, Typing
<1> QED BY <1>1, Invariance, PTL

(* One call at most leads a request id, whoever follows follows a call     *)
(* with the same request, and no entry of the deduplicator outlives its    *)
(* environment (dedup.py; service.py).                                     *)
THEOREM FlightsSoundHolds == Spec => []FlightsSound
<1>1. Inv => FlightsSound
  BY DEF Inv, FlightInv, FlightsSound
<1> QED BY <1>1, Invariance, PTL

-----------------------------------------------------------------------------
(* What the deduplicator keeps, and the resets that are counted.           *)

Entries == {i \in Id : flight[i] # NoFlight}
Completed == {i \in Entries : flight[i].done}
Resets == {u \in Task : IsReset(u) /\ pc[u] \in {"gate", "teardown"}}

(* Finitely many entries, of which no more than dedup_cache_size are       *)
(* completed.                                                              *)
CacheInv == IsFiniteSet(Entries) /\ Cardinality(Completed) <= CacheSize

(* The resets that have begun, but not cleared, are counted beforehand.    *)
ResetInv == IsFiniteSet(Resets) /\ generation + Cardinality(Resets) <= MaxResets

LEMMA FewerEntries ==
  ASSUME CacheInv, IsFiniteSet(Entries'), Completed' \subseteq Completed
  PROVE  CacheInv'
<1>1. IsFiniteSet(Completed)
  BY FS_Subset DEF CacheInv, Completed
<1>2. Cardinality(Completed') <= Cardinality(Completed)
  BY <1>1, FS_Subset
<1>3. Cardinality(Completed) \in Nat /\ Cardinality(Completed') \in Nat /\ CacheSize \in Nat
  BY <1>1, FS_Subset, FS_CardinalityType, RuntimeAssumption
<1>4. Cardinality(Completed') <= CacheSize
  BY <1>2, <1>3 DEF CacheInv
<1> QED BY <1>4 DEF CacheInv

LEMMA CacheStep == ASSUME Inv, CacheInv, [Next]_vars PROVE CacheInv'
<1> USE DEF Inv, Typing
<1>1. ASSUME UNCHANGED flight PROVE CacheInv'
  BY <1>1 DEF CacheInv, Entries, Completed
<1>2. ASSUME \A i \in Id : flight'[i] \in {NoFlight, flight[i]} PROVE CacheInv'
  <2>1. Entries' \subseteq Entries /\ Completed' \subseteq Completed
    BY <1>2 DEF Entries, Completed
  <2>2. IsFiniteSet(Entries')
    BY <2>1, FS_Subset DEF CacheInv
  <2> QED BY <2>1, <2>2, FewerEntries
<1>3. ASSUME NEW t \in Task,
             Answered(t) \/ Told(t) \/ Settle(t) \/ Fail(t) \/ Cancel(t) \/ CancelAgain(t)
      PROVE  CacheInv'
  BY <1>1, <1>2, <1>3 DEF Answered, Told, Settle, Fail, Cancel, CancelAgain, Retract
<1>4. ASSUME NEW t \in Task, Clear(t) PROVE CacheInv'
  BY <1>2, <1>4 DEF Clear
<1>5. ASSUME NEW t \in Task, Lead(t) PROVE CacheInv'
  <2> DEFINE e == [req |-> req[t], leader |-> t, gen |-> generation, done |-> FALSE]
  <2>1. flight' = [flight EXCEPT ![req[t].id] = e] /\ ~e.done
    BY <1>5 DEF Lead
  <2> HIDE DEF e
  <2>2. Entries' \subseteq Entries \cup {req[t].id} /\ Completed' \subseteq Completed
    BY <2>1 DEF Entries, Completed
  <2>3. IsFiniteSet(Entries \cup {req[t].id})
    BY FS_AddElement DEF CacheInv
  <2>4. IsFiniteSet(Entries')
    BY <2>2, <2>3, FS_Subset
  <2> QED BY <2>2, <2>4, FewerEntries
<1>6. ASSUME NEW t \in Task, Finish(t) PROVE CacheInv'
  <2>1. CASE ~Leads(t)
    BY <1>1, <1>6, <2>1 DEF Finish, Publish
  <2>2. CASE Leads(t)
    <3> DEFINE i == req[t].id
               done == {k \in Entries : k = i \/ flight[k].done}
    <3>1. PICK gone \in Evictions(i) :
            flight' = [k \in Id |-> IF k \in gone THEN NoFlight
                                    ELSE IF k = i THEN [flight[k] EXCEPT !.done = TRUE]
                                    ELSE flight[k]]
      BY <1>6, <2>2 DEF Finish, Publish
    <3>2. i \in Id /\ flight[i] \in Flight
      <4>1. flight[i] = [req |-> req[t], leader |-> t, gen |-> generation, done |-> FALSE]
        BY <2>2 DEF FlightInv, SingleFlight
      <4>2. flight[i] \in Flight
        BY <4>1 DEF Flight
      <4>3. i \in Id
        BY <2>2, Requests DEF Request, Leads
      <4> QED BY <4>2, <4>3
    <3>3. i \in Entries
      BY <3>2, RuntimeAssumption DEF Entries, Flight
    <3>4. /\ gone \subseteq done
          /\ \/ Cardinality(Entries \ gone) = CacheSize
             \/ gone = done
             \/ gone = {} /\ Cardinality(Entries) <= CacheSize
      BY <3>1 DEF Evictions, Entries
    <3>5. [flight[i] EXCEPT !.done = TRUE] \in Flight
      BY <3>2 DEF Flight
    <3>6. [flight[i] EXCEPT !.done = TRUE] # NoFlight
      BY <3>5, RuntimeAssumption DEF Flight
    <3>7. Entries' = Entries \ gone
      BY <3>1, <3>3, <3>6 DEF Entries
    <3>8. Completed' \subseteq done \ gone
      <4> SUFFICES ASSUME NEW k \in Completed', k # i PROVE flight[k].done /\ k \in Entries \ gone
        BY <3>7 DEF Completed
      <4>1. k \in Entries \ gone /\ flight'[k].done
        BY <3>7 DEF Completed
      <4>2. flight'[k] = flight[k]
        BY <3>1, <4>1 DEF Entries
      <4> QED BY <4>1, <4>2
    <3>9. IsFiniteSet(Entries') /\ IsFiniteSet(Entries)
      BY <3>7, FS_Subset DEF CacheInv
    <3>10. Completed' \subseteq Entries'
      BY DEF Completed
    <3>11. /\ Cardinality(Completed') \in Nat /\ Cardinality(Entries') \in Nat
           /\ CacheSize \in Nat /\ Cardinality(Completed') <= Cardinality(Entries')
      BY <3>9, <3>10, FS_Subset, FS_CardinalityType, RuntimeAssumption
    <3>12. CASE Cardinality(Entries') <= CacheSize
      BY <3>9, <3>11, <3>12 DEF CacheInv
    <3>13. CASE gone = done
      <4>1. Completed' = {}
        BY <3>8, <3>13
      <4> QED BY <3>9, <4>1, FewerEntries
    <3>14. Cardinality(Entries') <= CacheSize \/ gone = done
      <4>1. CASE Cardinality(Entries \ gone) = CacheSize
        BY <3>7, <3>11, <4>1
      <4>2. CASE gone = {} /\ Cardinality(Entries) <= CacheSize
        <5>1. Entries' = Entries
          BY <3>7, <4>2
        <5> QED BY <4>2, <5>1
      <4> QED BY <3>4, <4>1, <4>2
    <3> QED BY <3>12, <3>13, <3>14
  <2> QED BY <2>1, <2>2
<1>7. ASSUME NEW t \in Task,
             \/ Follow(t) \/ CancelRun(t) \/ WorkerEnds(t)
             \/ \E r \in Menu : Start(t, r)
             \/ \E l \in Lock : Take(t, l) \/ Park(t, l)
      PROVE  CacheInv'
  BY <1>1, <1>7 DEF Follow, CancelRun, WorkerEnds, Start, Take, Park
<1>8. CASE UNCHANGED vars
  BY <1>1, <1>8 DEF vars
<1> QED BY <1>3, <1>4, <1>5, <1>6, <1>7, <1>8 DEF Next, Move

LEMMA NoMoreResets ==
  ASSUME ResetInv, Resets' \subseteq Resets, generation' = generation, generation \in Nat
  PROVE  ResetInv'
<1>1. IsFiniteSet(Resets') /\ Cardinality(Resets') <= Cardinality(Resets)
  BY FS_Subset DEF ResetInv
<1>2. Cardinality(Resets) \in Nat /\ Cardinality(Resets') \in Nat /\ MaxResets \in Nat
  BY <1>1, FS_CardinalityType, RuntimeAssumption DEF ResetInv
<1>3. generation' + Cardinality(Resets') <= MaxResets
  BY <1>1, <1>2 DEF ResetInv
<1> QED BY <1>1, <1>3 DEF ResetInv

LEMMA ResetStep == ASSUME Inv, ResetInv, [Next]_vars PROVE ResetInv'
<1> USE DEF Inv, Typing
<1>0. /\ IsFiniteSet(Resets) /\ Cardinality(Resets) \in Nat /\ generation \in Nat /\ MaxResets \in Nat
      /\ generation + Cardinality(Resets) <= MaxResets
  BY FS_CardinalityType, RuntimeAssumption DEF ResetInv
<1>1. ASSUME UNCHANGED <<req, generation>>, NEW t \in Task,
             \A u \in Task : u # t => pc'[u] = pc[u] \/ pc'[u] = "told",
             pc'[t] \in {"gate", "teardown"} => t \in Resets \/ ~IsReset(t)
      PROVE  ResetInv'
  <2>1. Resets' \subseteq Resets
    BY <1>1 DEF Resets, IsReset
  <2> QED BY <1>0, <1>1, <2>1, NoMoreResets
<1>2. ASSUME NEW t \in Task,
             \/ Answered(t) \/ Told(t) \/ Settle(t) \/ Finish(t) \/ Fail(t) \/ Cancel(t) \/ CancelAgain(t)
      PROVE  ResetInv'
  <2>1. UNCHANGED <<req, generation>> /\ Returns(t)
    BY <1>2 DEF Answered, Told, Settle, Finish, Fail, Cancel, CancelAgain
  <2> QED BY <1>1, <2>1 DEF Returns
<1>3. ASSUME NEW t \in Task, NEW l \in Lock, Take(t, l) PROVE ResetInv'
  <2>1. /\ UNCHANGED <<req, generation>> /\ pc' = [pc EXCEPT ![t] = After(t, l)]
        /\ pc[t] = IF l = Gate THEN "gate" ELSE "locks"
    BY <1>3 DEF Take, Asks
  <2>2. pc'[t] \in {"gate", "teardown"} => t \in Resets \/ ~IsReset(t)
    BY <2>1 DEF After, Resets
  <2> QED BY <1>1, <2>1, <2>2
<1>4. ASSUME NEW t \in Task,
             \/ Lead(t) \/ Follow(t) \/ CancelRun(t) \/ WorkerEnds(t)
             \/ \E l \in Lock : Park(t, l)
      PROVE  ResetInv'
  <2>1. /\ UNCHANGED <<req, generation>>
        /\ UNCHANGED pc \/ \E w \in {"locks", "follow", "drain"} : pc' = [pc EXCEPT ![t] = w]
    BY <1>4 DEF Lead, Follow, CancelRun, WorkerEnds, Park
  <2>2. Resets' \subseteq Resets
    BY <2>1 DEF Resets, IsReset
  <2> QED BY <1>0, <2>1, <2>2, NoMoreResets
<1>5. ASSUME NEW t \in Task, Clear(t) PROVE ResetInv'
  <2>1. /\ pc[t] = "teardown" /\ pc' = [pc EXCEPT ![t] = "settle"]
        /\ UNCHANGED req /\ generation' = generation + 1
    BY <1>5 DEF Clear
  <2>2. t \in Resets
    BY <2>1 DEF LockInv, Complete, Resetting, Resets
  <2>3. Resets' = Resets \ {t}
    BY <2>1 DEF Resets, IsReset
  <2>4. IsFiniteSet(Resets') /\ Cardinality(Resets') = Cardinality(Resets) - 1
    BY <1>0, <2>2, <2>3, FS_RemoveElement
  <2>5. generation' + Cardinality(Resets') <= MaxResets
    BY <1>0, <2>1, <2>4
  <2> QED BY <2>4, <2>5 DEF ResetInv
<1>6. ASSUME NEW t \in Task, NEW r \in Menu, Start(t, r) PROVE ResetInv'
  <2>1. /\ pc[t] = "idle" /\ pc' = [pc EXCEPT ![t] = "gate"] /\ req' = [req EXCEPT ![t] = r]
        /\ generation' = generation
        /\ r.modes[Gate] = "exclusive" => generation + Cardinality(Resets) < MaxResets
    BY <1>6 DEF Start, Resets
  <2>2. CASE r.modes[Gate] # "exclusive"
    <3>1. Resets' \subseteq Resets
      BY <2>1, <2>2 DEF Resets, IsReset
    <3> QED BY <1>0, <2>1, <3>1, NoMoreResets
  <2>3. CASE r.modes[Gate] = "exclusive"
    <3>1. t \notin Resets /\ Resets' = Resets \cup {t}
      BY <2>1, <2>3 DEF Resets, IsReset
    <3>2. IsFiniteSet(Resets') /\ Cardinality(Resets') = Cardinality(Resets) + 1
      BY <1>0, <3>1, FS_AddElement
    <3>3. generation' + Cardinality(Resets') <= MaxResets
      BY <1>0, <2>1, <2>3, <3>2
    <3> QED BY <3>2, <3>3 DEF ResetInv
  <2> QED BY <2>2, <2>3
<1>7. CASE UNCHANGED vars
  <2>1. Resets' = Resets /\ generation' = generation
    BY <1>7 DEF vars, Resets, IsReset
  <2> QED BY <1>0, <2>1, NoMoreResets
<1> QED BY <1>2, <1>3, <1>4, <1>5, <1>6, <1>7 DEF Next, Move

(* Beyond dedup_cache_size the deduplicator keeps entries in flight only,  *)
(* however many calls there are, with whatever ids, and whichever of them  *)
(* end, fail or are cancelled (RequestDeduplicator._evict).                *)
THEOREM DeduplicatorBounded == Spec => []TypeOK
<1>1. Init => CacheInv /\ ResetInv
  <2> SUFFICES ASSUME Init PROVE CacheInv /\ ResetInv
    OBVIOUS
  <2>1. Entries = {} /\ Completed = {} /\ Resets = {} /\ generation = 0
    BY DEF Init, Entries, Completed, Resets
  <2>2. IsFiniteSet({}) /\ Cardinality({}) = 0
    BY FS_EmptySet
  <2> QED BY <2>1, <2>2, RuntimeAssumption DEF CacheInv, ResetInv
<1>2. Inv /\ CacheInv /\ ResetInv /\ [Next]_vars => (CacheInv /\ ResetInv)'
  BY CacheStep, ResetStep
<1>3. Inv /\ CacheInv /\ ResetInv => TypeOK
  <2> SUFFICES ASSUME Inv, CacheInv, ResetInv PROVE TypeOK
    OBVIOUS
  <2>1. generation <= MaxResets
    <3>1. generation \in Nat /\ MaxResets \in Nat /\ Cardinality(Resets) \in Nat
      BY FS_CardinalityType, RuntimeAssumption DEF Inv, Typing, ResetInv
    <3> QED BY <3>1 DEF ResetInv
  <2>2. ASSUME Cardinality(Entries) > CacheSize, \A i \in Entries : flight[i].done PROVE FALSE
    <3>1. Completed = Entries
      BY <2>2 DEF Completed
    <3>2. Cardinality(Entries) \in Nat /\ CacheSize \in Nat
      BY FS_CardinalityType, RuntimeAssumption DEF CacheInv
    <3> QED BY <2>2, <3>1, <3>2 DEF CacheInv
  <2>3. Cardinality(Entries) > CacheSize => \E i \in Id : flight[i] # NoFlight /\ ~flight[i].done
    BY <2>2 DEF Entries
  <2> QED BY <2>1, <2>3 DEF TypeOK, Inv, Entries
<1> QED BY <1>1, <1>2, <1>3, Invariance, PTL DEF Spec

-----------------------------------------------------------------------------
(* Nobody waits for ever because of the others: locks are taken in the     *)
(* order of their keys, and the lease before them all.                     *)

(* What a task has is below what it has yet to take.                       *)
Ordered == \A t \in Task : \A l \in Holds(t), k \in Needs(t) \ Holds(t) : l < k

(* Who sleeps or queues in a lock wants it next.                           *)
Sleeping ==
  \A l \in Lock : \A t \in parked[l] \cup queue[l] :
    l \in Wanted(t) /\ pc[t] = IF l = Gate THEN "gate" ELSE "locks"

OrderInv == Ordered /\ Sleeping

LEMMA OneWanted ==
  ASSUME NEW t \in Task, NEW l \in Wanted(t), NEW k \in Wanted(t)
  PROVE  l = k
BY RuntimeAssumption DEF Wanted, Needs, Lock

(* What the end of a call leaves to the others.                            *)
LEMMA LeaveLeaves ==
  ASSUME Typing, LockInv, NEW t \in Task, Leave(t)
  PROVE  /\ \A u \in Task \ {t} : Holds(u)' = Holds(u)
         /\ Holds(t)' = {}
         /\ \A l \in Lock : parked'[l] \cup queue'[l] \subseteq (parked[l] \cup queue[l]) \ {t}
<1> USE DEF Typing
<1>1. ASSUME NEW l \in Lock
      PROVE  /\ \A u \in Task \ {t} : u \in readers'[l] \cup writers'[l] <=> u \in readers[l] \cup writers[l]
             /\ t \notin readers'[l] \cup writers'[l]
             /\ parked'[l] \cup queue'[l] \subseteq (parked[l] \cup queue[l]) \ {t}
  <2>1. /\ readers'[l] = Without(t, l, readers[l]) /\ writers'[l] = Without(t, l, writers[l])
        /\ queue'[l] = Without(t, l, queue[l])
        /\ parked'[l] = IF Wakes(t, l) THEN {} ELSE parked[l] \ {t}
    BY DEF Leave
  <2>2. Dropped(t, l) => readers[l] \cup writers[l] \subseteq {t}
    <3>1. readers[l] \cup writers[l] \subseteq refs[l]
      BY DEF LockInv, Registered
    <3> QED BY <3>1 DEF Dropped
  <2>3. CASE Dropped(t, l)
    BY <2>1, <2>2, <2>3 DEF Without
  <2>4. CASE ~Dropped(t, l)
    BY <2>1, <2>4 DEF Without
  <2> QED BY <2>3, <2>4
<1> QED BY <1>1 DEF Holds

LEMMA LeaveKeepsOrder ==
  ASSUME Typing, LockInv, OrderInv, NEW t \in Task, Leave(t), Returns(t), UNCHANGED req
  PROVE  OrderInv'
<1>1. \A u \in Task : Needs(u)' = Needs(u)
  BY DEF Needs
<1>2. Ordered'
  <2> SUFFICES ASSUME NEW u \in Task, NEW l \in Holds(u)', NEW k \in Needs(u)' \ Holds(u)'
               PROVE  l < k
    BY DEF Ordered
  <2>1. u # t /\ Holds(u)' = Holds(u) /\ Needs(u)' = Needs(u)
    BY <1>1, LeaveLeaves
  <2> QED BY <2>1 DEF OrderInv, Ordered
<1>3. Sleeping'
  <2> SUFFICES ASSUME NEW l \in Lock, NEW u \in parked'[l] \cup queue'[l]
               PROVE  l \in Wanted(u)' /\ pc'[u] = IF l = Gate THEN "gate" ELSE "locks"
    BY DEF Sleeping
  <2>1. u \in (parked[l] \cup queue[l]) \ {t} /\ u \in Task
    BY LeaveLeaves DEF Typing
  <2>2. l \in Wanted(u) /\ pc[u] = IF l = Gate THEN "gate" ELSE "locks"
    BY <2>1 DEF OrderInv, Sleeping
  <2>3. pc'[u] = pc[u]
    BY <2>1, <2>2 DEF Returns, Follows
  <2>4. Wanted(u)' = Wanted(u)
    BY <1>1, <2>1, LeaveLeaves DEF Wanted
  <2> QED BY <2>2, <2>3, <2>4
<1> QED BY <1>2, <1>3 DEF OrderInv

(* A lock is taken, or waited for, by who wants it next.                   *)
LEMMA TakeKeepsOrder ==
  ASSUME Typing, OrderInv, NEW t \in Task, NEW l \in Lock, Take(t, l)
  PROVE  OrderInv'
<1> USE DEF Typing
<1>1. /\ l \in Wanted(t) /\ t \notin parked[l] /\ UNCHANGED <<req, parked>>
      /\ queue' = [queue EXCEPT ![l] = @ \ {t}] /\ pc' = [pc EXCEPT ![t] = After(t, l)]
  BY DEF Take, Asks
<1>2. /\ readers'[l] \cup writers'[l] = readers[l] \cup writers[l] \cup {t}
      /\ \A k \in Lock : k # l => readers'[k] = readers[k] /\ writers'[k] = writers[k]
  BY DEF Take
<1>3. Holds(t)' = Holds(t) \cup {l} /\ \A u \in Task \ {t} : Holds(u)' = Holds(u)
  BY <1>2 DEF Holds
<1>4. \A u \in Task : Needs(u)' = Needs(u)
  BY <1>1 DEF Needs
<1>5. Ordered'
  <2> SUFFICES ASSUME NEW u \in Task, NEW j \in Holds(u)', NEW k \in Needs(u)' \ Holds(u)'
               PROVE  j < k
    BY DEF Ordered
  <2>1. CASE u # t
    BY <1>3, <1>4, <2>1 DEF OrderInv, Ordered
  <2>2. CASE u = t
    <3>1. k \in Needs(t) \ Holds(t) /\ k # l /\ (j \in Holds(t) \/ j = l)
      BY <1>3, <1>4, <2>2
    <3>2. l <= k /\ l \in Int /\ k \in Int
      BY <1>1, <3>1, RuntimeAssumption DEF Wanted, Needs, Lock
    <3> QED BY <3>1, <3>2 DEF OrderInv, Ordered
  <2> QED BY <2>1, <2>2
<1>6. Sleeping'
  <2> SUFFICES ASSUME NEW k \in Lock, NEW u \in parked'[k] \cup queue'[k]
               PROVE  k \in Wanted(u)' /\ pc'[u] = IF k = Gate THEN "gate" ELSE "locks"
    BY DEF Sleeping
  <2>1. u \in parked[k] \cup queue[k] /\ u \in Task /\ (u = t => k # l)
    BY <1>1
  <2>2. k \in Wanted(u) /\ pc[u] = IF k = Gate THEN "gate" ELSE "locks"
    BY <2>1 DEF OrderInv, Sleeping
  <2>3. u # t
    BY <1>1, <2>1, <2>2, OneWanted
  <2> QED BY <1>1, <1>3, <1>4, <2>1, <2>2, <2>3 DEF Wanted
<1> QED BY <1>5, <1>6 DEF OrderInv

LEMMA OrderStep ==
  ASSUME Typing, LockInv, OrderInv, [Next]_vars
  PROVE  OrderInv'
<1>1. CASE UNCHANGED vars
  BY <1>1 DEF vars, locks, OrderInv, Ordered, Sleeping, Wanted, Holds, Needs
<1>2. ASSUME NEW t \in Task,
             Answered(t) \/ Told(t) \/ Settle(t) \/ Cancel(t)
               \/ Finish(t) \/ Fail(t) \/ CancelAgain(t)
      PROVE  OrderInv'
  <2>1. Leave(t) /\ Returns(t) /\ UNCHANGED req
    BY <1>2 DEF Answered, Told, Settle, Cancel, Finish, Fail, CancelAgain
  <2> QED BY <2>1, LeaveKeepsOrder
<1>3. ASSUME NEW t \in Task, NEW l \in Lock, Park(t, l)
      PROVE  OrderInv'
  <2>1. /\ l \in Wanted(t) /\ pc[t] = IF l = Gate THEN "gate" ELSE "locks"
        /\ UNCHANGED <<req, pc, readers, writers>>
        /\ \A k \in Lock : parked'[k] \cup queue'[k] \subseteq
                             parked[k] \cup queue[k] \cup (IF k = l THEN {t} ELSE {})
    BY <1>3 DEF Park, Asks, Typing
  <2>2. Ordered'
    BY <2>1 DEF OrderInv, Ordered, Holds, Needs
  <2>3. \A u \in Task : Wanted(u)' = Wanted(u)
    BY <2>1 DEF Wanted, Holds, Needs
  <2>4. Sleeping'
    <3> SUFFICES ASSUME NEW k \in Lock, NEW u \in parked'[k] \cup queue'[k]
                 PROVE  k \in Wanted(u)' /\ pc'[u] = IF k = Gate THEN "gate" ELSE "locks"
      BY DEF Sleeping
    <3>1. u \in parked[k] \cup queue[k] \/ (k = l /\ u = t)
      BY <2>1
    <3>2. parked[k] \cup queue[k] \subseteq Task
      BY DEF Typing
    <3> QED BY <2>1, <2>3, <3>1, <3>2 DEF OrderInv, Sleeping
  <2> QED BY <2>2, <2>4 DEF OrderInv
<1>4. ASSUME NEW t \in Task, NEW r \in Menu, Start(t, r)
      PROVE  OrderInv'
  <2>1. /\ pc[t] = "idle" /\ UNCHANGED locks
        /\ req' = [req EXCEPT ![t] = r] /\ pc' = [pc EXCEPT ![t] = "gate"]
    BY <1>4 DEF Start
  <2>2. \A l \in Lock : t \notin readers[l] \cup writers[l] \cup queue[l] \cup parked[l]
    BY <2>1 DEF LockInv, Registered
  <2>3. Holds(t)' = {} /\ \A u \in Task \ {t} : /\ Holds(u)' = Holds(u) /\ Needs(u)' = Needs(u)
                                                /\ Wanted(u)' = Wanted(u) /\ pc'[u] = pc[u]
    BY <2>1, <2>2 DEF Holds, Needs, Wanted, Typing, locks
  <2>4. Ordered'
    BY <2>3 DEF OrderInv, Ordered
  <2>5. Sleeping'
    BY <2>1, <2>2, <2>3 DEF OrderInv, Sleeping, locks, Typing
  <2> QED BY <2>4, <2>5 DEF OrderInv
<1>5. ASSUME NEW t \in Task, Lead(t) \/ Follow(t) \/ Clear(t) \/ CancelRun(t) \/ WorkerEnds(t)
      PROVE  OrderInv'
  <2>1. /\ UNCHANGED <<req, locks>>
        /\ UNCHANGED pc \/ (pc[t] \notin {"gate", "locks"} /\ \E p : pc' = [pc EXCEPT ![t] = p])
    BY <1>5 DEF Lead, Follow, Clear, CancelRun, WorkerEnds
  <2>2. \A u \in Task : /\ Holds(u)' = Holds(u) /\ Needs(u)' = Needs(u) /\ Wanted(u)' = Wanted(u)
                        /\ pc[u] \in {"gate", "locks"} => pc'[u] = pc[u]
    BY <2>1 DEF Holds, Needs, Wanted, locks, Typing
  <2>3. Ordered'
    BY <2>2 DEF OrderInv, Ordered
  <2>4. Sleeping'
    BY <2>1, <2>2 DEF OrderInv, Sleeping, locks, Typing
  <2> QED BY <2>3, <2>4 DEF OrderInv
<1> QED
  BY <1>1, <1>2, <1>3, <1>4, <1>5, TakeKeepsOrder DEF Next, Move

(* A set of numbers has a least one.                                       *)
LEMMA LeastNumber ==
  ASSUME NEW N, N \subseteq Nat, N # {}
  PROVE  \E n \in N : \A k \in N : n <= k
<1> DEFINE R == OpToRel(<, Nat)
<1>1. IsWellFoundedOn(R, Nat)
  BY NatLessThanWellFounded
<1>2. \A k, n \in Nat : k < n => <<k, n>> \in R
  BY DEF OpToRel
<1> HIDE DEF R
<1>3. PICK n \in N : \A k \in N : ~(<<k, n>> \in R)
  BY <1>1, WFMin, Zenon
<1>4. ASSUME NEW k \in N PROVE n <= k
  <2>1. k \in Nat /\ n \in Nat
    OBVIOUS
  <2>2. ~(k < n)
    BY <1>2, <1>3, <2>1, Zenon
  <2> QED BY <2>1, <2>2
<1> QED BY <1>4

(* Of some locks one is the last.                                          *)
LEMMA LastLock ==
  ASSUME NEW S, S \subseteq Lock, S # {}
  PROVE  \E m \in S : \A l \in S : l <= m
<1> DEFINE N == {Keys - l : l \in S}
<1>1. N \subseteq Nat /\ N # {}
  <2>1. \A l \in S : Keys - l \in Nat
    BY RuntimeAssumption DEF Lock
  <2>2. PICK l \in S : TRUE
    OBVIOUS
  <2>3. Keys - l \in N
    BY <2>2
  <2> QED BY <2>1, <2>3
<1>2. PICK n \in N : \A k \in N : n <= k
  <2> HIDE DEF N
  <2> QED BY <1>1, LeastNumber
<1>3. PICK m \in S : n = Keys - m
  OBVIOUS
<1>4. \A l \in S : Keys - m <= Keys - l
  BY <1>2, <1>3
<1> QED BY <1>4, RuntimeAssumption DEF Lock

(* Of the tasks that are in the locks, at the lease or in a flight one can *)
(* always go on: who holds the last lock that anybody sleeps in sleeps in  *)
(* none, and who follows waits for a leader that is past the lease         *)
(* (rwlock.py; scheduler.py, acquire; dedup.py, run).                      *)
THEOREM NoneStuckHolds == Spec => []NoneStuck
<1>1. Init => OrderInv
  BY DEF Init, OrderInv, Ordered, Sleeping, Holds
<1>2. Inv /\ OrderInv /\ [Next]_vars => OrderInv'
  BY OrderStep DEF Inv
<1>3. Inv /\ OrderInv => NoneStuck
  <2> SUFFICES ASSUME Inv, OrderInv, NEW t0 \in Task, pc[t0] # "idle",
                      \A t \in Task : pc[t] \notin {"idle", "follow"} =>
                        \E l \in Lock : t \in parked[l]
               PROVE  FALSE
    BY DEF NoneStuck
  <2> USE DEF Inv
  <2> DEFINE S == {l \in Lock : parked[l] # {}}
  <2>1. \A h \in Task : pc[h] = "follow" =>
          \E u \in Task : pc[u] \in {"locks", "run", "drain"}
    BY DEF FlightInv, SingleFlight, Leads
  <2>2. \A u \in Task : pc[u] \in {"locks", "run", "drain"} =>
          \E k \in Lock \ {Gate} : u \in parked[k]
    BY DEF OrderInv, Sleeping
  <2>3. S # {}
    BY <2>1, <2>2
  <2>4. PICK m \in S : \A l \in S : l <= m
    BY <2>3, LastLock
  <2>5. PICK t \in Task : t \in parked[m]
    BY <2>4 DEF Typing
  <2>6. readers[m] \cup writers[m] # {}
    <3>1. CASE queue[m] = {}
      BY <2>5, <3>1 DEF LockInv, NoLostWakeup
    <3>2. CASE queue[m] # {}
      <4>1. PICK w \in Task : w \in queue[m]
        BY <3>2 DEF Typing
      <4>2. m \in Wanted(w) /\ pc[w] \in {"gate", "locks"} /\ req[w].modes[m] = "exclusive"
        BY <4>1 DEF OrderInv, Sleeping, LockInv, Held
      <4>3. PICK k \in Lock : w \in parked[k]
        BY <4>2
      <4>4. k = m
        BY <4>2, <4>3, OneWanted DEF OrderInv, Sleeping
      <4> QED BY <4>2, <4>3, <4>4 DEF LockInv, NoLostWakeup
    <3> QED BY <3>1, <3>2
  <2>7. PICK h \in Task : h \in readers[m] \cup writers[m]
    BY <2>6 DEF Typing
  <2>8. m \in Holds(h) /\ pc[h] # "idle" /\ (m # Gate => pc[h] # "follow")
    BY <2>7 DEF Holds, LockInv, Registered
  <2>9. CASE pc[h] = "follow"
    <3>1. PICK k \in Lock \ {Gate} : k \in S
      BY <2>1, <2>2, <2>9
    <3> QED BY <2>4, <2>8, <2>9, <3>1, RuntimeAssumption DEF Gate, Lock
  <2>10. CASE pc[h] # "follow"
    <3>1. PICK k \in Lock : h \in parked[k]
      BY <2>8, <2>10
    <3>2. k \in Needs(h) \ Holds(h) /\ k <= m
      BY <2>4, <3>1 DEF OrderInv, Sleeping, Wanted
    <3>3. m < k
      BY <2>8, <3>2 DEF OrderInv, Ordered
    <3> QED BY <3>2, <3>3, RuntimeAssumption DEF Lock
  <2> QED BY <2>9, <2>10
<1>4. Spec => []Inv
  BY Invariance
<1> QED BY <1>1, <1>2, <1>3, <1>4, PTL DEF Spec

-----------------------------------------------------------------------------
(* ToolCalls implements Workspace.  A step changes who is at work in one   *)
(* of three ways, or not at all: the last lock (for a reset the lease)     *)
(* begins it, the end of a call or of a reset ends it, and Clear renews.   *)

(* At work is who was, with the same requests.                             *)
LEMMA SameWork ==
  ASSUME Typing,
         \A u \in Task : /\ Works(u)' <=> Works(u)
                         /\ Works(u) => req'[u] = req[u]
  PROVE  AtWork' = AtWork
BY DEF AtWork

(* One who was not at work begins, and clashes with nobody.                *)
LEMMA WorkBegins ==
  ASSUME Typing, Typing', Exclusion', NEW t \in Task, ~Works(t), Works(t)', UNCHANGED <<req, generation>>,
         \A u \in Task \ {t} : Works(u)' <=> Works(u)
  PROVE  W!Begin(t, req[t])
<1>1. AtWork' = AtWork \cup {<<t, req[t]>>}
  BY DEF AtWork
<1>2. ASSUME NEW w \in AtWork
      PROVE  w[1] # t /\ <<req[t], w[2]>> \notin Clashes
  <2>1. PICK u \in Task : Works(u) /\ w = <<u, req[u]>>
    BY DEF AtWork
  <2>2. u # t /\ ~Conflict(t, u)'
    BY <2>1 DEF Exclusion
  <2> QED BY <2>1, <2>2 DEF Conflict, Clashes
<1> QED BY <1>1, <1>2 DEF W!Begin

(* One at work, and nobody else, ends.                                     *)
LEMMA WorkEnds ==
  ASSUME Typing, NEW t \in Task, Works(t), ~Works(t)', UNCHANGED <<req, generation>>,
         \A u \in Task \ {t} : Works(u)' <=> Works(u)
  PROVE  W!End(t, req[t])
<1>1. AtWork' = AtWork \ {<<t, req[t]>>}
  BY DEF AtWork
<1> QED BY <1>1 DEF W!End, AtWork

(* A step of the runtime is a step of the Workspace, or none of its own.   *)
LEMMA StepImplements ==
  ASSUME Inv, Inv', Exclusion, Exclusion', [Next]_vars
  PROVE  [W!Next]_(W!vars)
<1> USE DEF Inv
<1>1. CASE UNCHANGED vars
  BY <1>1 DEF vars, locks, W!vars, AtWork, Works, Resetting
<1> SUFFICES ASSUME NEW t \in Task,
                    \/ \E r \in Menu : Start(t, r)
                    \/ Move(t)
                    \/ Cancel(t) \/ CancelRun(t) \/ CancelAgain(t) \/ WorkerEnds(t)
             PROVE  [W!Next]_(W!vars)
  BY <1>1 DEF Next
<1>2. req[t] \in Menu /\ \A u \in running \ again : pc[u] \in {"run", "drain"}
  BY DEF Typing, LockInv, Workers
<1>3. W!Begin(t, req[t]) \/ W!End(t, req[t]) \/ W!Renew(t, req[t]) => W!Next
  BY <1>2 DEF W!Next
<1>4. AtWork' = AtWork /\ generation' = generation => [W!Next]_(W!vars)
  BY DEF W!vars
<1>5. CASE \E r \in Menu : Start(t, r)
  <2>1. /\ ~Works(t) /\ ~Works(t)' /\ UNCHANGED generation
        /\ \A u \in Task \ {t} : (Works(u)' <=> Works(u)) /\ req'[u] = req[u]
    BY <1>5 DEF Start, Works, Resetting, Typing
  <2> QED BY <1>4, <2>1, SameWork
<1>6. CASE \E l \in Lock : Take(t, l)
  <2>1. PICK l \in Lock : Take(t, l)
    BY <1>6
  <2>2. /\ pc[t] \in {"gate", "locks"} /\ UNCHANGED <<req, generation, again>>
        /\ pc' = [pc EXCEPT ![t] = After(t, l)]
        /\ running' = IF After(t, l) = "run" THEN running \cup {t} ELSE running
    BY <2>1 DEF Take, Asks
  <2>3. ~Works(t) /\ \A u \in Task \ {t} : Works(u)' <=> Works(u)
    BY <1>2, <2>2 DEF Works, Resetting, Typing
  <2>4. CASE Works(t)'
    BY <1>3, <2>2, <2>3, <2>4, WorkBegins
  <2>5. CASE ~Works(t)'
    BY <1>4, <2>2, <2>3, <2>5, SameWork
  <2> QED BY <2>4, <2>5
<1>7. CASE \/ \E l \in Lock : Park(t, l)
           \/ Lead(t) \/ Follow(t) \/ CancelRun(t) \/ WorkerEnds(t)
  <2>1. /\ UNCHANGED <<req, generation>>
        /\ \A u \in Task : Works(u)' <=> Works(u)
    BY <1>2, <1>7 DEF Park, Lead, Follow, CancelRun, WorkerEnds, Works, Resetting, Typing
  <2> QED BY <1>4, <2>1, SameWork
<1>8. CASE Clear(t)
  <2>1. /\ pc[t] = "teardown" /\ pc' = [pc EXCEPT ![t] = "settle"]
        /\ generation' = generation + 1 /\ UNCHANGED <<req, running, again>>
    BY <1>8 DEF Clear
  <2>2. Works(t) /\ req[t].modes[Gate] = "exclusive"
    BY <2>1 DEF Works, Resetting, LockInv, Complete, IsReset
  <2>3. \A u \in Task : u # t => ~Works(u)
    BY <2>2, Requests DEF Exclusion, Conflict, Needs
  <2>4. AtWork = {<<t, req[t]>>}
    BY <2>2, <2>3 DEF AtWork
  <2>5. AtWork' = AtWork
    <3>1. \A u \in Task : Works(u)' <=> Works(u)
      BY <2>1 DEF Works, Resetting, Typing
    <3> QED BY <2>1, <3>1, SameWork
  <2>6. W!Renew(t, req[t])
    BY <1>2, <2>1, <2>2, <2>4, <2>5 DEF W!Renew
  <2> QED BY <1>3, <2>6
<1>9. CASE \/ Answered(t) \/ Told(t) \/ Finish(t) \/ Fail(t) \/ Settle(t)
           \/ Cancel(t) \/ CancelAgain(t)
  <2>1. Returns(t) /\ UNCHANGED <<req, generation>>
    BY <1>9 DEF Answered, Told, Finish, Fail, Settle, Cancel, CancelAgain
  <2>2. running' \ again' = (running \ again) \ {t}
    BY <1>2, <1>9 DEF Answered, Told, Finish, Fail, Settle, Cancel, CancelAgain
  <2>3. /\ ~Works(t)'
        /\ \A u \in Task \ {t} : Works(u)' <=> Works(u)
    BY <2>1, <2>2 DEF Returns, Follows, Works, Resetting, Typing
  <2>4. CASE Works(t)
    BY <1>3, <2>1, <2>3, <2>4, WorkEnds
  <2>5. CASE ~Works(t)
    BY <1>4, <2>1, <2>3, <2>5, SameWork
  <2> QED BY <2>4, <2>5
<1> QED BY <1>5, <1>6, <1>7, <1>8, <1>9 DEF Move

(* The lease, the locks, the threads and the flights of the runtime are a  *)
(* Workspace: tools that clash take turns, and the environment is renewed  *)
(* only by one who is alone in it (service.py, rwlock.py, scheduler.py).   *)
THEOREM Implementation == Spec => Implements
<1>1. Init => W!Init
  BY DEF Init, W!Init, AtWork, Works, Resetting
<1>2. Inv /\ Inv' /\ Exclusion /\ Exclusion' /\ [Next]_vars => [W!Next]_(W!vars)
  BY StepImplements
<1> QED BY <1>1, <1>2, Invariance, ExclusionHolds, PTL DEF Spec, Implements, W!Spec

-----------------------------------------------------------------------------
(* Terminals: whose a shell is.                                            *)

Published(h) == state[h] # "none"

\* A task that may yet start a shell; it is that of no handle.
Begins(t) == pcT[t] \in {"new", "start", "swap"} \/ (pcT[t] = "wait" /\ reqT[t].kind \in T!Restarting)
Unused ==
  \A t \in Task :
    /\ Begins(t) => ~Published(t) /\ \A h \in T!Object : Published(h) => session[h] # t
    /\ Begins(t) /\ pcT[t] \in {"new", "wait"} => shell[t].life = "none"
OneHandle ==
  \A g, h \in T!Object : Published(g) /\ Published(h) /\ session[g] = session[h] => g = h

\* What a task is at tells what it was asked for.
Guarded == {"drain", "resync", "window", "signal", "swap", "abort", "teardown"}
Asked ==
  \A t \in Task :
    /\ pcT[t] \in {"new", "start"} => at[t] = {}
    /\ pcT[t] = "start" => reqT[t].kind \in T!Creating
    /\ pcT[t] \in {"swap", "teardown"} => reqT[t].kind \in T!Restarting
    /\ pcT[t] = "abort" => reqT[t].kind \in T!Creating \cup T!Restarting
    /\ pcT[t] = "close" => reqT[t].kind \in T!Closing
    /\ pcT[t] \in {"start", "wait", "swap", "teardown"} => reqT[t].id \in T!TerminalId
    /\ pcT[t] \in {"wait", "drain", "resync", "window", "signal"} => reqT[t].kind \notin T!Creating
    /\ reqT[t].kind \notin T!Creating => \A h \in at[t] : Published(h)

\* The lock of a handle is held by a task that is at work on it.
Holders ==
  \A h \in T!Object, t \in Task :
    holder[h] = t =>
      /\ h \in at[t] /\ pcT[t] \in Guarded \cup {"close"}
      /\ reqT[t].kind \notin T!Creating
      /\ pcT[t] \in Guarded => state[h] # "CLOSED"
AtOne == \A t \in Task : pcT[t] \in Guarded \cup {"wait"} => \A g, h \in at[t] : g = h

\* A place is reserved for the terminal that is being started.
Reserved ==
  /\ \A i \in T!TerminalId : creating[i] # None => terminals[i] = None
  /\ \A t \in Task : pcT[t] = "start" => creating[reqT[t].id] = t

\* A handle is registered until it is closed or a reset_all has it.
ResetFor(h) ==
  \E t \in Task : pcT[t] \in {"close", "cancelled"} /\ reqT[t].kind = "reset_all" /\ h \in at[t]
Kept ==
  \A h \in T!Object : Published(h) /\ state[h] # "CLOSED" => h \in T!Registered \/ ResetFor(h)

\* The shell of a handle lives until somebody closes it.
Lives ==
  \A h \in T!Object : Published(h) =>
    /\ shell[session[h]].life \in {"live", "closing", "closed"}
    /\ state[h] = "CLOSED" => shell[session[h]].life = "closed"
    /\ \/ shell[session[h]].life = "live"
       \/ state[h] = "CLOSED"
       \/ T!CloseCancelled(h)
       \/ \E t \in Task : holder[h] = t /\ pcT[t] = "close"
ShellOwned ==
  \A s \in T!Object : shell[s].life \in {"starting", "live"} =>
    \/ \E h \in T!Object : Published(h) /\ session[h] = s
    \/ /\ s \in Task
       /\ \/ pcT[s] \in {"start", "swap"}
          \/ pcT[s] = "cancelled" /\ reqT[s].kind \in T!Creating \cup T!Restarting

OwnInv ==
  /\ T!TypeOK /\ Unused /\ OneHandle /\ Asked /\ Holders /\ AtOne /\ Reserved /\ Kept /\ Lives
  /\ ShellOwned

-----------------------------------------------------------------------------
(* Terminals: what a shell has of its session's commands.                  *)

Waits(k, line) == \E n \in DOMAIN k.stdin : k.stdin[n] = line
Has(k, line) == k.fg = line \/ Waits(k, line)

\* A command is in one place, the session takes it for pending, and its
\* sentinel comes when it is over.  Nothing is left in a shell that has exited.
Tracked(k) ==
  /\ \A t \in Task :
       /\ Has(k, T!CommandOf(t)) => k.pending = t /\ T!CommandOf(t) \notin k.out
       /\ k.fg = T!CommandOf(t) => ~Waits(k, T!CommandOf(t))
       /\ k.fg # T!ProbeOf(t)
       /\ \A m, n \in DOMAIN k.stdin : k.stdin[m] = T!CommandOf(t) /\ k.stdin[n] = T!CommandOf(t) => m = n
  /\ k.dead \/ k.life \in {"none", "starting"} => k.stdin = <<>> /\ k.fg = None

\* A task that has written nothing yet.
Unheard(k, line) == ~Has(k, line) /\ line \notin k.out
Silent ==
  \A t \in Task, s \in T!Object :
    /\ pcT[t] \in {"new", "wait", "swap", "teardown"} => Unheard(shell[s], T!CommandOf(t))
    /\ pcT[t] \in {"new", "wait", "swap", "teardown", "signal", "drain"} => Unheard(shell[s], T!ProbeOf(t))

\* No command comes behind a probe, so that none is left when it is answered.
Behind(k, t) ==
  \A u \in Task :
    /\ T!ProbeOf(t) \in k.out => ~Has(k, T!CommandOf(u))
    /\ \A m, n \in DOMAIN k.stdin :
         k.stdin[m] = T!ProbeOf(t) /\ k.stdin[n] = T!CommandOf(u) => n < m
Probed ==
  \A t \in Task, h \in T!Object :
    holder[h] = t /\ pcT[t] = "resync" => Behind(shell[session[h]], t)

LinesInv == (\A s \in T!Object : Tracked(shell[s])) /\ Silent /\ Probed
TerminalsInv == OwnInv /\ LinesInv /\ T!QuotaHeld

-----------------------------------------------------------------------------
(* Terminals: types.                                                       *)

LEMMA Ids ==
  /\ Task \subseteq T!Object /\ Boot \in T!Object /\ Boot \notin Task
  /\ None \notin T!Object /\ None \notin Task
  /\ Default \in T!TerminalId /\ Task \subseteq T!TerminalId
  BY OpenHandsAssumption DEF T!TerminalsAssumption, T!Object, T!TerminalId

LEMMA LineTypes ==
  \A t \in Task : T!CommandOf(t) \in T!Line /\ T!ProbeOf(t) \in T!Line /\ T!TextOf(t) \in T!Line
  BY DEF T!Line, T!CommandOf, T!ProbeOf, T!TextOf

\* A shell that is changed where the code changes it.
LEMMA ShellTypes ==
  ASSUME NEW k \in T!Shell
  PROVE  /\ \A t \in Task : [k EXCEPT !.signals = @ \cup {t}] \in T!Shell
         /\ \A t \in Task, b \in BOOLEAN : [k EXCEPT !.signals = @ \ {t}, !.flag = TRUE, !.hit = b] \in T!Shell
         /\ \A life \in {"starting", "live"} : [k EXCEPT !.life = life] \in T!Shell
         /\ [k EXCEPT !.life = "closed", !.dead = TRUE] \in T!Shell
         /\ [k EXCEPT !.life = "closed", !.dead = TRUE, !.stdin = <<>>, !.fg = None, !.hit = FALSE] \in T!Shell
         /\ [k EXCEPT !.dead = TRUE, !.fg = None, !.hit = FALSE, !.stdin = <<>>] \in T!Shell
         /\ \A t \in Task : [k EXCEPT !.life = IF @ = "live" THEN "closing" ELSE @, !.killer = t] \in T!Shell
         /\ \A line \in T!Line : [k EXCEPT !.stdin = IF k.dead THEN @ ELSE Append(@, line)] \in T!Shell
         /\ \A line \in T!Line : [k EXCEPT !.stdin = IF k.dead THEN @ ELSE Append(@, line), !.flag = FALSE] \in T!Shell
         /\ \A t \in Task : [k EXCEPT !.flag = FALSE, !.pending = t, !.stdin = Append(@, T!CommandOf(t))] \in T!Shell
         /\ [k EXCEPT !.pending = None] \in T!Shell
         /\ [k EXCEPT !.out = {}] \in T!Shell
         /\ [k EXCEPT !.flag = FALSE, !.out = {}] \in T!Shell
         /\ \A p \in Task \cup {None} : [k EXCEPT !.pending = p, !.out = {}] \in T!Shell
         /\ k.stdin # <<>> =>
              /\ [k EXCEPT !.stdin = Tail(@)] \in T!Shell
              /\ \A fg \in T!Line \cup {None}, out \in SUBSET T!Line :
                   [k EXCEPT !.stdin = Tail(@), !.hit = FALSE, !.fg = fg, !.out = out] \in T!Shell
         /\ [k EXCEPT !.fg = None, !.hit = FALSE] \in T!Shell
         /\ \A out \in SUBSET T!Line : [k EXCEPT !.fg = None, !.hit = FALSE, !.out = out] \in T!Shell
<1>1. k.stdin # <<>> => Tail(k.stdin) \in Seq(T!Line)
  BY DEF T!Shell
<1>2. \A line \in T!Line : Append(k.stdin, line) \in Seq(T!Line)
  BY DEF T!Shell
<1>3. <<>> \in Seq(T!Line)
  OBVIOUS
<1>4. /\ \A t \in Task : [k EXCEPT !.signals = @ \cup {t}] \in T!Shell
      /\ \A t \in Task, b \in BOOLEAN : [k EXCEPT !.signals = @ \ {t}, !.flag = TRUE, !.hit = b] \in T!Shell
  BY DEF T!Shell
<1>5. /\ \A life \in {"starting", "live"} : [k EXCEPT !.life = life] \in T!Shell
      /\ [k EXCEPT !.life = "closed", !.dead = TRUE] \in T!Shell
      /\ \A t \in Task : [k EXCEPT !.life = IF @ = "live" THEN "closing" ELSE @, !.killer = t] \in T!Shell
  BY DEF T!Shell
<1>6. /\ [k EXCEPT !.life = "closed", !.dead = TRUE, !.stdin = <<>>, !.fg = None, !.hit = FALSE] \in T!Shell
      /\ [k EXCEPT !.dead = TRUE, !.fg = None, !.hit = FALSE, !.stdin = <<>>] \in T!Shell
  BY <1>3 DEF T!Shell
<1>7. /\ \A line \in T!Line : [k EXCEPT !.stdin = IF k.dead THEN @ ELSE Append(@, line)] \in T!Shell
      /\ \A line \in T!Line : [k EXCEPT !.stdin = IF k.dead THEN @ ELSE Append(@, line), !.flag = FALSE] \in T!Shell
  BY <1>2 DEF T!Shell
<1>8. \A t \in Task : [k EXCEPT !.flag = FALSE, !.pending = t, !.stdin = Append(@, T!CommandOf(t))] \in T!Shell
  BY <1>2, LineTypes DEF T!Shell
<1>9. /\ [k EXCEPT !.pending = None] \in T!Shell
      /\ [k EXCEPT !.out = {}] \in T!Shell
      /\ [k EXCEPT !.flag = FALSE, !.out = {}] \in T!Shell
      /\ \A p \in Task \cup {None} : [k EXCEPT !.pending = p, !.out = {}] \in T!Shell
  BY DEF T!Shell
<1>10. k.stdin # <<>> =>
         /\ [k EXCEPT !.stdin = Tail(@)] \in T!Shell
         /\ \A fg \in T!Line \cup {None}, out \in SUBSET T!Line :
              [k EXCEPT !.stdin = Tail(@), !.hit = FALSE, !.fg = fg, !.out = out] \in T!Shell
  BY <1>1 DEF T!Shell
<1>11. /\ [k EXCEPT !.fg = None, !.hit = FALSE] \in T!Shell
       /\ \A out \in SUBSET T!Line : [k EXCEPT !.fg = None, !.hit = FALSE, !.out = out] \in T!Shell
  BY DEF T!Shell
<1>12. QED
  BY <1>4, <1>5, <1>6, <1>7, <1>8, <1>9, <1>10, <1>11

LEMMA TypesStart == T!Init => T!TypeOK
<1> SUFFICES ASSUME T!Init
             PROVE  T!TypeOK
  OBVIOUS
<1> USE OpenHandsAssumption, Ids DEF T!TerminalsAssumption, T!Init
<1>1. (CHOOSE k \in Kinds : TRUE) \in T!Kind
  OBVIOUS
<1>2. T!NoShell \in T!Shell /\ T!LiveShell \in T!Shell
  <2>1. <<>> \in Seq(T!Line)
    OBVIOUS
  <2>2. T!NoShell \in T!Shell
    BY <2>1 DEF T!NoShell, T!Shell
  <2>3. QED
    BY <2>2, ShellTypes DEF T!LiveShell
<1>3. /\ terminals \in [T!TerminalId -> T!Object \cup {None}]
      /\ state \in [T!Object -> T!State] /\ shell \in [T!Object -> T!Shell]
  BY <1>2 DEF T!State
<1>4. \A h \in T!Registered : state[h] \notin {"none", "CLOSED"}
  BY DEF T!Registered
<1>5. /\ reqT \in [Task -> T!Request] /\ pcT \in [Task -> T!PC] /\ at \in [Task -> SUBSET T!Object]
      /\ creating \in [T!TerminalId -> Task \cup {None}] /\ session \in [T!Object -> T!Object]
      /\ holder \in [T!Object -> Task \cup {None}] /\ cancels \in 0 .. MaxCancels
  BY <1>1 DEF T!Request, T!PC
<1>6. waiting \in [T!Object -> Seq(Task)]
  OBVIOUS
<1>7. QED
  BY <1>3, <1>4, <1>5, <1>6 DEF T!TypeOK

LEMMA EnqueueTypes ==
  ASSUME waiting \in [T!Object -> Seq(Task)], NEW t \in Task, NEW h \in T!Object, T!Enqueue(t, h)
  PROVE  waiting' \in [T!Object -> Seq(Task)]
BY DEF T!Enqueue

LEMMA WithoutTypes ==
  ASSUME NEW q \in Seq(Task), NEW t
  PROVE  T!Without(q, t) \in Seq(Task)
<1>1. CASE \E n \in DOMAIN q : q[n] = t
  <2> DEFINE n == CHOOSE n \in DOMAIN q : q[n] = t
  <2>1. n \in 1 .. Len(q)
    BY <1>1
  <2> HIDE DEF n
  <2>2. SubSeq(q, 1, n - 1) \in Seq(Task)
    BY <2>1
  <2>4. SubSeq(q, n + 1, Len(q)) \in Seq(Task)
    BY <2>1
  <2>3. QED
    BY <1>1, <2>2, <2>4 DEF T!Without, n
<1>2. CASE ~\E n \in DOMAIN q : q[n] = t
  BY <1>2 DEF T!Without
<1>3. QED
  BY <1>1, <1>2

\* A task begins.
LEMMA BeginTypes ==
  ASSUME T!TypeOK, NEW t \in Task, T!Begin(t)
  PROVE  T!TypeOK'
<1> USE Ids DEF T!task, T!registry, T!handles, T!lock
<1>a. at \in [Task -> SUBSET T!Object]
  BY DEF T!TypeOK
<1>b. waiting \in [T!Object -> Seq(Task)]
  BY DEF T!TypeOK
<1>c. shell \in [T!Object -> T!Shell] /\ session \in [T!Object -> T!Object]
  BY DEF T!TypeOK
<1>d. state \in [T!Object -> T!State] /\ \A h \in T!Registered : state[h] \notin {"none", "CLOSED"}
  BY DEF T!TypeOK
<1>1. ASSUME NEW k \in Kinds, T!BeginCreate(t, k)
      PROVE  T!TypeOK'
  <2>1. T!IdOf(t, k) \in T!TerminalId /\ k \in T!Kind
    BY <1>1 DEF T!IdOf, T!Kind, T!BeginCreate
  <2>2. reqT' \in [Task -> T!Request] /\ pcT' \in [Task -> T!PC]
    BY <1>1, <2>1 DEF T!BeginCreate, T!Request, T!PC, T!TypeOK
  <2>3. creating' \in [T!TerminalId -> Task \cup {None}]
    BY <1>1, <2>1 DEF T!BeginCreate, T!TypeOK
  <2>8. at' \in [Task -> SUBSET T!Object]
    <3> DEFINE u == creating[T!IdOf(t, k)]
    <3>1. at' = at \/ (u # None /\ at' = [at EXCEPT ![t] = {u}])
      BY <1>1 DEF T!BeginCreate
    <3>2. u \in Task \cup {None}
      BY <2>1 DEF T!TypeOK
    <3> HIDE DEF u
    <3>3. QED
      BY <1>a, <3>1, <3>2
  <2>4. [shell[t] EXCEPT !.life = "starting"] \in T!Shell
    BY ShellTypes DEF T!TypeOK
  <2>5. shell' \in [T!Object -> T!Shell]
    BY <1>1, <1>c, <2>4 DEF T!BeginCreate
  <2>6. QED
    BY <1>1, <2>2, <2>3, <2>5, <2>8 DEF T!BeginCreate, T!Registered, T!TypeOK
<1>2. ASSUME NEW k \in Kinds, NEW i \in T!TerminalId, T!BeginOperation(t, k, i)
      PROVE  T!TypeOK'
  <2>1. k \in T!Kind
    BY OpenHandsAssumption DEF T!TerminalsAssumption
  <2>2. /\ reqT' \in [Task -> T!Request] /\ pcT' \in [Task -> T!PC]
        /\ UNCHANGED <<terminals, creating, session, holder, cancels>>
    BY <1>2, <2>1 DEF T!BeginOperation, T!Request, T!PC, T!TypeOK
  <2>3. CASE terminals[i] = None
    BY <1>2, <2>2, <2>3 DEF T!BeginOperation, T!Registered, T!TypeOK
  <2>4. CASE terminals[i] # None
    <3> DEFINE h == terminals[i]
    <3>1. h \in T!Object
      BY <2>4 DEF T!TypeOK
    <3>2. at' = [at EXCEPT ![t] = {h}]
      BY <1>2, <2>4 DEF T!BeginOperation
    <3>3. waiting' = waiting \/ waiting' = [waiting EXCEPT ![h] = Append(waiting[h], t)]
      BY <1>2, <2>4 DEF T!BeginOperation, T!Enqueue
    <3>4. shell' = shell \/ shell' = [shell EXCEPT ![session[h]] = [shell[session[h]] EXCEPT !.signals = @ \cup {t}]]
      BY <1>2, <2>4 DEF T!BeginOperation
    <3>5. state' = state \/ state' = [state EXCEPT ![h] = "CLOSING"]
      BY <1>2, <2>4 DEF T!BeginOperation
    <3> HIDE DEF h
    <3>6. at' \in [Task -> SUBSET T!Object]
      BY <1>a, <3>1, <3>2
    <3>7. waiting' \in [T!Object -> Seq(Task)]
      BY <1>b, <3>1, <3>3, EnqueueTypes DEF T!Enqueue
    <3>8. shell' \in [T!Object -> T!Shell]
      <4>1. session[h] \in T!Object /\ shell[session[h]] \in T!Shell
        BY <1>c, <3>1
      <4>2. [shell[session[h]] EXCEPT !.signals = @ \cup {t}] \in T!Shell
        BY <4>1, ShellTypes
      <4>3. QED
        BY <1>c, <3>4, <4>1, <4>2
    <3>9. state' \in [T!Object -> T!State] /\ \A g \in T!Registered : state'[g] \notin {"none", "CLOSED"}
      BY <1>d, <3>1, <3>5 DEF T!State, T!Registered
    <3>10. QED
      BY <2>2, <3>6, <3>7, <3>8, <3>9 DEF T!Registered, T!TypeOK
  <2>5. QED
    BY <2>3, <2>4
<1>3. CASE T!BeginResetAll(t)
  <2>1. "reset_all" \in T!Kind
    BY DEF T!Kind, T!Closing
  <2>2. reqT' \in [Task -> T!Request] /\ pcT' \in [Task -> T!PC]
    BY <1>3, <2>1 DEF T!BeginResetAll, T!Request, T!PC, T!TypeOK
  <2>3. at' \in [Task -> SUBSET T!Object] /\ waiting' \in [T!Object -> Seq(Task)]
    BY <1>3 DEF T!BeginResetAll, T!Registered, T!TypeOK
  <2>4. state' \in [T!Object -> T!State] /\ terminals' \in [T!TerminalId -> T!Object \cup {None}]
    BY <1>3 DEF T!BeginResetAll, T!State, T!TypeOK
  <2>5. \A h \in T!Object : h \notin T!Registered'
    BY <1>3 DEF T!BeginResetAll, T!Registered, T!TypeOK
  <2>6. QED
    BY <1>3, <2>2, <2>3, <2>4, <2>5 DEF T!BeginResetAll, T!Registered, T!TypeOK
<1>4. QED
  BY <1>1, <1>2, <1>3 DEF T!Begin

\* A task goes on without a handle.
LEMMA AsideTypes ==
  ASSUME T!TypeOK, NEW t \in Task, T!JoinEnds(t) \/ T!Publish(t) \/ T!Withdraw(t) \/ T!Acknowledge(t) \/ T!Cancel(t),
         pcT[t] = "start" => reqT[t].id \in T!TerminalId
  PROVE  T!TypeOK'
<1> USE Ids DEF T!TypeOK, T!task, T!registry, T!handles, T!lock
<1>1. pcT' \in [Task -> T!PC]
  BY DEF T!JoinEnds, T!Publish, T!Withdraw, T!Acknowledge, T!Cancel, T!PC
<1>2. CASE T!JoinEnds(t) \/ T!Acknowledge(t)
  BY <1>1, <1>2 DEF T!JoinEnds, T!Acknowledge, T!Registered
<1>3. CASE T!Publish(t)
  BY <1>1, <1>3 DEF T!Publish, T!Registered, T!State
<1>4. CASE T!Withdraw(t)
  BY <1>1, <1>4 DEF T!Withdraw, T!Freed, T!Registered
<1>5. CASE T!Cancel(t)
  <2>1. \A h \in T!Object : T!Without(waiting[h], t) \in Seq(Task)
    BY WithoutTypes
  <2>2. [shell[t] EXCEPT !.life = IF @ = "live" THEN "closing" ELSE @, !.killer = t] \in T!Shell
    BY ShellTypes
  <2>3. shell' \in [T!Object -> T!Shell]
    BY <1>5, <2>2 DEF T!Cancel, T!KillBy
  <2>4. waiting' \in [T!Object -> Seq(Task)] /\ holder' \in [T!Object -> Task \cup {None}]
    BY <1>5, <2>1 DEF T!Cancel, T!Leaves
  <2>5. creating' \in [T!TerminalId -> Task \cup {None}]
    BY <1>5 DEF T!Cancel, T!Freed
  <2>6. cancels' \in 0 .. MaxCancels
    BY <1>5, OpenHandsAssumption DEF T!Cancel, T!TerminalsAssumption
  <2>7. QED
    BY <1>1, <1>5, <2>3, <2>4, <2>5, <2>6 DEF T!Cancel, T!Registered
<1>6. QED
  BY <1>2, <1>3, <1>4, <1>5

LEMMA TurnTypes ==
  ASSUME waiting \in [T!Object -> Seq(Task)], NEW t \in Task, NEW h \in T!Object, T!Turn(t, h)
  PROVE  waiting' \in [T!Object -> Seq(Task)]
BY DEF T!Turn

LEMMA ShellChange ==
  ASSUME shell \in [T!Object -> T!Shell], NEW s \in T!Object, NEW k \in T!Shell, shell' = [shell EXCEPT ![s] = k]
  PROVE  shell' \in [T!Object -> T!Shell]
OBVIOUS

\* An operation takes the lock of its handle, or is refused.
Entering(t, h) ==
  \/ T!Reject(t, h) \/ T!Execute(t, h) \/ T!Input(t, h) \/ T!Poll(t, h) \/ T!Interrupt(t, h)
  \/ T!Reset(t, h) \/ T!Close(t, h)
LEMMA EnteringShell ==
  ASSUME T!TypeOK, NEW t \in Task, NEW h \in T!Object, Entering(t, h)
  PROVE  shell' \in [T!Object -> T!Shell]
<1> DEFINE k == shell[session[h]]
<1>1. shell \in [T!Object -> T!Shell] /\ session[h] \in T!Object /\ k \in T!Shell
  BY DEF T!TypeOK
<1>2. CASE shell' = shell
  BY <1>1, <1>2
<1>3. CASE T!Execute(t, h)
  <2>1. shell' = shell \/ shell' = [shell EXCEPT ![session[h]] =
          [k EXCEPT !.flag = FALSE, !.pending = t, !.stdin = Append(@, T!CommandOf(t))]]
    BY <1>1, <1>3 DEF T!Execute, T!Refuse
  <2>2. [k EXCEPT !.flag = FALSE, !.pending = t, !.stdin = Append(@, T!CommandOf(t))] \in T!Shell
    BY <1>1, ShellTypes
  <2>3. QED
    BY <1>1, <2>1, <2>2, ShellChange
<1>4. CASE T!Input(t, h)
  <2>1. shell' = shell \/ shell' = [shell EXCEPT ![session[h]] =
          [k EXCEPT !.stdin = IF k.dead THEN @ ELSE Append(@, T!TextOf(t))]]
    BY <1>1, <1>4 DEF T!Input, T!Refuse, T!Type
  <2>2. [k EXCEPT !.stdin = IF k.dead THEN @ ELSE Append(@, T!TextOf(t))] \in T!Shell
    BY <1>1, ShellTypes, LineTypes
  <2>3. QED
    BY <1>1, <2>1, <2>2, ShellChange
<1>5. CASE T!Interrupt(t, h)
  <2>1. shell' = shell \/ shell' = [shell EXCEPT ![session[h]] = [k EXCEPT !.signals = @ \cup {t}]]
    BY <1>1, <1>5 DEF T!Interrupt, T!Refuse
  <2>2. [k EXCEPT !.signals = @ \cup {t}] \in T!Shell
    BY <1>1, ShellTypes
  <2>3. QED
    BY <1>1, <2>1, <2>2, ShellChange
<1>6. CASE T!Reset(t, h)
  <2>1. shell' = [shell EXCEPT ![t] = [shell[t] EXCEPT !.life = "starting"]]
    BY <1>6 DEF T!Reset
  <2>2. t \in T!Object /\ shell[t] \in T!Shell
    BY <1>1, Ids
  <2>3. [shell[t] EXCEPT !.life = "starting"] \in T!Shell
    BY <2>2, ShellTypes
  <2>4. QED
    BY <1>1, <2>1, <2>2, <2>3, ShellChange
<1>7. CASE T!Close(t, h)
  <2>1. shell' = [shell EXCEPT ![session[h]] = [k EXCEPT !.life = IF @ = "live" THEN "closing" ELSE @, !.killer = t]]
    BY <1>1, <1>7 DEF T!Close, T!KillBy
  <2>2. [k EXCEPT !.life = IF @ = "live" THEN "closing" ELSE @, !.killer = t] \in T!Shell
    BY <1>1, ShellTypes
  <2>3. QED
    BY <1>1, <2>1, <2>2, ShellChange
<1>8. CASE T!Reject(t, h) \/ T!Poll(t, h)
  BY <1>1, <1>8 DEF T!Reject, T!Poll, T!Refuse
<1>9. QED
  BY <1>3, <1>4, <1>5, <1>6, <1>7, <1>8 DEF Entering

LEMMA EnteringTypes ==
  ASSUME T!TypeOK, NEW t \in Task, NEW h \in T!Object, Entering(t, h)
  PROVE  T!TypeOK'
<1>1. shell' \in [T!Object -> T!Shell]
  BY EnteringShell
<1>2. waiting' \in [T!Object -> Seq(Task)]
  BY TurnTypes DEF T!TypeOK, Entering, T!Reject, T!Execute, T!Input, T!Poll, T!Interrupt, T!Reset, T!Close, T!Allowed
<1>3. pcT' \in [Task -> T!PC] /\ holder' \in [T!Object -> Task \cup {None}]
  <2>1. \/ holder' = holder /\ pcT' = [pcT EXCEPT ![t] = "done"]
        \/ /\ holder' = [holder EXCEPT ![h] = t]
           /\ \E p \in {"drain", "window", "signal", "swap", "close"} : pcT' = [pcT EXCEPT ![t] = p]
    BY DEF Entering, T!Reject, T!Execute, T!Input, T!Poll, T!Interrupt, T!Reset, T!Close, T!Hold, T!Refuse
  <2>2. pcT \in [Task -> T!PC] /\ holder \in [T!Object -> Task \cup {None}]
    BY DEF T!TypeOK
  <2>3. \A p \in {"drain", "window", "signal", "swap", "close", "done"} : [pcT EXCEPT ![t] = p] \in [Task -> T!PC]
    BY <2>2 DEF T!PC
  <2>4. holder' \in [T!Object -> Task \cup {None}]
    BY <2>1, <2>2
  <2>5. QED
    BY <2>1, <2>3, <2>4
<1>4. state' = state \/ state' = [state EXCEPT ![h] = "LOST"]
  BY DEF Entering, T!Reject, T!Execute, T!Input, T!Poll, T!Interrupt, T!Reset, T!Close, T!Refuse, T!handles
<1>5. state' \in [T!Object -> T!State] /\ \A g \in T!Registered : state'[g] \notin {"none", "CLOSED"}
  BY <1>4 DEF T!TypeOK, T!State, T!Registered
<1>6. UNCHANGED <<reqT, at, terminals, creating, session, cancels>>
  BY DEF Entering, T!Reject, T!Execute, T!Input, T!Poll, T!Interrupt, T!Reset, T!Close, T!registry, T!handles
<1>7. QED
  BY <1>1, <1>2, <1>3, <1>5, <1>6 DEF T!TypeOK, T!Registered

\* An operation that has the lock goes on.
WorkingOn(t, h) ==
  \/ T!Drain(t, h) \/ T!Resync(t, h) \/ T!Synced(t, h) \/ T!Discard(t, h) \/ T!Window(t, h)
  \/ T!Signalled(t, h) \/ T!Swap(t, h) \/ T!KeepOld(t, h) \/ T!TornDown(t, h) \/ T!Closed(t, h)
LEMMA WorkingShell ==
  ASSUME T!TypeOK, NEW t \in Task, NEW h \in T!Object, WorkingOn(t, h)
  PROVE  shell' \in [T!Object -> T!Shell]
<1> DEFINE k == shell[session[h]]
<1>1. shell \in [T!Object -> T!Shell] /\ session[h] \in T!Object /\ k \in T!Shell
  BY DEF T!TypeOK
<1>2. k.pending \in Task \cup {None}
  BY <1>1 DEF T!Shell
<1>3. \A new \in T!Shell : shell' = [shell EXCEPT ![session[h]] = new] => shell' \in [T!Object -> T!Shell]
  BY <1>1, ShellChange
<1>4. CASE T!Drain(t, h)
  <2>1. \/ shell' = shell
        \/ shell' = [shell EXCEPT ![session[h]] = [k EXCEPT !.pending = None, !.out = {}]]
        \/ shell' = [shell EXCEPT ![session[h]] = [k EXCEPT !.pending = None]]
    BY <1>1, <1>4 DEF T!Drain
  <2>2. QED
    BY <1>1, <1>3, <2>1, ShellTypes
<1>5. CASE T!Resync(t, h)
  <2>1. shell' = [shell EXCEPT ![session[h]] =
          [k EXCEPT !.stdin = IF k.dead THEN @ ELSE Append(@, T!ProbeOf(t)), !.flag = FALSE]]
    BY <1>1, <1>5 DEF T!Resync, T!Type
  <2>2. [k EXCEPT !.stdin = IF k.dead THEN @ ELSE Append(@, T!ProbeOf(t)), !.flag = FALSE] \in T!Shell
    BY <1>1, ShellTypes, LineTypes
  <2>3. QED
    BY <1>3, <2>1, <2>2
<1>6. CASE T!Synced(t, h)
  <2>1. \/ shell' = [shell EXCEPT ![session[h]] = [k EXCEPT !.pending = None, !.out = {}]]
        \/ shell' = [shell EXCEPT ![session[h]] = [k EXCEPT !.pending = k.pending, !.out = {}]]
    BY <1>1, <1>6 DEF T!Synced, T!StillPending
  <2>2. QED
    BY <1>1, <1>2, <1>3, <2>1, ShellTypes
<1>7. CASE T!Discard(t, h)
  <2>1. shell' = [shell EXCEPT ![session[h]] = [k EXCEPT !.out = {}]]
    BY <1>1, <1>7 DEF T!Discard
  <2>2. QED
    BY <1>1, <1>3, <2>1, ShellTypes
<1>8. CASE T!Window(t, h)
  <2>1. shell' = shell \/ shell' = [shell EXCEPT ![session[h]] = [k EXCEPT !.flag = FALSE, !.out = {}]]
    BY <1>1, <1>8 DEF T!Window
  <2>2. QED
    BY <1>1, <1>3, <2>1, ShellTypes
<1>9. CASE T!Swap(t, h)
  <2>1. shell' = [shell EXCEPT ![session[h]] = [k EXCEPT !.life = IF @ = "live" THEN "closing" ELSE @, !.killer = t]]
    BY <1>1, <1>9 DEF T!Swap, T!KillBy, T!Old
  <2>2. [k EXCEPT !.life = IF @ = "live" THEN "closing" ELSE @, !.killer = t] \in T!Shell
    BY <1>1, ShellTypes
  <2>3. QED
    BY <1>3, <2>1, <2>2
<1>10. CASE T!Signalled(t, h) \/ T!KeepOld(t, h) \/ T!TornDown(t, h) \/ T!Closed(t, h)
  BY <1>1, <1>10 DEF T!Signalled, T!KeepOld, T!TornDown, T!Closed
<1>11. QED
  BY <1>4, <1>5, <1>6, <1>7, <1>8, <1>9, <1>10 DEF WorkingOn

LEMMA WorkingTypes ==
  ASSUME T!TypeOK, NEW t \in Task, NEW h \in T!Object, WorkingOn(t, h), reqT[t].id \in T!TerminalId \/ ~T!TornDown(t, h)
  PROVE  T!TypeOK'
<1> USE DEF T!task, T!registry, T!handles, T!lock, T!Apply
<1>1. shell' \in [T!Object -> T!Shell]
  BY WorkingShell
<1>2. CASE T!Drain(t, h) \/ T!Resync(t, h) \/ T!Synced(t, h) \/ T!Discard(t, h) \/ T!Window(t, h) \/ T!Signalled(t, h)
           \/ T!KeepOld(t, h)
  <2>1. pcT' \in [Task -> T!PC] /\ holder' \in [T!Object -> Task \cup {None}]
    BY <1>2 DEF T!TypeOK, T!PC, T!Drain, T!Resync, T!Synced, T!Discard, T!Window, T!Signalled, T!KeepOld
  <2>2. state' = state \/ \E s \in {"READY", "RUNNING", "LOST"} : state' = [state EXCEPT ![h] = s]
    BY <1>2 DEF T!Drain, T!Resync, T!Synced, T!Discard, T!Window, T!Signalled, T!KeepOld
  <2>3. state' \in [T!Object -> T!State] /\ \A g \in T!Registered : state'[g] \notin {"none", "CLOSED"}
    BY <2>2 DEF T!TypeOK, T!State, T!Registered
  <2>4. UNCHANGED <<reqT, at, terminals, creating, session, waiting, cancels>>
    BY <1>2 DEF T!Drain, T!Resync, T!Synced, T!Discard, T!Window, T!Signalled, T!KeepOld
  <2>5. QED
    BY <1>1, <2>1, <2>3, <2>4 DEF T!TypeOK, T!Registered
<1>3. CASE T!Swap(t, h)
  <2>1. pcT' \in [Task -> T!PC] /\ session' \in [T!Object -> T!Object]
    BY <1>3, Ids DEF T!TypeOK, T!PC, T!Swap
  <2>2. state' \in [T!Object -> T!State] /\ \A g \in T!Registered : state'[g] \notin {"none", "CLOSED"}
    BY <1>3 DEF T!TypeOK, T!State, T!Registered, T!Swap
  <2>3. QED
    BY <1>1, <1>3, <2>1, <2>2 DEF T!TypeOK, T!Registered, T!Swap
<1>4. CASE T!TornDown(t, h)
  <2>1. pcT' \in [Task -> T!PC] /\ holder' \in [T!Object -> Task \cup {None}]
    BY <1>4 DEF T!TypeOK, T!PC, T!TornDown
  <2>2. UNCHANGED <<terminals, creating, state, session, cancels>>
    BY <1>4 DEF T!TornDown
  <2>3. CASE UNCHANGED <<reqT, at, waiting>>
    BY <1>1, <2>1, <2>2, <2>3 DEF T!TypeOK, T!Registered
  <2>4. CASE reqT[t].kind = "restart" /\ terminals[reqT[t].id] # None
    <3> DEFINE g == terminals[reqT[t].id]
    <3>1. g \in T!Object
      BY <1>4, <2>4 DEF T!TypeOK
    <3>2. /\ reqT' = [reqT EXCEPT ![t].kind = "execute"] /\ at' = [at EXCEPT ![t] = {g}]
          /\ T!Enqueue(t, g)
      BY <1>4, <2>4 DEF T!TornDown
    <3> HIDE DEF g
    <3>3. waiting' \in [T!Object -> Seq(Task)]
      BY <3>1, <3>2, EnqueueTypes DEF T!TypeOK
    <3>4. at' \in [Task -> SUBSET T!Object]
      BY <3>1, <3>2 DEF T!TypeOK
    <3>5. reqT' \in [Task -> T!Request]
      BY <3>2 DEF T!TypeOK, T!Request, T!Kind, T!Operating
    <3>6. QED
      BY <1>1, <2>1, <2>2, <3>3, <3>4, <3>5 DEF T!TypeOK, T!Registered
  <2>5. QED
    BY <1>4, <2>3, <2>4 DEF T!TornDown
<1>5. CASE T!Closed(t, h)
  <2>1. pcT' \in [Task -> T!PC] /\ holder' \in [T!Object -> Task \cup {None}] /\ at' \in [Task -> SUBSET T!Object]
    BY <1>5 DEF T!TypeOK, T!PC, T!Closed
  <2>2. terminals' \in [T!TerminalId -> T!Object \cup {None}] /\ state' \in [T!Object -> T!State]
    BY <1>5 DEF T!TypeOK, T!Closed, T!Unregistered, T!State
  <2>3. \A g \in T!Registered' : g \in T!Registered /\ g # h
    BY <1>5, Ids DEF T!Registered, T!Closed, T!Unregistered, T!TypeOK
  <2>4. \A g \in T!Registered' : state'[g] \notin {"none", "CLOSED"}
    BY <1>5, <2>3 DEF T!Closed, T!TypeOK, T!Registered
  <2>5. QED
    BY <1>1, <1>5, <2>1, <2>2, <2>4 DEF T!TypeOK, T!Closed
<1>6. QED
  BY <1>2, <1>3, <1>4, <1>5 DEF WorkingOn

\* A shell goes on.
Living(s) == T!Thread(s) \/ T!ShellRuns(s)
LEMMA LivingTypes ==
  ASSUME T!TypeOK, NEW s \in T!Object, Living(s)
  PROVE  T!TypeOK'
<1> DEFINE k == shell[s]
<1>1. shell \in [T!Object -> T!Shell] /\ k \in T!Shell
  BY DEF T!TypeOK
<1>2. \A new \in T!Shell : shell' = [shell EXCEPT ![s] = new] => shell' \in [T!Object -> T!Shell]
  BY <1>1, ShellChange
<1>3. UNCHANGED <<reqT, pcT, at, terminals, creating, state, session, holder, waiting, cancels>>
  BY DEF Living, T!Thread, T!ShellRuns, T!Spawn, T!Kill, T!Signal, T!ReadsLine, T!TakesInput, T!Ends, T!Exits, T!Outside,
     T!task, T!registry, T!handles, T!lock
<1>4. ASSUME T!Thread(s) PROVE shell' \in [T!Object -> T!Shell]
  <2>1. \/ shell' = [shell EXCEPT ![s] = [k EXCEPT !.life = "live"]]
        \/ shell' = [shell EXCEPT ![s] = [k EXCEPT !.life = "closed", !.dead = TRUE]]
        \/ shell' = [shell EXCEPT ![s] =
             [k EXCEPT !.life = "closed", !.dead = TRUE, !.stdin = <<>>, !.fg = None, !.hit = FALSE]]
        \/ \E t \in Task : shell' = [shell EXCEPT ![s] =
             [k EXCEPT !.signals = @ \ {t}, !.flag = TRUE, !.hit = (k.fg # None)]]
    BY <1>1, <1>4 DEF T!Thread, T!Spawn, T!Kill, T!Signal
  <2>2. \A t \in Task : [k EXCEPT !.signals = @ \ {t}, !.flag = TRUE, !.hit = (k.fg # None)] \in T!Shell
    BY <1>1, ShellTypes
  <2>3. QED
    BY <1>1, <1>2, <2>1, <2>2, ShellTypes
<1>5. ASSUME T!ReadsLine(s) PROVE shell' \in [T!Object -> T!Shell]
  <2> DEFINE line == Head(k.stdin)
             fg == IF line.what = "probe" THEN None ELSE line
             out == IF line.what = "probe" THEN k.out \cup {line} ELSE k.out
  <2>1. shell' = [shell EXCEPT ![s] = [k EXCEPT !.stdin = Tail(@), !.hit = FALSE, !.fg = fg, !.out = out]]
    BY <1>1, <1>5 DEF T!ReadsLine
  <2>2. k.stdin \in Seq(T!Line) /\ k.stdin # <<>> /\ k.out \subseteq T!Line
    BY <1>1, <1>5 DEF T!ReadsLine, T!Shell
  <2>3. line \in T!Line
    BY <2>2
  <2>4. fg \in T!Line \cup {None} /\ out \in SUBSET T!Line
    BY <2>2, <2>3
  <2> HIDE DEF fg, out
  <2>5. [k EXCEPT !.stdin = Tail(@), !.hit = FALSE, !.fg = fg, !.out = out] \in T!Shell
    BY <1>1, <2>2, <2>4, ShellTypes
  <2>6. QED
    BY <1>2, <2>1, <2>5
<1>6. ASSUME T!TakesInput(s) PROVE shell' \in [T!Object -> T!Shell]
  <2>1. shell' = [shell EXCEPT ![s] = [k EXCEPT !.stdin = Tail(@)]] /\ k.stdin # <<>>
    BY <1>1, <1>6 DEF T!TakesInput
  <2>2. QED
    BY <1>1, <1>2, <2>1, ShellTypes
<1>7. ASSUME T!Ends(s) PROVE shell' \in [T!Object -> T!Shell]
  <2> DEFINE out == IF k.fg.what = "command" THEN k.out \cup {k.fg} ELSE k.out
  <2>1. \/ shell' = [shell EXCEPT ![s] = [k EXCEPT !.fg = None, !.hit = FALSE, !.out = out]]
        \/ shell' = [shell EXCEPT ![s] = [k EXCEPT !.fg = None, !.hit = FALSE]]
    BY <1>1, <1>7 DEF T!Ends
  <2>2. k.fg \in T!Line /\ k.out \subseteq T!Line
    BY <1>1, <1>7 DEF T!Ends, T!Shell
  <2>3. out \in SUBSET T!Line
    BY <2>2
  <2> HIDE DEF out
  <2>4. [k EXCEPT !.fg = None, !.hit = FALSE, !.out = out] \in T!Shell
    BY <1>1, <2>3, ShellTypes
  <2>5. [k EXCEPT !.fg = None, !.hit = FALSE] \in T!Shell
    BY <1>1, ShellTypes
  <2>6. QED
    BY <1>2, <2>1, <2>4, <2>5
<1>8. ASSUME T!Exits(s) PROVE shell' \in [T!Object -> T!Shell]
  <2>1. shell' = [shell EXCEPT ![s] = [k EXCEPT !.dead = TRUE, !.fg = None, !.hit = FALSE, !.stdin = <<>>]]
    BY <1>1, <1>8 DEF T!Exits
  <2>2. QED
    BY <1>1, <1>2, <2>1, ShellTypes
<1>9. shell' \in [T!Object -> T!Shell]
  BY <1>4, <1>5, <1>6, <1>7, <1>8 DEF Living, T!ShellRuns
<1>10. QED
  BY <1>3, <1>9 DEF T!TypeOK, T!Registered

-----------------------------------------------------------------------------
(* Terminals: steps seen from the handles.                                 *)

\* What the invariant needs of the types.
LEMMA OwnTypes ==
  ASSUME T!TypeOK
  PROVE  /\ pcT \in [Task -> T!PC] /\ at \in [Task -> SUBSET T!Object]
         /\ reqT \in [Task -> T!Request]
         /\ terminals \in [T!TerminalId -> T!Object \cup {None}]
         /\ creating \in [T!TerminalId -> Task \cup {None}]
         /\ state \in [T!Object -> T!State] /\ session \in [T!Object -> T!Object]
         /\ holder \in [T!Object -> Task \cup {None}]
         /\ \A h \in T!Registered : h \in T!Object /\ Published(h) /\ state[h] # "CLOSED"
  BY Ids DEF T!TypeOK, Published, T!Registered

LifeKept == \A s \in T!Object : shell'[s].life = shell[s].life

LEMMA LifeIsKept ==
  ASSUME T!TypeOK, NEW t \in Task, NEW h \in T!Object,
         \/ T!Reject(t, h) \/ T!Execute(t, h) \/ T!Input(t, h) \/ T!Poll(t, h) \/ T!Interrupt(t, h)
         \/ T!Drain(t, h) \/ T!Resync(t, h) \/ T!Synced(t, h) \/ T!Discard(t, h) \/ T!Window(t, h)
         \/ T!Signalled(t, h) \/ T!KeepOld(t, h) \/ T!TornDown(t, h) \/ T!Closed(t, h)
  PROVE  LifeKept
<1>1. shell \in [T!Object -> T!Shell] /\ session \in [T!Object -> T!Object]
  BY DEF T!TypeOK
<1> DEFINE k == shell[session[h]]
<1>2. CASE T!Execute(t, h) \/ T!Input(t, h) \/ T!Interrupt(t, h)
  <2>1. k \in T!Shell
    BY <1>1
  <2>2. \/ shell' = shell
        \/ shell' = [shell EXCEPT ![session[h]] =
             [k EXCEPT !.flag = FALSE, !.pending = t, !.stdin = Append(@, T!CommandOf(t))]]
        \/ shell' = [shell EXCEPT ![session[h]] = [k EXCEPT !.stdin = IF k.dead THEN @ ELSE Append(@, T!TextOf(t))]]
        \/ shell' = [shell EXCEPT ![session[h]] = [k EXCEPT !.signals = @ \cup {t}]]
    BY <1>1, <1>2 DEF T!Execute, T!Input, T!Interrupt, T!Refuse, T!Type
  <2>3. /\ [k EXCEPT !.flag = FALSE, !.pending = t, !.stdin = Append(@, T!CommandOf(t))].life = k.life
        /\ [k EXCEPT !.stdin = IF k.dead THEN @ ELSE Append(@, T!TextOf(t))].life = k.life
        /\ [k EXCEPT !.signals = @ \cup {t}].life = k.life
    BY <2>1 DEF T!Shell
  <2>4. QED
    BY <1>1, <2>2, <2>3 DEF LifeKept
<1>3. CASE T!Drain(t, h) \/ T!Synced(t, h) \/ T!Discard(t, h) \/ T!Window(t, h)
  <2> DEFINE Becomes(new) == shell' = [shell EXCEPT ![session[h]] = new]
  <2>1. k \in T!Shell
    BY <1>1
  <2>2. CASE T!Drain(t, h)
    <3>1. shell' = shell \/ Becomes([k EXCEPT !.pending = None, !.out = {}]) \/ Becomes([k EXCEPT !.pending = None])
      BY <1>1, <2>2 DEF T!Drain
    <3>2. [k EXCEPT !.pending = None, !.out = {}].life = k.life /\ [k EXCEPT !.pending = None].life = k.life
      BY <2>1 DEF T!Shell
    <3>3. QED
      BY <1>1, <3>1, <3>2 DEF LifeKept
  <2>3. CASE T!Synced(t, h)
    <3>1. \/ Becomes([k EXCEPT !.pending = None, !.out = {}])
          \/ Becomes([k EXCEPT !.pending = k.pending, !.out = {}])
      BY <1>1, <2>3 DEF T!Synced, T!StillPending
    <3>2. /\ [k EXCEPT !.pending = None, !.out = {}].life = k.life
          /\ [k EXCEPT !.pending = k.pending, !.out = {}].life = k.life
      BY <2>1 DEF T!Shell
    <3>3. QED
      BY <1>1, <3>1, <3>2 DEF LifeKept
  <2>4. CASE T!Discard(t, h) \/ T!Window(t, h)
    <3>1. shell' = shell \/ Becomes([k EXCEPT !.out = {}]) \/ Becomes([k EXCEPT !.flag = FALSE, !.out = {}])
      BY <1>1, <2>4 DEF T!Discard, T!Window
    <3>2. [k EXCEPT !.out = {}].life = k.life /\ [k EXCEPT !.flag = FALSE, !.out = {}].life = k.life
      BY <2>1 DEF T!Shell
    <3>3. QED
      BY <1>1, <3>1, <3>2 DEF LifeKept
  <2>5. QED
    BY <1>3, <2>2, <2>3, <2>4
<1>4. CASE T!Resync(t, h)
  BY <1>1, <1>4 DEF LifeKept, T!Shell, T!Resync, T!Type
<1>5. CASE T!Reject(t, h) \/ T!Poll(t, h) \/ T!Signalled(t, h) \/ T!KeepOld(t, h) \/ T!TornDown(t, h) \/ T!Closed(t, h)
  BY <1>1, <1>5 DEF LifeKept, T!Reject, T!Poll, T!Refuse, T!Signalled, T!KeepOld, T!TornDown, T!Closed
<1>6. QED
  BY <1>2, <1>3, <1>4, <1>5

\* An operation is refused, or starts to work on its handle.
Enters(t, h) ==
  /\ pcT[t] = "wait" /\ h \in at[t] /\ LifeKept
  /\ UNCHANGED <<reqT, at, terminals, creating, session>>
  /\ \/ /\ pcT' = [pcT EXCEPT ![t] = "done"] /\ holder' = holder
        /\ state' = state \/ (~T!TurnsAway(h) /\ state' = [state EXCEPT ![h] = "LOST"])
     \/ /\ ~T!TurnsAway(h) /\ holder[h] = None /\ holder' = [holder EXCEPT ![h] = t] /\ state' = state
        /\ \E p \in {"drain", "window", "signal"} : pcT' = [pcT EXCEPT ![t] = p]
LEMMA EntersOr ==
  ASSUME T!TypeOK, NEW t \in Task, NEW h \in T!Object,
         T!Reject(t, h) \/ T!Execute(t, h) \/ T!Input(t, h) \/ T!Poll(t, h) \/ T!Interrupt(t, h)
  PROVE  Enters(t, h)
<1>1. LifeKept
  BY LifeIsKept
<1>2. QED
  BY <1>1 DEF Enters, T!Reject, T!Execute, T!Input, T!Poll, T!Interrupt, T!Allowed, T!Turn, T!Refuse, T!Hold, T!registry, T!handles

\* A restart looks its terminal up again.
Again(t) == reqT[t].kind = "restart" /\ terminals[reqT[t].id] # None

\* An operation that has the lock ends, and the handle is as its result says.
Ending(t, h) ==
  /\ T!Works(t, h, pcT[t]) /\ pcT[t] \in Guarded /\ LifeKept
  /\ UNCHANGED <<reqT, at, terminals, creating, session>>
  /\ holder' = [holder EXCEPT ![h] = None]
  /\ state' = state \/ \E s \in {"READY", "RUNNING", "LOST"} : state' = [state EXCEPT ![h] = s]
  /\ \E p \in {"done", "cancelled"} : pcT' = [pcT EXCEPT ![t] = p]
  /\ pcT[t] \in {"swap", "abort"} => shell[t].life = "closed"
LEMMA EndingOr ==
  ASSUME T!TypeOK, NEW t \in Task, NEW h \in T!Object,
         \/ T!Drain(t, h) \/ T!Synced(t, h) \/ T!Window(t, h) \/ T!KeepOld(t, h)
         \/ T!Signalled(t, h) /\ shell[session[h]].dead
         \/ T!TornDown(t, h) /\ ~Again(t)
  PROVE  Ending(t, h) 
<1>1. LifeKept
  BY LifeIsKept
<1> USE <1>1 DEF Ending, T!Works, T!Apply, Guarded, T!registry, T!handles
<1>2. CASE T!Drain(t, h)
  BY <1>2 DEF T!Drain
<1>3. CASE T!Synced(t, h)
  BY <1>3 DEF T!Synced
<1>4. CASE T!Window(t, h)
  BY <1>4 DEF T!Window
<1>5. CASE T!KeepOld(t, h)
  BY <1>5 DEF T!KeepOld
<1>6. CASE T!Signalled(t, h) /\ shell[session[h]].dead
  BY <1>6 DEF T!Signalled
<1>7. CASE T!TornDown(t, h) /\ ~Again(t)
  BY <1>7 DEF T!TornDown, Again
<1>8. QED
  BY <1>2, <1>3, <1>4, <1>5, <1>6, <1>7

\* Or it goes on with it.
GoesOn(t, h) ==
  /\ T!Works(t, h, pcT[t]) /\ LifeKept
  /\ UNCHANGED <<reqT, at, terminals, creating, session, holder, state>>
  /\ \/ pcT' = pcT
     \/ pcT[t] \in {"drain", "signal"} /\ \E p \in {"resync", "drain"} : pcT' = [pcT EXCEPT ![t] = p]
LEMMA GoesOnOr ==
  ASSUME T!TypeOK, NEW t \in Task, NEW h \in T!Object,
         T!Resync(t, h) \/ T!Discard(t, h) \/ (T!Signalled(t, h) /\ ~shell[session[h]].dead)
  PROVE  GoesOn(t, h)
<1>1. LifeKept
  BY LifeIsKept
<1>2. QED
  BY <1>1 DEF GoesOn, T!Works, T!Resync, T!Discard, T!Signalled, T!registry, T!handles, T!lock, T!task

\* All of these, at once: a task that waits for a handle, or works on it.
OnHandle(t, h) ==
  /\ pcT[t] \in Guarded \cup {"wait"} /\ h \in at[t] /\ LifeKept
  /\ UNCHANGED <<reqT, at, terminals, creating, session>>
  /\ pcT' = [pcT EXCEPT ![t] = pcT'[t]]
  /\ \/ pcT'[t] \in {"done", "cancelled"} /\ \A g \in T!Object : holder'[g] # t
     \/ /\ pcT'[t] \in {"drain", "window", "signal", "resync"}
        /\ reqT[t].kind \notin T!Creating
        /\ \A g \in T!Object : holder'[g] = t => g = h
        /\ state[h] # "CLOSED" \/ holder'[h] # t
  /\ \A g \in T!Object, u \in Task : u # t => (holder'[g] = u <=> holder[g] = u)
  /\ \A g \in T!Object : (state'[g] = "none" <=> state[g] = "none") /\ (state'[g] = "CLOSED" <=> state[g] = "CLOSED")
  /\ pcT[t] = "swap" => shell[t].life = "closed"
LEMMA OnHandleOr ==
  ASSUME OwnInv, NEW t \in Task, NEW h \in T!Object,
         \/ Enters(t, h) \/ Ending(t, h)
         \/ GoesOn(t, h) /\ pcT[t] \in {"drain", "signal", "resync"}
  PROVE  OnHandle(t, h)
<1>1. /\ pcT \in [Task -> T!PC] /\ state \in [T!Object -> T!State] /\ holder \in [T!Object -> Task \cup {None}]
      /\ None \notin Task
  BY OwnTypes, Ids DEF OwnInv
<1>2. /\ \A g \in T!Object : holder[g] = t => g \in at[t] /\ pcT[t] \in Guarded \cup {"close"}
      /\ h \in at[t] /\ pcT[t] \in Guarded \cup {"wait"} => \A g \in at[t] : g = h
      /\ holder[h] = t /\ pcT[t] \in Guarded => state[h] # "CLOSED" /\ reqT[t].kind \notin T!Creating
      /\ pcT[t] = "wait" => reqT[t].kind \notin T!Creating
  BY DEF OwnInv, Holders, AtOne, Asked
<1>3. CASE Enters(t, h)
  <2>1. state[h] # "none"
    BY <1>3, <1>2 DEF OwnInv, Asked, Published, Enters
  <2>2. \A g \in T!Object : holder[g] # t
    BY <1>2, <1>3 DEF Enters, Guarded
  <2>3. pcT' = [pcT EXCEPT ![t] = pcT'[t]] /\ pcT'[t] \in {"done", "drain", "window", "signal"}
    BY <1>1, <1>3 DEF Enters
  <2>4. \A g \in T!Object : (state'[g] = "none" <=> state[g] = "none") /\ (state'[g] = "CLOSED" <=> state[g] = "CLOSED")
    BY <1>1, <1>3, <2>1 DEF Enters, T!TurnsAway
  <2>5. \A g \in T!Object, u \in Task : u # t => (holder'[g] = u <=> holder[g] = u)
    BY <1>1, <1>3 DEF Enters
  <2>6. \/ pcT'[t] = "done" /\ \A g \in T!Object : holder'[g] # t
        \/ /\ pcT'[t] \in {"drain", "window", "signal"}
           /\ \A g \in T!Object : holder'[g] = t => g = h
           /\ state[h] # "CLOSED"
    BY <1>1, <1>3, <2>2 DEF Enters, T!TurnsAway
  <2>7. QED
    BY <1>2, <1>3, <2>3, <2>4, <2>5, <2>6 DEF OnHandle, Enters
<1>4. CASE Ending(t, h)
  <2>1. state[h] # "none" /\ state[h] # "CLOSED"
    BY <1>4, <1>2 DEF OwnInv, Asked, Published, Ending, T!Works
  <2>2. \A g \in T!Object : holder'[g] # t
    BY <1>1, <1>2, <1>4 DEF Ending, T!Works, Guarded
  <2>3. pcT' = [pcT EXCEPT ![t] = pcT'[t]] /\ pcT'[t] \in {"done", "cancelled"}
    BY <1>1, <1>4 DEF Ending
  <2>4. \A g \in T!Object : (state'[g] = "none" <=> state[g] = "none") /\ (state'[g] = "CLOSED" <=> state[g] = "CLOSED")
    BY <1>1, <1>4, <2>1 DEF Ending
  <2>5. \A g \in T!Object, u \in Task : u # t => (holder'[g] = u <=> holder[g] = u)
    BY <1>1, <1>4 DEF Ending, T!Works
  <2>6. QED
    BY <1>4, <2>2, <2>3, <2>4, <2>5 DEF OnHandle, Ending, T!Works
<1>5. CASE GoesOn(t, h) /\ pcT[t] \in {"drain", "signal", "resync"}
  <2>1. pcT[t] \in Guarded /\ h \in at[t] /\ holder[h] = t
    BY <1>5 DEF GoesOn, T!Works, Guarded
  <2>2. pcT' = [pcT EXCEPT ![t] = pcT'[t]] /\ pcT'[t] \in {"drain", "signal", "resync"}
    BY <1>1, <1>5 DEF GoesOn
  <2>3. QED
    BY <1>2, <1>5, <2>1, <2>2 DEF OnHandle, GoesOn
<1>6. QED
  BY <1>3, <1>4, <1>5

LEMMA OwnOnHandle ==
  ASSUME OwnInv, NEW t \in Task, NEW h \in T!Object, T!TypeOK', OnHandle(t, h)
  PROVE  OwnInv'
<1>1. /\ pcT \in [Task -> T!PC] /\ at \in [Task -> SUBSET T!Object] /\ state \in [T!Object -> T!State]
      /\ holder \in [T!Object -> Task \cup {None}]
  BY OwnTypes DEF OwnInv
<1>2. /\ \A g \in T!Object : Published(g)' <=> Published(g)
      /\ \A u \in Task : u # t => pcT'[u] = pcT[u]
      /\ T!Registered' = T!Registered
      /\ \A s \in T!Object : shell'[s].life = shell[s].life
  BY <1>1 DEF OnHandle, Published, T!Registered, LifeKept
<1>3. pcT[t] \in Guarded \cup {"wait"} /\ pcT'[t] \in {"done", "cancelled", "drain", "window", "signal", "resync"}
  BY DEF OnHandle
<1>4. Unused'
  BY <1>1, <1>2, <1>3 DEF OwnInv, Unused, Begins, OnHandle, LifeKept, T!Object
<1>5. OneHandle'
  BY <1>2 DEF OwnInv, OneHandle, OnHandle
<1>6. Asked'
  BY <1>1, <1>2, <1>3 DEF OwnInv, Asked, OnHandle
<1>7. Holders'
  BY <1>1, <1>2, <1>3 DEF OwnInv, Holders, OnHandle, Guarded
<1>8. AtOne'
  BY <1>1, <1>2, <1>3 DEF OwnInv, AtOne, OnHandle, Guarded
<1>9. Reserved'
  BY <1>1, <1>2, <1>3 DEF OwnInv, Reserved, OnHandle, Guarded
<1>10. \A g \in T!Object : ResetFor(g) => ResetFor(g)'
  BY <1>2, <1>3 DEF ResetFor, OnHandle, Guarded
<1>11. Kept'
  BY <1>2, <1>10 DEF OwnInv, Kept, OnHandle
<1>12. \A g \in T!Object : T!CloseCancelled(g) => T!CloseCancelled(g)'
  BY <1>2, <1>3 DEF T!CloseCancelled, OnHandle, Guarded
<1>13. \A g \in T!Object : (\E u \in Task : holder[g] = u /\ pcT[u] = "close") =>
          (\E u \in Task : holder'[g] = u /\ pcT'[u] = "close")
  BY <1>2, <1>3 DEF OnHandle, Guarded
<1>14. \A g \in T!Object : session'[g] = session[g] /\ (state'[g] = "CLOSED" <=> state[g] = "CLOSED")
  BY DEF OnHandle
<1>15. Lives'
  BY <1>2, <1>12, <1>13, <1>14, OwnTypes DEF OwnInv, Lives
<1>16. ShellOwned'
  BY <1>2, <1>3 DEF OwnInv, ShellOwned, OnHandle, Guarded
<1>17. QED
  BY <1>4, <1>5, <1>6, <1>7, <1>8, <1>9, <1>11, <1>15, <1>16 DEF OwnInv

\* A task that holds no lock is refused, is over, or comes to a queue.
Aside(t) ==
  /\ pcT[t] \notin Guarded \cup {"close", "cancelled"} \/ (pcT[t] = "abort" /\ reqT[t].kind \in T!Creating)
  /\ LifeKept
  /\ UNCHANGED <<terminals, session, holder>>
  /\ pcT' = [pcT EXCEPT ![t] = pcT'[t]]
  /\ reqT' = [reqT EXCEPT ![t] = reqT'[t]]
  /\ at' = [at EXCEPT ![t] = at'[t]]
  /\ creating' = creating \/ (creating' = T!Freed(t) /\ shell[t].life = "closed")
  /\ \A g \in T!Object : (state'[g] = "none" <=> state[g] = "none") /\ (state'[g] = "CLOSED" <=> state[g] = "CLOSED")
  /\ pcT'[t] \in {"done", "joined", "signalled", "wait", "close", "cancelled"}
  /\ pcT'[t] = "cancelled" => reqT'[t].kind \in T!Creating
  /\ pcT[t] = "start" => shell[t].life = "closed"
  /\ pcT'[t] = "wait" =>
       /\ pcT[t] = "new" /\ reqT'[t].id \in T!TerminalId /\ reqT'[t].kind \notin T!Creating
       /\ \A g, h \in at'[t] : g = h
  /\ pcT'[t] = "close" => reqT'[t].kind \in T!Closing
  /\ reqT'[t].kind \notin T!Creating => \A h \in at'[t] : Published(h)
LEMMA AsideOr ==
  ASSUME OwnInv, NEW t \in Task,
         \/ \E k \in Kinds : T!BeginCreate(t, k) /\ (pcT'[t] # "start")
         \/ \E k \in Kinds, i \in T!TerminalId : T!BeginOperation(t, k, i)
         \/ T!JoinEnds(t) \/ T!Acknowledge(t) \/ T!Withdraw(t)
  PROVE  Aside(t)
<1>1. /\ pcT \in [Task -> T!PC] /\ at \in [Task -> SUBSET T!Object] /\ state \in [T!Object -> T!State]
      /\ reqT \in [Task -> T!Request]
      /\ terminals \in [T!TerminalId -> T!Object \cup {None}] /\ session \in [T!Object -> T!Object]
      /\ \A h \in T!Registered : h \in T!Object /\ Published(h) /\ state[h] # "CLOSED"
      /\ T!TypeOK
  BY OwnTypes DEF OwnInv
<1>2. /\ pcT[t] = "new" => at[t] = {}
      /\ reqT[t].kind \notin T!Creating => \A h \in at[t] : Published(h)
      /\ pcT[t] = "start" => reqT[t].kind \in T!Creating
  BY DEF OwnInv, Asked
<1>3. ASSUME NEW k \in Kinds, T!BeginCreate(t, k), pcT'[t] # "start"
      PROVE  Aside(t)
  <2>1. LifeKept
    BY <1>1, <1>3 DEF T!BeginCreate, LifeKept
  <2>2. reqT'[t].kind \in T!Creating /\ pcT[t] = "new" /\ reqT' = [reqT EXCEPT ![t] = reqT'[t]]
    BY <1>1, <1>3 DEF T!BeginCreate
  <2>3. /\ UNCHANGED <<terminals, session, holder, state, creating>>
        /\ pcT' = [pcT EXCEPT ![t] = pcT'[t]] /\ pcT'[t] \in {"done", "joined"}
        /\ at' = [at EXCEPT ![t] = at'[t]]
    BY <1>1, <1>3 DEF T!BeginCreate, T!handles, T!lock
  <2>4. QED
    BY <2>1, <2>2, <2>3 DEF Aside, Guarded
<1>4. ASSUME NEW k \in Kinds, NEW i \in T!TerminalId, T!BeginOperation(t, k, i)
      PROVE  Aside(t)
  <2>1. pcT[t] = "new" /\ reqT' = [reqT EXCEPT ![t] = reqT'[t]] /\ reqT'[t].kind = k /\ reqT'[t].id = i
        /\ k \notin T!Creating
        /\ UNCHANGED <<terminals, session, holder, creating>>
    BY <1>1, <1>4 DEF T!BeginOperation, T!registry
  <2>2. LifeKept
    <3>1. T!TypeOK
      BY <1>1
    <3>2. \A s \in T!Object : shell[s] \in T!Shell
      BY <3>1 DEF T!TypeOK
    <3>3. \A s \in T!Object : [shell[s] EXCEPT !.signals = @ \cup {t}].life = shell[s].life
      BY <3>2 DEF T!Shell
    <3>4. \/ shell' = shell
          \/ terminals[i] # None
             /\ shell' = [shell EXCEPT ![session[terminals[i]]] = [shell[session[terminals[i]]] EXCEPT !.signals = @ \cup {t}]]
      BY <1>4 DEF T!BeginOperation
    <3>5. shell \in [T!Object -> T!Shell]
      BY <3>1 DEF T!TypeOK
    <3>6. QED
      BY <1>1, <3>3, <3>4, <3>5 DEF LifeKept
  <2>3. CASE terminals[i] = None
    <3>1. pcT' = [pcT EXCEPT ![t] = "done"] /\ UNCHANGED <<at, state>>
      BY <1>4, <2>3 DEF T!BeginOperation
    <3>2. QED
      BY <1>1, <1>2, <2>1, <2>2, <3>1 DEF Aside, Guarded
  <2>4. CASE terminals[i] # None
    <3> DEFINE h == terminals[i]
    <3>1. h \in T!Object /\ Published(h) /\ state[h] # "CLOSED"
      BY <1>1, <2>4 DEF T!Registered
    <3>2. at' = [at EXCEPT ![t] = {h}]
      BY <1>4, <2>4 DEF T!BeginOperation
    <3>3. /\ state' = state \/ state' = [state EXCEPT ![h] = "CLOSING"]
          /\ \/ pcT' = [pcT EXCEPT ![t] = "wait"] \/ pcT' = [pcT EXCEPT ![t] = "signalled"]
             \/ k = "close" /\ pcT' = [pcT EXCEPT ![t] = "close"]
      BY <1>4, <2>4 DEF T!BeginOperation
    <3> HIDE DEF h
    <3>4. \A g \in T!Object : (state'[g] = "none" <=> state[g] = "none") /\ (state'[g] = "CLOSED" <=> state[g] = "CLOSED")
      BY <1>1, <3>1, <3>3 DEF Published
    <3>5. at' = [at EXCEPT ![t] = at'[t]] /\ at'[t] = {h}
      BY <1>1, <3>2
    <3>6. /\ pcT' = [pcT EXCEPT ![t] = pcT'[t]] /\ pcT'[t] \in {"wait", "signalled", "close"}
          /\ pcT'[t] = "close" => k \in T!Closing
      BY <1>1, <3>3 DEF T!Closing
    <3>7. QED
      BY <2>1, <2>2, <3>1, <3>4, <3>5, <3>6 DEF Aside, Guarded
  <2>5. QED
    BY <2>3, <2>4
<1>5. CASE T!JoinEnds(t) \/ T!Acknowledge(t)
  <2>1. LifeKept
    BY <1>5 DEF T!JoinEnds, T!Acknowledge, LifeKept
  <2>2. QED
    BY <1>1, <1>2, <1>5, <2>1 DEF T!JoinEnds, T!Acknowledge, T!registry, T!handles, T!lock, Aside, Guarded
<1>6. CASE T!Withdraw(t)
  <2>1. LifeKept
    BY <1>6 DEF T!Withdraw, LifeKept
  <2>2. QED
    BY <1>1, <1>2, <1>6, <2>1 DEF T!Withdraw, T!handles, T!lock, Aside, Guarded
<1>7. QED
  BY <1>3, <1>4, <1>5, <1>6

LEMMA OwnAside ==
  ASSUME OwnInv, NEW t \in Task, T!TypeOK', Aside(t)
  PROVE  OwnInv'
<1>1. /\ pcT \in [Task -> T!PC] /\ at \in [Task -> SUBSET T!Object] /\ state \in [T!Object -> T!State]
      /\ reqT \in [Task -> T!Request]
      /\ holder \in [T!Object -> Task \cup {None}] /\ creating \in [T!TerminalId -> Task \cup {None}]
  BY OwnTypes DEF OwnInv
<1>2. /\ \A g \in T!Object : Published(g)' <=> Published(g)
      /\ \A u \in Task : u # t => pcT'[u] = pcT[u] /\ reqT'[u] = reqT[u] /\ at'[u] = at[u]
      /\ T!Registered' = T!Registered
      /\ \A s \in T!Object : shell'[s].life = shell[s].life
  BY <1>1 DEF Aside, Published, T!Registered, LifeKept
<1>3. \A g \in T!Object : holder[g] # t
  BY DEF OwnInv, Holders, Aside, Guarded
<1>4. /\ pcT'[t] \in {"done", "joined", "signalled", "wait", "close", "cancelled"}
      /\ pcT[t] \notin {"close", "cancelled"}
  BY DEF Aside, Guarded
<1>5. Unused'
  <2>1. \A u \in Task : u # t => (Begins(u)' => Begins(u))
    BY <1>2 DEF Begins
  <2>2. Begins(t)' => Begins(t) /\ pcT[t] = "new"
    BY <1>4 DEF Begins, Aside
  <2>3. QED
    BY <1>2, <2>1, <2>2, Ids DEF OwnInv, Unused, Aside
<1>6. OneHandle'
  BY <1>2 DEF OwnInv, OneHandle, Aside
<1>7. Asked'
  <2>1. \A g \in T!Object : g \in at'[t] => g \in T!Object
    OBVIOUS
  <2>2. pcT'[t] = "wait" => reqT'[t].id \in T!TerminalId /\ reqT'[t].kind \notin T!Creating
    BY DEF Aside
  <2>3. \A u \in Task : u # t => (\A g \in at'[u] : g \in T!Object)
    BY <1>1, <1>2
  <2>4. reqT'[t].kind \notin T!Creating => \A g \in at'[t] : Published(g)'
    BY <1>2 DEF OwnInv, T!TypeOK, Aside
  <2>5. QED
    BY <1>1, <1>2, <1>4, <2>2, <2>3, <2>4 DEF OwnInv, Asked, Aside
<1>8. Holders'
  BY <1>2, <1>3 DEF OwnInv, Holders, Aside
<1>9. AtOne'
  BY <1>2, <1>4 DEF OwnInv, AtOne, Aside, Guarded
<1>10. Reserved'
  <2>1. \A i \in T!TerminalId : creating'[i] \in {creating[i], None} /\ (creating[i] # t => creating'[i] = creating[i])
    BY <1>1 DEF Aside, T!Freed
  <2>2. \A u \in Task : pcT'[u] = "start" => u # t /\ pcT[u] = "start" /\ reqT[u].id \in T!TerminalId /\ reqT'[u] = reqT[u]
    BY <1>2, <1>4 DEF OwnInv, Asked
  <2>3. QED
    BY <2>1, <2>2, Ids DEF OwnInv, Reserved, Aside
<1>11. \A g \in T!Object : ResetFor(g) => ResetFor(g)'
  BY <1>2, <1>4 DEF ResetFor
<1>12. Kept'
  BY <1>2, <1>11 DEF OwnInv, Kept, Aside
<1>13. \A g \in T!Object : T!CloseCancelled(g) => T!CloseCancelled(g)'
  BY <1>2, <1>4 DEF T!CloseCancelled
<1>14. \A g \in T!Object : (\E u \in Task : holder[g] = u /\ pcT[u] = "close") =>
          (\E u \in Task : holder'[g] = u /\ pcT'[u] = "close")
  BY <1>2, <1>3 DEF Aside
<1>15. \A g \in T!Object : session'[g] = session[g] /\ (state'[g] = "CLOSED" <=> state[g] = "CLOSED")
  BY DEF Aside
<1>16. Lives'
  BY <1>2, <1>13, <1>14, <1>15, OwnTypes DEF OwnInv, Lives
<1>17. ShellOwned'
  <2>1. pcT[t] # "swap" /\ (pcT[t] = "start" => shell[t].life = "closed")
    BY DEF Aside, Guarded
  <2>2. \A g \in T!Object : session'[g] = session[g]
    BY DEF Aside
  <2>3. QED
    BY <1>2, <1>4, <2>1, <2>2 DEF OwnInv, ShellOwned
<1>18. QED
  BY <1>5, <1>6, <1>7, <1>8, <1>9, <1>10, <1>12, <1>16, <1>17 DEF OwnInv

\* A creation reserves its place and starts its shell.
LEMMA OwnBeginCreate ==
  ASSUME OwnInv, NEW t \in Task, NEW k \in Kinds, T!BeginCreate(t, k), pcT'[t] = "start", T!TypeOK'
  PROVE  OwnInv'
<1> DEFINE i == T!IdOf(t, k)
<1>1. /\ pcT \in [Task -> T!PC] /\ at \in [Task -> SUBSET T!Object] /\ reqT \in [Task -> T!Request]
      /\ creating \in [T!TerminalId -> Task \cup {None}] /\ i \in T!TerminalId
      /\ shell \in [T!Object -> T!Shell] /\ t \in T!Object
  BY OwnTypes, Ids DEF OwnInv, T!TypeOK, T!IdOf
<1>2. /\ pcT[t] = "new" /\ k \in T!Creating /\ terminals[i] = None /\ creating[i] = None
      /\ pcT' = [pcT EXCEPT ![t] = "start"] /\ reqT' = [reqT EXCEPT ![t] = reqT'[t]]
      /\ reqT'[t].kind = k /\ reqT'[t].id = i /\ creating' = [creating EXCEPT ![i] = t]
      /\ shell' = [shell EXCEPT ![t] = [shell[t] EXCEPT !.life = "starting"]]
      /\ UNCHANGED <<at, terminals, state, session, holder>>
  BY <1>1 DEF T!BeginCreate, T!handles, T!lock
<1> HIDE DEF i
<1>3. shell'[t].life = "starting" /\ \A s \in T!Object : s # t => shell'[s] = shell[s]
  BY <1>1, <1>2 DEF T!Shell
<1>4. /\ \A g \in T!Object : Published(g)' <=> Published(g)
      /\ \A u \in Task : u # t => pcT'[u] = pcT[u] /\ reqT'[u] = reqT[u]
      /\ T!Registered' = T!Registered /\ pcT'[t] = "start"
  BY <1>1, <1>2 DEF Published, T!Registered
<1>5. ~Published(t) /\ \A g \in T!Object : Published(g) => session[g] # t
  BY <1>2 DEF OwnInv, Unused, Begins
<1>6. at[t] = {} /\ \A g \in T!Object : holder[g] # t
  BY <1>2 DEF OwnInv, Asked, Holders, Guarded
<1>7. Unused'
  <2>1. \A u \in Task : u # t => (Begins(u)' <=> Begins(u))
    BY <1>4 DEF Begins
  <2>2. QED
    BY <1>2, <1>3, <1>4, <1>5, <2>1, Ids DEF OwnInv, Unused
<1>8. OneHandle'
  BY <1>2, <1>4 DEF OwnInv, OneHandle
<1>9. Asked'
  BY <1>1, <1>2, <1>4, <1>6 DEF OwnInv, Asked
<1>10. Holders'
  BY <1>2, <1>4, <1>6 DEF OwnInv, Holders
<1>11. AtOne'
  BY <1>2, <1>4 DEF OwnInv, AtOne, Guarded
<1>12. Reserved'
  <2>1. \A j \in T!TerminalId : creating'[j] # None => terminals'[j] = None
    BY <1>1, <1>2 DEF OwnInv, Reserved
  <2>2. \A u \in Task : pcT'[u] = "start" => creating'[reqT'[u].id] = u
    BY <1>1, <1>2, <1>4, Ids DEF OwnInv, Reserved, Asked
  <2>3. QED
    BY <2>1, <2>2 DEF Reserved
<1>13. \A g \in T!Object : ResetFor(g) => ResetFor(g)'
  BY <1>2, <1>4 DEF ResetFor
<1>14. Kept'
  BY <1>2, <1>4, <1>13 DEF OwnInv, Kept
<1>15. \A g \in T!Object : T!CloseCancelled(g) => T!CloseCancelled(g)'
  BY <1>2, <1>4 DEF T!CloseCancelled
<1>16. \A g \in T!Object : (\E u \in Task : holder[g] = u /\ pcT[u] = "close") =>
          (\E u \in Task : holder'[g] = u /\ pcT'[u] = "close")
  BY <1>2, <1>4, <1>6
<1>17. Lives'
  BY <1>2, <1>3, <1>4, <1>5, <1>15, <1>16, OwnTypes DEF OwnInv, Lives
<1>18. ShellOwned'
  BY <1>2, <1>3, <1>4 DEF OwnInv, ShellOwned
<1>19. QED
  BY <1>7, <1>8, <1>9, <1>10, <1>11, <1>12, <1>14, <1>17, <1>18 DEF OwnInv

\* A reset_all unregisters every handle.
LEMMA OwnBeginResetAll ==
  ASSUME OwnInv, NEW t \in Task, T!BeginResetAll(t), T!TypeOK'
  PROVE  OwnInv'
<1>1. /\ pcT \in [Task -> T!PC] /\ at \in [Task -> SUBSET T!Object] /\ reqT \in [Task -> T!Request]
      /\ state \in [T!Object -> T!State]
      /\ \A h \in T!Registered : h \in T!Object /\ Published(h) /\ state[h] # "CLOSED"
  BY OwnTypes DEF OwnInv
<1>2. /\ pcT[t] = "new" /\ pcT' = [pcT EXCEPT ![t] = pcT'[t]]
      /\ pcT'[t] = (IF T!Registered = {} THEN "done" ELSE "close")
      /\ reqT' = [reqT EXCEPT ![t] = reqT'[t]] /\ reqT'[t].kind = "reset_all"
      /\ at' = [at EXCEPT ![t] = T!Registered]
      /\ \A i \in T!TerminalId : terminals'[i] = None
      /\ UNCHANGED <<creating, session, holder, shell>>
  BY <1>1 DEF T!BeginResetAll
<1>3. \A g \in T!Object :
        /\ state'[g] = "none" <=> state[g] = "none"
        /\ state'[g] = "CLOSED" <=> state[g] = "CLOSED"
  BY <1>1 DEF T!BeginResetAll, Published
<1>4. /\ \A g \in T!Object : Published(g)' <=> Published(g)
      /\ \A u \in Task : u # t => pcT'[u] = pcT[u] /\ reqT'[u] = reqT[u] /\ at'[u] = at[u]
      /\ at'[t] = T!Registered
  BY <1>1, <1>2, <1>3 DEF Published
<1>5. \A g \in T!Object : holder[g] # t
  BY <1>2 DEF OwnInv, Holders, Guarded
<1>6. Unused'
  BY <1>2, <1>4, Ids DEF OwnInv, Unused, Begins
<1>7. OneHandle'
  BY <1>2, <1>4 DEF OwnInv, OneHandle
<1>8. Asked'
  <2>1. "reset_all" \in T!Closing /\ "reset_all" \notin T!Creating
    BY DEF T!Closing, T!Creating
  <2>2. QED
    BY <1>1, <1>2, <1>4, <2>1 DEF OwnInv, Asked
<1>9. Holders'
  BY <1>2, <1>3, <1>4, <1>5 DEF OwnInv, Holders
<1>10. AtOne'
  BY <1>2, <1>4 DEF OwnInv, AtOne, Guarded
<1>11. Reserved'
  BY <1>2, <1>4 DEF OwnInv, Reserved
<1>12. \A g \in T!Object : ResetFor(g) \/ g \in T!Registered => ResetFor(g)'
  BY <1>2, <1>4 DEF ResetFor
<1>13. Kept'
  BY <1>3, <1>4, <1>12 DEF OwnInv, Kept
<1>14. \A g \in T!Object : T!CloseCancelled(g) => T!CloseCancelled(g)'
  BY <1>2, <1>4 DEF T!CloseCancelled
<1>15. \A g \in T!Object : (\E u \in Task : holder[g] = u /\ pcT[u] = "close") =>
          (\E u \in Task : holder'[g] = u /\ pcT'[u] = "close")
  BY <1>2, <1>4, <1>5
<1>16. Lives'
  BY <1>2, <1>3, <1>4, <1>14, <1>15 DEF OwnInv, Lives
<1>17. ShellOwned'
  BY <1>2, <1>4 DEF OwnInv, ShellOwned
<1>18. QED
  BY <1>6, <1>7, <1>8, <1>9, <1>10, <1>11, <1>13, <1>16, <1>17 DEF OwnInv

\* A handle is published.
LEMMA OwnPublish ==
  ASSUME OwnInv, NEW t \in Task, T!Publish(t), T!TypeOK'
  PROVE  OwnInv'
<1> DEFINE i == reqT[t].id
<1>1. /\ pcT \in [Task -> T!PC] /\ at \in [Task -> SUBSET T!Object]
      /\ creating \in [T!TerminalId -> Task \cup {None}] /\ terminals \in [T!TerminalId -> T!Object \cup {None}]
      /\ state \in [T!Object -> T!State] /\ session \in [T!Object -> T!Object] /\ t \in T!Object
  BY OwnTypes, Ids DEF OwnInv
<1>2. /\ pcT[t] = "start" /\ shell[t].life = "live"
      /\ terminals' = [terminals EXCEPT ![i] = t] /\ creating' = [creating EXCEPT ![i] = None]
      /\ state' = [state EXCEPT ![t] = "READY"] /\ session' = [session EXCEPT ![t] = t]
      /\ pcT' = [pcT EXCEPT ![t] = "done"]
      /\ UNCHANGED <<reqT, at, holder, shell>>
  BY DEF T!Publish, T!lock
<1>3. i \in T!TerminalId /\ creating[i] = t /\ terminals[i] = None
  BY <1>2, Ids DEF OwnInv, Asked, Reserved
<1> HIDE DEF i
<1>4. /\ ~Published(t) /\ \A g \in T!Object : Published(g) => session[g] # t
      /\ \A g \in T!Object : holder[g] # t
  BY <1>2 DEF OwnInv, Unused, Begins, Holders, Guarded
<1>5. /\ \A g \in T!Object : g # t => (Published(g)' <=> Published(g)) /\ state'[g] = state[g] /\ session'[g] = session[g]
      /\ state'[t] = "READY" /\ session'[t] = t /\ Published(t)'
      /\ \A u \in Task : u # t => pcT'[u] = pcT[u]
      /\ pcT'[t] = "done"
  BY <1>1, <1>2 DEF Published
<1>6. t \in T!Registered' /\ T!Registered \subseteq T!Registered'
  BY <1>1, <1>2, <1>3, Ids DEF T!Registered
<1>7. Unused'
  <2>1. \A u \in Task : Begins(u)' => u # t /\ Begins(u)
    BY <1>2, <1>5 DEF Begins
  <2>2. QED
    BY <1>2, <1>5, <2>1, Ids DEF OwnInv, Unused
<1>8. OneHandle'
  BY <1>4, <1>5 DEF OwnInv, OneHandle
<1>9. Asked'
  BY <1>1, <1>2, <1>5 DEF OwnInv, Asked
<1>10. Holders'
  BY <1>2, <1>4, <1>5 DEF OwnInv, Holders
<1>11. AtOne'
  BY <1>2, <1>5 DEF OwnInv, AtOne, Guarded
<1>12. Reserved'
  <2>1. \A j \in T!TerminalId : creating'[j] # None => terminals'[j] = None
    BY <1>1, <1>2, <1>3 DEF OwnInv, Reserved
  <2>2. \A u \in Task : pcT'[u] = "start" => creating'[reqT'[u].id] = u
    BY <1>1, <1>2, <1>3, <1>5 DEF OwnInv, Reserved, Asked
  <2>3. QED
    BY <2>1, <2>2 DEF Reserved
<1>13. \A g \in T!Object : ResetFor(g) => ResetFor(g)'
  BY <1>2, <1>5 DEF ResetFor
<1>14. Kept'
  BY <1>5, <1>6, <1>13 DEF OwnInv, Kept
<1>15. \A g \in T!Object : T!CloseCancelled(g) => T!CloseCancelled(g)'
  BY <1>2, <1>5 DEF T!CloseCancelled
<1>16. \A g \in T!Object : (\E u \in Task : holder[g] = u /\ pcT[u] = "close") =>
          (\E u \in Task : holder'[g] = u /\ pcT'[u] = "close")
  BY <1>2, <1>5, <1>4
<1>17. Lives'
  BY <1>2, <1>5, <1>15, <1>16 DEF OwnInv, Lives
<1>18. ShellOwned'
  BY <1>2, <1>4, <1>5 DEF OwnInv, ShellOwned
<1>19. QED
  BY <1>7, <1>8, <1>9, <1>10, <1>11, <1>12, <1>14, <1>17, <1>18 DEF OwnInv

\* A task is cancelled, and leaves what it holds.
LEMMA OwnCancelled ==
  ASSUME OwnInv, NEW t \in Task, T!Cancel(t), pcT'[t] = "cancelled", T!TypeOK'
  PROVE  OwnInv'
<1>1. /\ pcT \in [Task -> T!PC] /\ holder \in [T!Object -> Task \cup {None}] /\ None \notin Task
      /\ creating \in [T!TerminalId -> Task \cup {None}] /\ at \in [Task -> SUBSET T!Object]
  BY OwnTypes, Ids DEF OwnInv
<1>2. /\ pcT' = [pcT EXCEPT ![t] = "cancelled"] /\ pcT[t] \notin {"new", "done", "cancelled"}
      /\ holder' = [h \in T!Object |-> IF holder[h] = t THEN None ELSE holder[h]]
      /\ creating' = creating \/ creating' = T!Freed(t)
      /\ pcT[t] = "start" => creating' = T!Freed(t)
      /\ UNCHANGED <<reqT, at, terminals, state, session, shell>>
  BY <1>1 DEF T!Cancel, T!InFlight, T!Leaves, T!handles
<1>3. /\ \A g \in T!Object : Published(g)' <=> Published(g)
      /\ \A u \in Task : u # t => pcT'[u] = pcT[u]
      /\ T!Registered' = T!Registered /\ pcT'[t] = "cancelled"
      /\ \A g \in T!Object, u \in Task : holder'[g] = u <=> holder[g] = u /\ u # t
  BY <1>1, <1>2 DEF Published, T!Registered
<1>4. Unused'
  <2>1. \A u \in Task : Begins(u)' => u # t /\ Begins(u)
    BY <1>2, <1>3 DEF Begins
  <2>2. QED
    BY <1>2, <1>3, <2>1, Ids DEF OwnInv, Unused
<1>5. OneHandle'
  BY <1>2, <1>3 DEF OwnInv, OneHandle
<1>6. Asked'
  BY <1>1, <1>2, <1>3 DEF OwnInv, Asked
<1>7. Holders'
  BY <1>2, <1>3 DEF OwnInv, Holders
<1>8. AtOne'
  BY <1>2, <1>3 DEF OwnInv, AtOne, Guarded
<1>9. Reserved'
  <2>1. \A i \in T!TerminalId : creating'[i] \in {creating[i], None} /\ (creating[i] # t => creating'[i] = creating[i])
    BY <1>1, <1>2 DEF T!Freed
  <2>2. \A u \in Task : pcT'[u] = "start" => u # t /\ pcT[u] = "start" /\ reqT[u].id \in T!TerminalId
    BY <1>3 DEF OwnInv, Asked
  <2>3. QED
    BY <1>2, <2>1, <2>2, Ids DEF OwnInv, Reserved
<1>10. \A g \in T!Object : ResetFor(g) => ResetFor(g)'
  BY <1>2, <1>3 DEF ResetFor
<1>11. Kept'
  BY <1>2, <1>3, <1>10 DEF OwnInv, Kept
<1>12. \A g \in T!Object : T!CloseCancelled(g) => T!CloseCancelled(g)'
  BY <1>2, <1>3 DEF T!CloseCancelled
<1>13. \A g \in T!Object : (\E u \in Task : holder[g] = u /\ pcT[u] = "close") =>
          T!CloseCancelled(g)' \/ \E u \in Task : holder'[g] = u /\ pcT'[u] = "close"
  <2> SUFFICES ASSUME NEW g \in T!Object, NEW u \in Task, holder[g] = u, pcT[u] = "close"
               PROVE  T!CloseCancelled(g)' \/ \E v \in Task : holder'[g] = v /\ pcT'[v] = "close"
    OBVIOUS
  <2>1. CASE u = t
    BY <1>2, <1>3, <2>1 DEF OwnInv, Holders, Asked, T!CloseCancelled
  <2>2. CASE u # t
    BY <1>3, <2>2
  <2>3. QED
    BY <2>1, <2>2
<1>14. Lives'
  BY <1>2, <1>3, <1>12, <1>13 DEF OwnInv, Lives
<1>15. ShellOwned'
  BY <1>2, <1>3 DEF OwnInv, ShellOwned, Asked
<1>16. QED
  BY <1>4, <1>5, <1>6, <1>7, <1>8, <1>9, <1>11, <1>14, <1>15 DEF OwnInv

\* A task that is cancelled closes the shell it has just started.
LEMMA OwnAborts ==
  ASSUME OwnInv, NEW t \in Task, T!Cancel(t), pcT'[t] # "cancelled", T!TypeOK'
  PROVE  OwnInv'
<1>1. /\ pcT \in [Task -> T!PC] /\ shell \in [T!Object -> T!Shell] /\ t \in T!Object
      /\ at \in [Task -> SUBSET T!Object]
  BY OwnTypes, Ids DEF OwnInv, T!TypeOK
<1>2. /\ pcT[t] \in {"start", "swap"} /\ pcT' = [pcT EXCEPT ![t] = "abort"]
      /\ shell' = [shell EXCEPT ![t] = [shell[t] EXCEPT !.life = IF @ = "live" THEN "closing" ELSE @, !.killer = t]]
      /\ shell[t].life = "live"
      /\ UNCHANGED <<reqT, at, terminals, creating, state, session, holder>>
  BY <1>1 DEF T!Cancel, T!KillBy, T!handles, T!lock
<1>3. shell'[t].life = "closing" /\ \A s \in T!Object : s # t => shell'[s] = shell[s]
  BY <1>1, <1>2 DEF T!Shell
<1>4. /\ \A g \in T!Object : Published(g)' <=> Published(g)
      /\ \A u \in Task : u # t => pcT'[u] = pcT[u]
      /\ T!Registered' = T!Registered /\ pcT'[t] = "abort"
  BY <1>1, <1>2 DEF Published, T!Registered
<1>5. \A g \in T!Object : Published(g) => session[g] # t
  BY <1>2 DEF OwnInv, Unused, Begins
<1>6. Unused'
  <2>1. \A u \in Task : Begins(u)' => u # t /\ Begins(u)
    BY <1>2, <1>4 DEF Begins
  <2>2. QED
    BY <1>2, <1>3, <1>4, <2>1, Ids DEF OwnInv, Unused
<1>7. OneHandle'
  BY <1>2, <1>4 DEF OwnInv, OneHandle
<1>8. Asked'
  BY <1>1, <1>2, <1>4 DEF OwnInv, Asked
<1>9. Holders'
  BY <1>2, <1>4 DEF OwnInv, Holders, Guarded
<1>10. AtOne'
  <2>1. pcT[t] = "start" => at[t] = {}
    BY DEF OwnInv, Asked
  <2>2. QED
    BY <1>2, <1>4, <2>1 DEF OwnInv, AtOne, Guarded
<1>11. Reserved'
  BY <1>2, <1>4 DEF OwnInv, Reserved
<1>12. \A g \in T!Object : ResetFor(g) => ResetFor(g)'
  BY <1>2, <1>4 DEF ResetFor
<1>13. Kept'
  BY <1>2, <1>4, <1>12 DEF OwnInv, Kept
<1>14. \A g \in T!Object : T!CloseCancelled(g) => T!CloseCancelled(g)'
  BY <1>2, <1>4 DEF T!CloseCancelled
<1>15. \A g \in T!Object : (\E u \in Task : holder[g] = u /\ pcT[u] = "close") =>
          (\E u \in Task : holder'[g] = u /\ pcT'[u] = "close")
  BY <1>2, <1>4
<1>16. Lives'
  BY <1>2, <1>3, <1>4, <1>5, <1>14, <1>15, OwnTypes DEF OwnInv, Lives
<1>17. ShellOwned'
  BY <1>2, <1>3, <1>4 DEF OwnInv, ShellOwned
<1>18. QED
  BY <1>6, <1>7, <1>8, <1>9, <1>10, <1>11, <1>13, <1>16, <1>17 DEF OwnInv

\* A reset starts the new shell.
LEMMA OwnReset ==
  ASSUME OwnInv, NEW t \in Task, NEW h \in T!Object, T!Reset(t, h), T!TypeOK'
  PROVE  OwnInv'
<1>1. /\ pcT \in [Task -> T!PC] /\ holder \in [T!Object -> Task \cup {None}]
      /\ at \in [Task -> SUBSET T!Object] /\ shell \in [T!Object -> T!Shell] /\ t \in T!Object
  BY OwnTypes, Ids DEF OwnInv, T!TypeOK
<1>2. /\ pcT[t] = "wait" /\ reqT[t].kind \in T!Restarting /\ h \in at[t] /\ holder[h] = None
      /\ state[h] # "CLOSED" /\ pcT' = [pcT EXCEPT ![t] = "swap"]
      /\ shell' = [shell EXCEPT ![t] = [shell[t] EXCEPT !.life = "starting"]]
      /\ holder' = [holder EXCEPT ![h] = t]
      /\ UNCHANGED <<reqT, at, terminals, creating, state, session>>
  BY DEF T!Reset, T!Allowed, T!Turn, T!TurnsAway, T!Hold, T!registry, T!handles
<1>3. shell'[t].life = "starting" /\ \A s \in T!Object : s # t => shell'[s] = shell[s]
  BY <1>1, <1>2 DEF T!Shell
<1>4. /\ \A g \in T!Object : Published(g)' <=> Published(g)
      /\ \A u \in Task : u # t => pcT'[u] = pcT[u]
      /\ T!Registered' = T!Registered /\ pcT'[t] = "swap"
  BY <1>1, <1>2 DEF Published, T!Registered
<1>5. ~Published(t) /\ \A g \in T!Object : Published(g) => session[g] # t
  BY <1>2 DEF OwnInv, Unused, Begins
<1>6. /\ \A g \in T!Object : holder[g] # t
      /\ \A g \in T!Object, u \in Task : u # t => (holder'[g] = u <=> holder[g] = u)
      /\ \A g \in T!Object : holder'[g] = t => g = h
  BY <1>1, <1>2, Ids DEF OwnInv, Holders, Guarded
<1>7. Unused'
  <2>1. \A u \in Task : u # t => (Begins(u)' <=> Begins(u))
    BY <1>2, <1>4 DEF Begins
  <2>2. QED
    BY <1>2, <1>3, <1>4, <1>5, <2>1, Ids DEF OwnInv, Unused
<1>8. OneHandle'
  BY <1>2, <1>4 DEF OwnInv, OneHandle
<1>9. Asked'
  BY <1>1, <1>2, <1>4 DEF OwnInv, Asked
<1>10. Holders'
  <2>1. reqT[t].kind \notin T!Creating
    BY <1>2 DEF T!Creating, T!Restarting
  <2>2. QED
    BY <1>2, <1>4, <1>6, <2>1 DEF OwnInv, Holders, Guarded
<1>11. AtOne'
  BY <1>2, <1>4 DEF OwnInv, AtOne, Guarded
<1>12. Reserved'
  BY <1>2, <1>4 DEF OwnInv, Reserved
<1>13. \A g \in T!Object : ResetFor(g) => ResetFor(g)'
  BY <1>2, <1>4 DEF ResetFor
<1>14. Kept'
  BY <1>2, <1>4, <1>13 DEF OwnInv, Kept
<1>15. \A g \in T!Object : T!CloseCancelled(g) => T!CloseCancelled(g)'
  BY <1>2, <1>4 DEF T!CloseCancelled
<1>16. \A g \in T!Object : (\E u \in Task : holder[g] = u /\ pcT[u] = "close") =>
          (\E u \in Task : holder'[g] = u /\ pcT'[u] = "close")
  BY <1>2, <1>4, <1>6
<1>17. Lives'
  BY <1>2, <1>3, <1>4, <1>5, <1>15, <1>16, OwnTypes DEF OwnInv, Lives
<1>18. ShellOwned'
  BY <1>2, <1>3, <1>4 DEF OwnInv, ShellOwned
<1>19. QED
  BY <1>7, <1>8, <1>9, <1>10, <1>11, <1>12, <1>14, <1>17, <1>18 DEF OwnInv

\* The shell of a handle is being killed, by the task that holds its lock.
LEMMA OwnClose ==
  ASSUME OwnInv, NEW t \in Task, NEW h \in T!Object, T!Close(t, h), T!TypeOK'
  PROVE  OwnInv'
<1> DEFINE o == session[h]
<1>1. /\ pcT \in [Task -> T!PC] /\ holder \in [T!Object -> Task \cup {None}]
      /\ at \in [Task -> SUBSET T!Object] /\ shell \in [T!Object -> T!Shell] /\ o \in T!Object
  BY OwnTypes, Ids DEF OwnInv, T!TypeOK
<1>2. /\ pcT[t] = "close" /\ h \in at[t] /\ holder[h] = None
      /\ pcT' = [pcT EXCEPT ![t] = "close"]
      /\ shell' = [shell EXCEPT ![o] = [shell[o] EXCEPT !.life = IF @ = "live" THEN "closing" ELSE @, !.killer = t]]
      /\ holder' = [holder EXCEPT ![h] = t]
      /\ UNCHANGED <<reqT, at, terminals, creating, state, session>>
  BY <1>1 DEF T!Close, T!Turn, T!Hold, T!KillBy, T!registry, T!handles
<1>3. reqT[t].kind \in T!Closing /\ reqT[t].kind \notin T!Creating /\ Published(h)
  BY <1>2 DEF OwnInv, Asked, T!Closing, T!Creating
<1>4. \A g \in T!Object : Published(g) /\ session[g] = o => g = h
  BY <1>3 DEF OwnInv, OneHandle
<1> HIDE DEF o
<1>5. /\ shell'[o].life = (IF shell[o].life = "live" THEN "closing" ELSE shell[o].life)
      /\ \A s \in T!Object : s # o => shell'[s] = shell[s]
  BY <1>1, <1>2 DEF T!Shell
<1>6. /\ \A g \in T!Object : Published(g)' <=> Published(g)
      /\ pcT' = pcT
      /\ T!Registered' = T!Registered
  BY <1>1, <1>2 DEF Published, T!Registered
<1>7. /\ \A g \in T!Object, u \in Task : holder[g] = u => holder'[g] = u
      /\ \A g \in T!Object, u \in Task : holder'[g] = u => holder[g] = u \/ (g = h /\ u = t)
      /\ holder'[h] = t
  BY <1>1, <1>2, Ids
<1>8. Unused'
  <2>1. \A u \in Task : Begins(u)' <=> Begins(u)
    BY <1>2, <1>6 DEF Begins
  <2>2. \A u \in Task : shell[u].life = "none" => shell'[u].life = "none"
    BY <1>5, Ids
  <2>3. QED
    BY <1>2, <1>6, <2>1, <2>2, Ids DEF OwnInv, Unused
<1>9. OneHandle'
  BY <1>2, <1>6 DEF OwnInv, OneHandle
<1>10. Asked'
  BY <1>1, <1>2, <1>6 DEF OwnInv, Asked
<1>11. Holders'
  BY <1>2, <1>3, <1>6, <1>7 DEF OwnInv, Holders, Guarded
<1>12. AtOne'
  BY <1>2, <1>6 DEF OwnInv, AtOne, Guarded
<1>13. Reserved'
  BY <1>2, <1>6 DEF OwnInv, Reserved
<1>14. Kept'
  BY <1>2, <1>6 DEF OwnInv, Kept, ResetFor
<1>15. Lives'
  <2> SUFFICES ASSUME NEW g \in T!Object, Published(g)
               PROVE  /\ shell'[session[g]].life \in {"live", "closing", "closed"}
                      /\ state[g] = "CLOSED" => shell'[session[g]].life = "closed"
                      /\ \/ shell'[session[g]].life = "live" \/ state[g] = "CLOSED" \/ T!CloseCancelled(g)
                         \/ \E u \in Task : holder'[g] = u /\ pcT[u] = "close"
    BY <1>2, <1>6 DEF Lives, T!CloseCancelled
  <2>1. /\ shell[session[g]].life \in {"live", "closing", "closed"}
        /\ state[g] = "CLOSED" => shell[session[g]].life = "closed"
        /\ \/ shell[session[g]].life = "live" \/ state[g] = "CLOSED" \/ T!CloseCancelled(g)
           \/ \E u \in Task : holder[g] = u /\ pcT[u] = "close"
    BY DEF OwnInv, Lives
  <2>2. CASE g = h
    BY <1>2, <1>5, <1>7, <2>1, <2>2 DEF o
  <2>3. CASE g # h
    <3>1. shell'[session[g]] = shell[session[g]]
      BY <1>4, <1>5, <2>3, OwnTypes DEF OwnInv
    <3>2. QED
      BY <1>7, <2>1, <3>1
  <2>4. QED
    BY <2>2, <2>3
<1>16. ShellOwned'
  BY <1>2, <1>5, <1>6 DEF OwnInv, ShellOwned
<1>17. QED
  BY <1>8, <1>9, <1>10, <1>11, <1>12, <1>13, <1>14, <1>15, <1>16 DEF OwnInv

\* The new shell takes the place of the old.
LEMMA OwnSwap ==
  ASSUME OwnInv, NEW t \in Task, NEW h \in T!Object, T!Swap(t, h), T!TypeOK'
  PROVE  OwnInv'
<1> DEFINE o == session[h]
<1>1. /\ pcT \in [Task -> T!PC] /\ holder \in [T!Object -> Task \cup {None}] /\ t \in T!Object
      /\ at \in [Task -> SUBSET T!Object] /\ shell \in [T!Object -> T!Shell] /\ o \in T!Object
      /\ state \in [T!Object -> T!State] /\ session \in [T!Object -> T!Object]
  BY OwnTypes, Ids DEF OwnInv, T!TypeOK
<1>2. /\ pcT[t] = "swap" /\ h \in at[t] /\ holder[h] = t /\ shell[t].life = "live"
      /\ pcT' = [pcT EXCEPT ![t] = "teardown"]
      /\ session' = [session EXCEPT ![h] = t] /\ state' = [state EXCEPT ![h] = "READY"]
      /\ shell' = [shell EXCEPT ![o] = [shell[o] EXCEPT !.life = IF @ = "live" THEN "closing" ELSE @, !.killer = t]]
      /\ UNCHANGED <<reqT, at, terminals, creating, holder>>
  BY <1>1 DEF T!Swap, T!Works, T!Old, T!KillBy, T!registry, T!lock
<1>3. /\ Published(h) /\ state[h] # "CLOSED" /\ reqT[t].kind \in T!Restarting
      /\ \A g \in T!Object : Published(g) => session[g] # t
      /\ ~Published(t)
  <2>1. reqT[t].kind \in T!Restarting /\ reqT[t].kind \notin T!Creating
    BY <1>2 DEF OwnInv, Asked, T!Restarting, T!Creating
  <2>2. QED
    BY <1>2, <2>1 DEF OwnInv, Asked, Holders, Unused, Begins, Guarded
<1>4. o # t /\ \A g \in T!Object : Published(g) /\ session[g] = o => g = h
  BY <1>3 DEF OwnInv, OneHandle
<1>5. shell[o].life \in {"live", "closing", "closed"}
  BY <1>3 DEF OwnInv, Lives
<1> HIDE DEF o
<1>6. /\ shell'[o].life \notin {"starting", "live", "none"}
      /\ \A s \in T!Object : s # o => shell'[s] = shell[s]
  BY <1>1, <1>2, <1>5 DEF T!Shell
<1>7. /\ \A g \in T!Object : Published(g)' <=> Published(g)
      /\ \A g \in T!Object : g # h => session'[g] = session[g] /\ state'[g] = state[g]
      /\ session'[h] = t /\ state'[h] = "READY"
      /\ \A u \in Task : u # t => pcT'[u] = pcT[u]
      /\ T!Registered' = T!Registered /\ pcT'[t] = "teardown"
  BY <1>1, <1>2, <1>3 DEF Published, T!Registered
<1>8. Unused'
  <2>1. \A u \in Task : Begins(u)' => u # t /\ Begins(u)
    BY <1>2, <1>7 DEF Begins
  <2>2. \A u \in Task : shell[u].life = "none" => shell'[u].life = "none"
    BY <1>5, <1>6, Ids
  <2>3. QED
    BY <1>7, <2>1, <2>2, Ids DEF OwnInv, Unused
<1>9. OneHandle'
  BY <1>3, <1>7 DEF OwnInv, OneHandle
<1>10. Asked'
  BY <1>1, <1>2, <1>3, <1>7 DEF OwnInv, Asked
<1>11. Holders'
  BY <1>2, <1>7 DEF OwnInv, Holders, Guarded
<1>12. AtOne'
  BY <1>2, <1>7 DEF OwnInv, AtOne, Guarded
<1>13. Reserved'
  BY <1>2, <1>7 DEF OwnInv, Reserved
<1>14. \A g \in T!Object : ResetFor(g) => ResetFor(g)'
  BY <1>2, <1>7 DEF ResetFor
<1>15. Kept'
  BY <1>3, <1>7, <1>14 DEF OwnInv, Kept
<1>16. \A g \in T!Object : T!CloseCancelled(g) => T!CloseCancelled(g)'
  BY <1>2, <1>7 DEF T!CloseCancelled
<1>17. \A g \in T!Object : (\E u \in Task : holder[g] = u /\ pcT[u] = "close") =>
          (\E u \in Task : holder'[g] = u /\ pcT'[u] = "close")
  BY <1>2, <1>7
<1>18. Lives'
  <2> SUFFICES ASSUME NEW g \in T!Object, Published(g)
               PROVE  /\ shell'[session'[g]].life \in {"live", "closing", "closed"}
                      /\ state'[g] = "CLOSED" => shell'[session'[g]].life = "closed"
                      /\ \/ shell'[session'[g]].life = "live" \/ state'[g] = "CLOSED" \/ T!CloseCancelled(g)'
                         \/ \E u \in Task : holder'[g] = u /\ pcT'[u] = "close"
    BY <1>7 DEF Lives
  <2>1. CASE g = h
    BY <1>1, <1>2, <1>4, <1>6, <1>7, <2>1
  <2>2. CASE g # h
    <3>1. session'[g] = session[g] /\ state'[g] = state[g] /\ shell'[session[g]] = shell[session[g]]
      BY <1>1, <1>4, <1>6, <1>7, <2>2
    <3>2. QED
      BY <1>16, <1>17, <3>1 DEF OwnInv, Lives
  <2>3. QED
    BY <2>1, <2>2
<1>19. ShellOwned'
  <2> SUFFICES ASSUME NEW s \in T!Object, shell'[s].life \in {"starting", "live"}
               PROVE  \/ \E g \in T!Object : Published(g)' /\ session'[g] = s
                      \/ /\ s \in Task
                         /\ \/ pcT'[s] \in {"start", "swap"}
                            \/ pcT'[s] = "cancelled" /\ reqT'[s].kind \in T!Creating \cup T!Restarting
    BY DEF ShellOwned
  <2>1. s # o /\ shell'[s] = shell[s]
    BY <1>6
  <2>2. CASE s = t
    BY <1>3, <1>7, <2>2
  <2>3. CASE s # t
    BY <1>2, <1>7, <2>1, <2>3 DEF OwnInv, ShellOwned, o
  <2>4. QED
    BY <2>2, <2>3
<1>20. QED
  BY <1>8, <1>9, <1>10, <1>11, <1>12, <1>13, <1>15, <1>18, <1>19 DEF OwnInv

\* A restart that is done looks its terminal up, to queue for its command.
LEMMA OwnAgain ==
  ASSUME OwnInv, NEW t \in Task, NEW h \in T!Object, T!TornDown(t, h), Again(t), T!TypeOK'
  PROVE  OwnInv'
<1> DEFINE g0 == terminals[reqT[t].id]
<1>1. /\ pcT \in [Task -> T!PC] /\ holder \in [T!Object -> Task \cup {None}] /\ reqT \in [Task -> T!Request]
      /\ at \in [Task -> SUBSET T!Object] /\ terminals \in [T!TerminalId -> T!Object \cup {None}]
      /\ \A g \in T!Registered : g \in T!Object /\ Published(g) /\ state[g] # "CLOSED"
  BY OwnTypes DEF OwnInv
<1>2. /\ pcT[t] = "teardown" /\ h \in at[t] /\ holder[h] = t /\ g0 # None /\ reqT[t].kind = "restart"
      /\ reqT' = [reqT EXCEPT ![t] = [reqT[t] EXCEPT !.kind = "execute"]] /\ at' = [at EXCEPT ![t] = {g0}]
      /\ pcT' = [pcT EXCEPT ![t] = "wait"] /\ holder' = [holder EXCEPT ![h] = None]
      /\ UNCHANGED <<terminals, creating, state, session, shell>>
  BY DEF T!TornDown, T!Works, Again, T!registry, T!handles
<1>3. reqT[t].id \in T!TerminalId
  BY <1>2 DEF OwnInv, Asked
<1>4. g0 \in T!Object /\ Published(g0)
  BY <1>1, <1>2, <1>3 DEF T!Registered
<1> HIDE DEF g0
<1>5. reqT'[t].kind = "execute" /\ reqT'[t].id = reqT[t].id /\ at'[t] = {g0} /\ pcT'[t] = "wait"
  BY <1>1, <1>2 DEF T!Request
<1>6. /\ \A g \in T!Object : Published(g)' <=> Published(g)
      /\ \A u \in Task : u # t => pcT'[u] = pcT[u] /\ reqT'[u] = reqT[u] /\ at'[u] = at[u]
      /\ T!Registered' = T!Registered
  BY <1>1, <1>2 DEF Published, T!Registered
<1>7. /\ \A g \in T!Object : holder'[g] # t
      /\ \A g \in T!Object, u \in Task : u # t => (holder'[g] = u <=> holder[g] = u)
  <2>1. \A g \in T!Object : holder[g] = t => g = h
    BY <1>2 DEF OwnInv, Holders, AtOne, Guarded
  <2>2. QED
    BY <1>1, <1>2, <2>1, Ids
<1>8. "execute" \notin T!Creating \cup T!Restarting \cup T!Closing
  BY DEF T!Creating, T!Restarting, T!Closing
<1>9. Unused'
  <2>1. \A u \in Task : Begins(u)' => u # t /\ Begins(u)
    BY <1>5, <1>6, <1>8 DEF Begins
  <2>2. QED
    BY <1>2, <1>6, <2>1, Ids DEF OwnInv, Unused
<1>10. OneHandle'
  BY <1>2, <1>6 DEF OwnInv, OneHandle
<1>11. Asked'
  BY <1>1, <1>3, <1>4, <1>5, <1>6, <1>8 DEF OwnInv, Asked
<1>12. Holders'
  BY <1>2, <1>6, <1>7 DEF OwnInv, Holders
<1>13. AtOne'
  BY <1>5, <1>6 DEF OwnInv, AtOne
<1>14. Reserved'
  BY <1>2, <1>5, <1>6 DEF OwnInv, Reserved
<1>15. \A g \in T!Object : ResetFor(g) => ResetFor(g)'
  BY <1>2, <1>6 DEF ResetFor
<1>16. Kept'
  BY <1>2, <1>6, <1>15 DEF OwnInv, Kept
<1>17. \A g \in T!Object : T!CloseCancelled(g) => T!CloseCancelled(g)'
  BY <1>2, <1>6 DEF T!CloseCancelled
<1>18. \A g \in T!Object : (\E u \in Task : holder[g] = u /\ pcT[u] = "close") =>
          (\E u \in Task : holder'[g] = u /\ pcT'[u] = "close")
  BY <1>2, <1>6, <1>7
<1>19. Lives'
  BY <1>2, <1>6, <1>17, <1>18 DEF OwnInv, Lives
<1>20. ShellOwned'
  BY <1>2, <1>5, <1>6 DEF OwnInv, ShellOwned
<1>21. QED
  BY <1>9, <1>10, <1>11, <1>12, <1>13, <1>14, <1>16, <1>19, <1>20 DEF OwnInv

\* A handle is closed, and nobody finds it any more.
LEMMA OwnClosed ==
  ASSUME OwnInv, NEW t \in Task, NEW h \in T!Object, T!Closed(t, h), T!TypeOK'
  PROVE  OwnInv'
<1>1. /\ pcT \in [Task -> T!PC] /\ holder \in [T!Object -> Task \cup {None}]
      /\ at \in [Task -> SUBSET T!Object] /\ state \in [T!Object -> T!State]
      /\ terminals \in [T!TerminalId -> T!Object \cup {None}]
  BY OwnTypes DEF OwnInv
<1>2. /\ pcT[t] = "close" /\ h \in at[t] /\ holder[h] = t /\ shell[session[h]].life = "closed"
      /\ state' = [state EXCEPT ![h] = "CLOSED"] /\ holder' = [holder EXCEPT ![h] = None]
      /\ terminals' = [i \in T!TerminalId |-> IF terminals[i] = h THEN None ELSE terminals[i]]
      /\ at' = [at EXCEPT ![t] = at[t] \ {h}]
      /\ pcT' = [pcT EXCEPT ![t] = IF at[t] = {h} THEN "done" ELSE "close"]
      /\ UNCHANGED <<reqT, creating, session, shell>>
  BY DEF T!Closed, T!Works, T!Unregistered
<1>3. Published(h) /\ reqT[t].kind \notin T!Creating
  BY <1>2 DEF OwnInv, Holders, Asked
<1>4. /\ \A g \in T!Object : Published(g)' <=> Published(g)
      /\ state'[h] = "CLOSED" /\ \A g \in T!Object : g # h => state'[g] = state[g]
      /\ \A u \in Task : u # t => pcT'[u] = pcT[u] /\ at'[u] = at[u]
      /\ at'[t] = at[t] \ {h} /\ pcT'[t] = (IF at[t] = {h} THEN "done" ELSE "close")
  BY <1>1, <1>2, <1>3 DEF Published
<1>5. \A g \in T!Object, u \in Task : holder'[g] = u <=> holder[g] = u /\ g # h
  BY <1>1, <1>2, Ids
<1>6. \A g \in T!Object : g # h /\ g \in T!Registered => g \in T!Registered'
  BY <1>1, <1>2, Ids DEF T!Registered
<1>7. Unused'
  <2>1. \A u \in Task : Begins(u)' => u # t /\ Begins(u)
    BY <1>2, <1>4 DEF Begins
  <2>2. QED
    BY <1>2, <1>4, <2>1, Ids DEF OwnInv, Unused
<1>8. OneHandle'
  BY <1>2, <1>4 DEF OwnInv, OneHandle
<1>9. Asked'
  BY <1>1, <1>2, <1>4 DEF OwnInv, Asked
<1>10. Holders'
  BY <1>2, <1>4, <1>5 DEF OwnInv, Holders, Guarded
<1>11. AtOne'
  BY <1>2, <1>4 DEF OwnInv, AtOne, Guarded
<1>12. Reserved'
  BY <1>1, <1>2, <1>4 DEF OwnInv, Reserved
<1>13. \A g \in T!Object : g # h /\ ResetFor(g) => ResetFor(g)'
  BY <1>2, <1>4 DEF ResetFor
<1>14. Kept'
  BY <1>4, <1>6, <1>13 DEF OwnInv, Kept
<1>15. \A g \in T!Object : T!CloseCancelled(g) => T!CloseCancelled(g)'
  BY <1>2, <1>4 DEF T!CloseCancelled
<1>16. \A g \in T!Object : g # h /\ (\E u \in Task : holder[g] = u /\ pcT[u] = "close") =>
          (\E u \in Task : holder'[g] = u /\ pcT'[u] = "close")
  BY <1>2, <1>4, <1>5 DEF OwnInv, Holders
<1>17. Lives'
  BY <1>2, <1>4, <1>15, <1>16 DEF OwnInv, Lives
<1>18. ShellOwned'
  BY <1>2, <1>4 DEF OwnInv, ShellOwned
<1>19. QED
  BY <1>7, <1>8, <1>9, <1>10, <1>11, <1>12, <1>14, <1>17, <1>18 DEF OwnInv

\* A shell is spawned, or killed, or runs.
LifeGoesOn(s) ==
  /\ \A r \in T!Object : r # s => shell'[r] = shell[r]
  /\ \/ shell'[s].life = shell[s].life
     \/ shell[s].life = "starting" /\ shell'[s].life \in {"live", "closed"}
     \/ shell[s].life = "closing" /\ shell'[s].life = "closed"
LEMMA LivingLife ==
  ASSUME T!TypeOK, NEW s \in T!Object, Living(s)
  PROVE  /\ LifeGoesOn(s)
         /\ UNCHANGED <<reqT, pcT, at, terminals, creating, state, session, holder, waiting, cancels>>
<1> DEFINE k == shell[s]
<1>1. shell \in [T!Object -> T!Shell] /\ k \in T!Shell
  BY DEF T!TypeOK
<1>2. UNCHANGED <<reqT, pcT, at, terminals, creating, state, session, holder, waiting, cancels>>
  BY DEF Living, T!Thread, T!ShellRuns, T!Spawn, T!Kill, T!Signal, T!ReadsLine, T!TakesInput, T!Ends, T!Exits, T!Outside,
     T!task, T!registry, T!handles, T!lock
<1>3. \A r \in T!Object : r # s => shell'[r] = shell[r]
  BY <1>1 DEF Living, T!Thread, T!ShellRuns, T!Spawn, T!Kill, T!Signal, T!ReadsLine, T!TakesInput, T!Ends, T!Exits
<1>4. CASE T!Spawn(s) \/ T!Kill(s)
  <2>1. \/ k.life = "starting" /\ shell'[s] = [k EXCEPT !.life = "live"]
        \/ k.life = "starting" /\ shell'[s] = [k EXCEPT !.life = "closed", !.dead = TRUE]
        \/ k.life = "closing"
           /\ shell'[s] = [k EXCEPT !.life = "closed", !.dead = TRUE, !.stdin = <<>>, !.fg = None, !.hit = FALSE]
    BY <1>1, <1>4 DEF T!Spawn, T!Kill
  <2>2. \/ shell'[s].life = shell[s].life
        \/ shell[s].life = "starting" /\ shell'[s].life \in {"live", "closed"}
        \/ shell[s].life = "closing" /\ shell'[s].life = "closed"
    BY <1>1, <2>1 DEF T!Shell
  <2>3. QED
    BY <1>2, <1>3, <2>2 DEF LifeGoesOn
<1>5. CASE \E t \in Task : T!Signal(s, t)
  <2>1. \E t \in Task : shell'[s] = [k EXCEPT !.signals = @ \ {t}, !.flag = TRUE, !.hit = (k.fg # None)]
    BY <1>1, <1>5 DEF T!Signal
  <2>2. \/ shell'[s].life = shell[s].life
        \/ shell[s].life = "starting" /\ shell'[s].life \in {"live", "closed"}
        \/ shell[s].life = "closing" /\ shell'[s].life = "closed"
    BY <1>1, <2>1 DEF T!Shell
  <2>3. QED
    BY <1>2, <1>3, <2>2 DEF LifeGoesOn
<1>6. CASE T!ReadsLine(s) \/ T!TakesInput(s)
  <2> DEFINE line == Head(k.stdin)
             fg == IF line.what = "probe" THEN None ELSE line
             out == IF line.what = "probe" THEN k.out \cup {line} ELSE k.out
  <2>1. \/ shell'[s] = [k EXCEPT !.stdin = Tail(@)]
        \/ shell'[s] = [k EXCEPT !.stdin = Tail(@), !.hit = FALSE, !.fg = fg, !.out = out]
    BY <1>1, <1>6 DEF T!ReadsLine, T!TakesInput
  <2> HIDE DEF fg, out
  <2>2. \/ shell'[s].life = shell[s].life
        \/ shell[s].life = "starting" /\ shell'[s].life \in {"live", "closed"}
        \/ shell[s].life = "closing" /\ shell'[s].life = "closed"
    BY <1>1, <2>1 DEF T!Shell
  <2>3. QED
    BY <1>2, <1>3, <2>2 DEF LifeGoesOn
<1>7. CASE T!Ends(s) \/ T!Exits(s)
  <2>1. \/ \E out : shell'[s] = [k EXCEPT !.fg = None, !.hit = FALSE, !.out = out]
        \/ shell'[s] = [k EXCEPT !.fg = None, !.hit = FALSE]
        \/ shell'[s] = [k EXCEPT !.dead = TRUE, !.fg = None, !.hit = FALSE, !.stdin = <<>>]
    BY <1>1, <1>7 DEF T!Ends, T!Exits
  <2>2. \/ shell'[s].life = shell[s].life
        \/ shell[s].life = "starting" /\ shell'[s].life \in {"live", "closed"}
        \/ shell[s].life = "closing" /\ shell'[s].life = "closed"
    BY <1>1, <2>1 DEF T!Shell
  <2>3. QED
    BY <1>2, <1>3, <2>2 DEF LifeGoesOn
<1>8. QED
  BY <1>2, <1>4, <1>5, <1>6, <1>7 DEF Living, T!Thread, T!ShellRuns

LEMMA OwnLiving ==
  ASSUME OwnInv, NEW s \in T!Object, Living(s), T!TypeOK'
  PROVE  OwnInv'
<1>1. /\ \A r \in T!Object : r # s => shell'[r] = shell[r]
      /\ \/ shell'[s].life = shell[s].life
         \/ shell[s].life = "starting" /\ shell'[s].life \in {"live", "closed"}
         \/ shell[s].life = "closing" /\ shell'[s].life = "closed"
      /\ UNCHANGED <<reqT, pcT, at, terminals, creating, state, session, holder>>
  BY LivingLife DEF OwnInv, LifeGoesOn
<1>2. \A h \in T!Object : session[h] \in T!Object
  BY OwnTypes DEF OwnInv
<1>3. OneHandle' /\ Asked' /\ Holders' /\ AtOne' /\ Reserved' /\ Kept'
  BY <1>1 DEF OwnInv, OneHandle, Asked, Holders, AtOne, Reserved, Kept, Published, ResetFor, T!Registered
<1>4. Unused'
  BY <1>1, Ids DEF OwnInv, Unused, Begins, Published
<1>5. Lives'
  BY <1>1, <1>2 DEF OwnInv, Lives, Published, T!CloseCancelled
<1>6. ShellOwned'
  BY <1>1 DEF OwnInv, ShellOwned, Published
<1>7. QED
  BY <1>3, <1>4, <1>5, <1>6 DEF OwnInv

-----------------------------------------------------------------------------
(* Terminals: the ownership of shells holds throughout.                    *)

LEMMA OwnStart == T!Init => OwnInv
<1> SUFFICES ASSUME T!Init
             PROVE  OwnInv
  OBVIOUS
<1>1. /\ \A t \in Task : pcT[t] = "new" /\ at[t] = {}
      /\ \A i \in T!TerminalId : creating[i] = None
      /\ \A h \in T!Object : session[h] = h /\ holder[h] = None
      /\ \A h \in T!Object : Published(h) => h = Boot /\ state[h] = "READY" /\ h \in T!Registered
      /\ \A h \in T!Object : Published(h) => shell[h].life = "live"
      /\ \A s \in T!Object : shell[s].life # "none" => Published(s)
  BY Ids DEF T!Init, Published, T!Registered, T!NoShell, T!LiveShell
<1>2. T!TypeOK
  BY TypesStart
<1>3. Unused /\ OneHandle
  BY <1>1, Ids DEF Unused, OneHandle, Begins
<1>4. Asked /\ Holders /\ AtOne /\ Reserved /\ Kept
  BY <1>1, Ids DEF Asked, Holders, AtOne, Reserved, Kept
<1>5. Lives /\ ShellOwned
  BY <1>1 DEF Lives, ShellOwned
<1>6. QED
  BY <1>2, <1>3, <1>4, <1>5 DEF OwnInv

LEMMA TypesNext ==
  ASSUME OwnInv, T!Next
  PROVE  T!TypeOK'
<1>1. /\ T!TypeOK
      /\ \A t \in Task : pcT[t] \in {"start", "teardown"} => reqT[t].id \in T!TerminalId
  BY DEF OwnInv, Asked
<1>2. ASSUME NEW t \in Task, T!Begin(t)
      PROVE  T!TypeOK'
  BY <1>1, <1>2, BeginTypes
<1>3. ASSUME NEW t \in Task, T!Step(t)
      PROVE  T!TypeOK'
  <2>1. CASE T!JoinEnds(t) \/ T!Publish(t) \/ T!Withdraw(t) \/ T!Acknowledge(t)
    BY <1>1, <2>1, AsideTypes
  <2>2. ASSUME NEW h \in T!Object, Entering(t, h)
        PROVE  T!TypeOK'
    BY <1>1, <2>2, EnteringTypes
  <2>3. ASSUME NEW h \in T!Object, WorkingOn(t, h)
        PROVE  T!TypeOK'
    <3>1. T!TornDown(t, h) => pcT[t] = "teardown"
      BY DEF T!TornDown, T!Works
    <3>2. QED
      BY <1>1, <2>3, <3>1, WorkingTypes
  <2>4. QED
    BY <1>3, <2>1, <2>2, <2>3 DEF T!Step, Entering, WorkingOn
<1>4. ASSUME NEW t \in Task, T!Cancel(t)
      PROVE  T!TypeOK'
  BY <1>1, <1>4, AsideTypes
<1>5. ASSUME NEW s \in T!Object, Living(s)
      PROVE  T!TypeOK'
  BY <1>1, <1>5, LivingTypes
<1>6. QED
  BY <1>2, <1>3, <1>4, <1>5 DEF T!Next, Living

LEMMA OwnNext ==
  ASSUME OwnInv, T!Next
  PROVE  OwnInv'
<1>1. T!TypeOK' /\ T!TypeOK
  BY TypesNext DEF OwnInv
<1>2. ASSUME NEW t \in Task, T!Begin(t)
      PROVE  OwnInv'
  <2>1. ASSUME NEW k \in Kinds, T!BeginCreate(t, k)
        PROVE  OwnInv'
    BY <1>1, <2>1, OwnBeginCreate, AsideOr, OwnAside
  <2>2. ASSUME NEW k \in Kinds, NEW i \in T!TerminalId, T!BeginOperation(t, k, i)
        PROVE  OwnInv'
    BY <1>1, <2>2, AsideOr, OwnAside
  <2>3. QED
    BY <1>1, <1>2, <2>1, <2>2, OwnBeginResetAll DEF T!Begin
<1>3. ASSUME NEW t \in Task, T!Step(t)
      PROVE  OwnInv'
  <2>1. CASE T!JoinEnds(t) \/ T!Acknowledge(t) \/ T!Withdraw(t)
    BY <1>1, <2>1, AsideOr, OwnAside
  <2>2. CASE T!Publish(t)
    BY <1>1, <2>2, OwnPublish
  <2>3. ASSUME NEW h \in T!Object,
               T!Reject(t, h) \/ T!Execute(t, h) \/ T!Input(t, h) \/ T!Poll(t, h) \/ T!Interrupt(t, h)
        PROVE  OwnInv'
    BY <1>1, <2>3, EntersOr, OnHandleOr, OwnOnHandle
  <2>4. ASSUME NEW h \in T!Object, T!Drain(t, h) \/ T!Synced(t, h) \/ T!Window(t, h) \/ T!KeepOld(t, h)
        PROVE  OwnInv'
    BY <1>1, <2>4, EndingOr, OnHandleOr, OwnOnHandle
  <2>5. ASSUME NEW h \in T!Object, T!Signalled(t, h)
        PROVE  OwnInv'
    <3>1. pcT[t] = "signal"
      BY <2>5 DEF T!Signalled, T!Works
    <3>2. QED
      BY <1>1, <2>5, <3>1, EndingOr, GoesOnOr, OnHandleOr, OwnOnHandle
  <2>6. ASSUME NEW h \in T!Object, T!Resync(t, h) \/ T!Discard(t, h)
        PROVE  OwnInv'
    <3>1. pcT[t] \in {"drain", "resync"}
      BY <2>6 DEF T!Resync, T!Discard, T!Works
    <3>2. QED
      BY <1>1, <2>6, <3>1, GoesOnOr, OnHandleOr, OwnOnHandle
  <2>7. ASSUME NEW h \in T!Object, T!TornDown(t, h)
        PROVE  OwnInv'
    BY <1>1, <2>7, EndingOr, OnHandleOr, OwnOnHandle, OwnAgain
  <2>8. ASSUME NEW h \in T!Object, T!Reset(t, h) \/ T!Close(t, h) \/ T!Swap(t, h) \/ T!Closed(t, h)
        PROVE  OwnInv'
    BY <1>1, <2>8, OwnReset, OwnClose, OwnSwap, OwnClosed
  <2>9. QED
    BY <1>3, <2>1, <2>2, <2>3, <2>4, <2>5, <2>6, <2>7, <2>8 DEF T!Step
<1>4. ASSUME NEW t \in Task, T!Cancel(t)
      PROVE  OwnInv'
  BY <1>1, <1>4, OwnCancelled, OwnAborts
<1>5. ASSUME NEW s \in T!Object, Living(s)
      PROVE  OwnInv'
  BY <1>1, <1>5, OwnLiving
<1>6. QED
  BY <1>2, <1>3, <1>4, <1>5 DEF T!Next, Living

LEMMA AloneOnShell == OwnInv => T!ClosedAlone
<1> SUFFICES ASSUME OwnInv, NEW t \in Task, NEW h \in at[t], holder[h] = t,
                    pcT[t] \in {"drain", "resync", "window", "signal"}
             PROVE  shell[session[h]].life = "live" \/ T!CloseCancelled(h)
  BY DEF T!ClosedAlone
<1>1. h \in T!Object
  BY OwnTypes DEF OwnInv
<1>2. Published(h) /\ state[h] # "CLOSED"
  BY <1>1 DEF OwnInv, Asked, Holders, Guarded
<1>3. ~\E u \in Task : holder[h] = u /\ pcT[u] = "close"
  OBVIOUS
<1>4. QED
  BY <1>1, <1>2, <1>3 DEF OwnInv, Lives

LEMMA ShellHasOwner == OwnInv => T!NoShellLost
<1> SUFFICES ASSUME OwnInv, NEW s \in T!Object, shell[s].life \in {"starting", "live"}
             PROVE  T!HasOwner(s) \/ T!LostByCancel(s)
  BY DEF T!NoShellLost
<1>1. ASSUME NEW h \in T!Object, Published(h), session[h] = s
      PROVE  T!HasOwner(s) \/ T!LostByCancel(s)
  <2>1. h \in T!Registered \/ ResetFor(h)
    BY <1>1 DEF OwnInv, Kept, Lives
  <2>2. QED
    BY <1>1, <2>1 DEF ResetFor, T!HasOwner, T!LostByCancel
<1>2. CASE /\ s \in Task
           /\ \/ pcT[s] \in {"start", "swap"}
              \/ pcT[s] = "cancelled" /\ reqT[s].kind \in T!Creating \cup T!Restarting
  BY <1>2 DEF T!HasOwner, T!LostByCancel
<1>3. QED
  BY <1>1, <1>2 DEF OwnInv, ShellOwned

-----------------------------------------------------------------------------
(* Terminals: the quota.                                                   *)

LEMMA SameCardinality == \A S : T!Cardinality(S) = Cardinality(S)
BY DEF T!Cardinality, Cardinality

Starting == {i \in T!TerminalId : creating[i] # None}

LEMMA FinitePlaces ==
  ASSUME T!TypeOK
  PROVE  /\ IsFiniteSet(T!Registered) /\ IsFiniteSet(Starting)
         /\ Cardinality(T!Registered) \in Nat /\ Cardinality(Starting) \in Nat
<1>1. IsFiniteSet(Task)
  BY OpenHandsAssumption DEF T!TerminalsAssumption, T!IsFiniteSet, IsFiniteSet
<1>2. IsFiniteSet(Task \cup {Boot}) /\ IsFiniteSet(Task \cup {Default})
  BY <1>1, FS_AddElement
<1>3. T!Registered \subseteq Task \cup {Boot} /\ Starting \subseteq Task \cup {Default}
  BY DEF T!Registered, Starting, T!Object, T!TerminalId
<1>4. QED
  BY <1>2, <1>3, FS_Subset, FS_CardinalityType

LEMMA QuotaShrinks ==
  ASSUME T!TypeOK, T!TypeOK', T!QuotaHeld, T!Registered' \subseteq T!Registered, Starting' \subseteq Starting
  PROVE  T!QuotaHeld'
<1>1. /\ Cardinality(T!Registered') \in Nat /\ Cardinality(Starting') \in Nat
      /\ Cardinality(T!Registered') <= Cardinality(T!Registered)
      /\ Cardinality(Starting') <= Cardinality(Starting)
      /\ Cardinality(T!Registered) \in Nat /\ Cardinality(Starting) \in Nat
  BY FinitePlaces, FS_Subset, FS_CardinalityType
<1>2. Cardinality(T!Registered) + Cardinality(Starting) <= MaxTerminals
  BY SameCardinality DEF T!QuotaHeld, Starting
<1>3. Cardinality(T!Registered') + Cardinality(Starting') <= MaxTerminals
  BY <1>1, <1>2, OpenHandsAssumption DEF T!TerminalsAssumption
<1>4. QED
  BY <1>3, SameCardinality DEF T!QuotaHeld, Starting

LEMMA QuotaBegin ==
  ASSUME OwnInv, T!TypeOK', T!QuotaHeld, NEW t \in Task, NEW k \in Kinds, T!BeginCreate(t, k)
  PROVE  T!QuotaHeld'
<1> DEFINE i == T!IdOf(t, k)
<1>1. T!TypeOK /\ i \in T!TerminalId /\ creating \in [T!TerminalId -> Task \cup {None}]
  BY OwnTypes, Ids DEF OwnInv, T!IdOf
<1>2. UNCHANGED terminals /\ T!Registered' = T!Registered
  BY DEF T!BeginCreate, T!Registered
<1>3. CASE creating' = creating
  <2>1. Starting' = Starting
    BY <1>3 DEF Starting
  <2>2. QED
    BY <1>1, <1>2, <2>1, QuotaShrinks
<1>4. CASE creating' # creating
  <2>1. creating' = [creating EXCEPT ![i] = t] /\ creating[i] = None /\ ~T!Full
    BY <1>4 DEF T!BeginCreate
  <2>2. Cardinality(T!Registered) + Cardinality(Starting) < MaxTerminals
    <3>1. ~(Cardinality(T!Registered) + Cardinality(Starting) >= MaxTerminals)
      BY <2>1, SameCardinality DEF T!Full, Starting
    <3>2. QED
      BY <1>1, <3>1, FinitePlaces, OpenHandsAssumption DEF T!TerminalsAssumption
  <2>3. Starting' = Starting \cup {i} /\ i \notin Starting
    BY <1>1, <2>1, Ids DEF Starting
  <2>4. Cardinality(Starting') = Cardinality(Starting) + 1
    BY <1>1, <2>3, FinitePlaces, FS_AddElement
  <2>5. Cardinality(T!Registered') + Cardinality(Starting') <= MaxTerminals
    BY <1>1, <1>2, <2>2, <2>4, FinitePlaces, OpenHandsAssumption DEF T!TerminalsAssumption
  <2>6. QED
    BY <2>5, SameCardinality DEF T!QuotaHeld, Starting
<1>5. QED
  BY <1>3, <1>4

LEMMA QuotaPublish ==
  ASSUME OwnInv, T!TypeOK', T!QuotaHeld, NEW t \in Task, T!Publish(t)
  PROVE  T!QuotaHeld'
<1> DEFINE i == reqT[t].id
<1>1. /\ T!TypeOK /\ creating \in [T!TerminalId -> Task \cup {None}]
      /\ terminals \in [T!TerminalId -> T!Object \cup {None}] /\ t \in T!Object
  BY OwnTypes, Ids DEF OwnInv
<1>2. /\ pcT[t] = "start" /\ terminals' = [terminals EXCEPT ![i] = t]
      /\ creating' = [creating EXCEPT ![i] = None]
  BY DEF T!Publish
<1>3. i \in T!TerminalId /\ creating[i] = t
  BY <1>2 DEF OwnInv, Asked, Reserved
<1> HIDE DEF i
<1>4. Starting' = Starting \ {i} /\ i \in Starting
  BY <1>1, <1>2, <1>3, Ids DEF Starting
<1>5. Cardinality(Starting') = Cardinality(Starting) - 1
  BY <1>1, <1>4, FinitePlaces, FS_RemoveElement
<1>6. T!Registered' \subseteq T!Registered \cup {t}
  BY <1>1, <1>2, <1>3 DEF T!Registered
<1>7. Cardinality(T!Registered') \in Nat /\ Cardinality(T!Registered') <= Cardinality(T!Registered) + 1
  <2>0. IsFiniteSet(T!Registered) /\ Cardinality(T!Registered) \in Nat
    BY <1>1, FinitePlaces
  <2>1. /\ IsFiniteSet(T!Registered \cup {t})
        /\ Cardinality(T!Registered \cup {t}) \in {Cardinality(T!Registered), Cardinality(T!Registered) + 1}
    BY <2>0, FS_AddElement
  <2>2. /\ Cardinality(T!Registered') <= Cardinality(T!Registered \cup {t})
        /\ Cardinality(T!Registered') \in Nat /\ Cardinality(T!Registered \cup {t}) \in Nat
    BY <1>6, <2>1, FS_Subset, FS_CardinalityType
  <2>3. QED
    BY <2>0, <2>1, <2>2
<1>8. Cardinality(T!Registered) + Cardinality(Starting) <= MaxTerminals
  BY SameCardinality DEF T!QuotaHeld, Starting
<1>9. /\ Cardinality(T!Registered) \in Nat
      /\ Cardinality(Starting) \in Nat /\ MaxTerminals \in Nat
  BY <1>1, FinitePlaces, OpenHandsAssumption DEF T!TerminalsAssumption
<1>10. Cardinality(T!Registered') + Cardinality(Starting') <= MaxTerminals
  BY <1>5, <1>7, <1>8, <1>9
<1>11. QED
  BY <1>10, SameCardinality DEF T!QuotaHeld, Starting

LEMMA QuotaStart == T!Init => T!QuotaHeld
<1> SUFFICES ASSUME T!Init
             PROVE  T!QuotaHeld
  OBVIOUS
<1>1. Starting = {} /\ T!Registered \subseteq {Boot}
  BY Ids DEF T!Init, Starting, T!Registered
<1>2. Cardinality(Starting) = 0
  BY <1>1, FS_EmptySet
<1>3. Cardinality(T!Registered) <= 1 /\ Cardinality(T!Registered) \in Nat
  <2>1. IsFiniteSet({Boot}) /\ Cardinality({Boot}) = 1
    BY FS_Singleton
  <2>2. IsFiniteSet(T!Registered) /\ Cardinality(T!Registered) <= Cardinality({Boot})
    BY <1>1, <2>1, FS_Subset
  <2>3. QED
    BY <2>1, <2>2, FS_CardinalityType
<1>4. Cardinality(T!Registered) + Cardinality(Starting) <= MaxTerminals
  BY <1>2, <1>3, OpenHandsAssumption DEF T!TerminalsAssumption
<1>5. QED
  BY <1>4, SameCardinality DEF T!QuotaHeld, Starting

LEMMA QuotaNext ==
  ASSUME OwnInv, T!QuotaHeld, T!Next
  PROVE  T!QuotaHeld'
<1>1. T!TypeOK /\ T!TypeOK'
  BY TypesNext DEF OwnInv
<1>2. /\ creating \in [T!TerminalId -> Task \cup {None}] /\ None \notin T!Object
      /\ terminals \in [T!TerminalId -> T!Object \cup {None}]
  BY <1>1, OwnTypes, Ids
<1>3. CASE UNCHANGED <<terminals, creating>>
  <2>1. Starting' = Starting /\ T!Registered' = T!Registered
    BY <1>3 DEF Starting, T!Registered
  <2>2. QED
    BY <1>1, <2>1, QuotaShrinks
<1>4. ASSUME NEW t \in Task, T!Begin(t)
      PROVE  T!QuotaHeld'
  <2>1. ASSUME NEW k \in Kinds, T!BeginCreate(t, k)
        PROVE  T!QuotaHeld'
    BY <1>1, <2>1, QuotaBegin
  <2>2. ASSUME NEW k \in Kinds, NEW i \in T!TerminalId, T!BeginOperation(t, k, i)
        PROVE  T!QuotaHeld'
    BY <1>3, <2>2 DEF T!BeginOperation, T!registry
  <2>3. CASE T!BeginResetAll(t)
    <3>1. T!Registered' = {} /\ Starting' = Starting
      BY <1>2, <2>3 DEF T!BeginResetAll, T!Registered, Starting
    <3>2. QED
      BY <1>1, <3>1, QuotaShrinks
  <2>4. QED
    BY <1>4, <2>1, <2>2, <2>3 DEF T!Begin
<1>5. ASSUME NEW t \in Task, T!Withdraw(t) \/ T!Cancel(t)
      PROVE  T!QuotaHeld'
  <2>1. terminals' = terminals /\ (creating' = creating \/ creating' = T!Freed(t))
    BY <1>5 DEF T!Withdraw, T!Cancel
  <2>2. T!Registered' = T!Registered /\ Starting' \subseteq Starting
    BY <1>2, <2>1 DEF T!Registered, Starting, T!Freed
  <2>3. QED
    BY <1>1, <2>2, QuotaShrinks
<1>6. ASSUME NEW t \in Task, NEW h \in T!Object, T!Closed(t, h)
      PROVE  T!QuotaHeld'
  <2>1. creating' = creating /\ terminals' = T!Unregistered(h)
    BY <1>6 DEF T!Closed
  <2>2. T!Registered' \subseteq T!Registered /\ Starting' = Starting
    BY <1>2, <2>1 DEF T!Registered, T!Unregistered, Starting
  <2>3. QED
    BY <1>1, <2>2, QuotaShrinks
<1>7. ASSUME NEW t \in Task, T!Step(t)
      PROVE  T!QuotaHeld'
  <2>1. CASE T!Publish(t) \/ T!Withdraw(t)
    BY <1>1, <1>5, <2>1, QuotaPublish
  <2>2. CASE T!JoinEnds(t) \/ T!Acknowledge(t)
    BY <1>3, <2>2 DEF T!JoinEnds, T!Acknowledge, T!registry
  <2>3. ASSUME NEW h \in T!Object, Entering(t, h)
        PROVE  T!QuotaHeld'
    BY <1>3, <2>3 DEF Entering, T!Reject, T!Execute, T!Input, T!Poll, T!Interrupt, T!Reset, T!Close, T!registry
  <2>4. ASSUME NEW h \in T!Object, WorkingOn(t, h)
        PROVE  T!QuotaHeld'
    BY <1>3, <1>6, <2>4 DEF WorkingOn, T!Drain, T!Resync, T!Synced, T!Discard, T!Window, T!Signalled, T!Swap, T!KeepOld,
       T!TornDown, T!Apply, T!registry
  <2>5. QED
    BY <1>7, <2>1, <2>2, <2>3, <2>4 DEF T!Step, Entering, WorkingOn
<1>8. ASSUME NEW s \in T!Object, Living(s)
      PROVE  T!QuotaHeld'
  BY <1>1, <1>3, <1>8, LivingLife
<1>9. QED
  BY <1>4, <1>5, <1>7, <1>8 DEF T!Next, Living

-----------------------------------------------------------------------------
(* Terminals: the lines of one shell.                                      *)

\* No command is in a shell.
Idle(k) == \A t \in Task : ~Has(k, T!CommandOf(t))

\* The lines of a shell go on their way, and nothing is written.
Onwards(k, after) ==
  /\ Tracked(after)
  /\ \A line \in T!Line : Unheard(k, line) => Unheard(after, line)
  /\ \A t \in Task : Behind(k, t) => Behind(after, t)

Gone(k) == k.dead \/ k.life \in {"none", "starting"}

LEMMA Lines ==
  /\ None \notin T!Line
  /\ \A t \in Task : /\ T!CommandOf(t) \in T!Line /\ T!CommandOf(t).what = "command" /\ T!CommandOf(t).by = t
                     /\ T!ProbeOf(t) \in T!Line /\ T!ProbeOf(t).what = "probe" /\ T!ProbeOf(t).by = t
                     /\ T!TextOf(t) \in T!Line /\ T!TextOf(t).what = "text"
  /\ \A line \in T!Line : /\ line.by \in Task
                          /\ line.what = "command" => line = T!CommandOf(line.by)
                          /\ line.what = "probe" => line = T!ProbeOf(line.by)
BY OpenHandsAssumption DEF T!TerminalsAssumption, T!Line, T!CommandOf, T!ProbeOf, T!TextOf

\* Lines are dropped, at most.
Less(k, after) ==
  /\ after.stdin = k.stdin \/ after.stdin = <<>>
  /\ after.fg = k.fg \/ after.fg = None
  /\ after.out \subseteq k.out
  /\ after.pending = k.pending \/ Idle(k)
  /\ Gone(after) => after.stdin = <<>> /\ after.fg = None
LEMMA LinesLess ==
  ASSUME NEW k \in T!Shell, NEW after \in T!Shell, Tracked(k), Less(k, after)
  PROVE  Onwards(k, after)
<1> USE DEF Less
<1>1. \A t \in Task : T!CommandOf(t) # None /\ T!ProbeOf(t) # None
  BY Lines
<1>2. DOMAIN after.stdin \subseteq DOMAIN k.stdin /\ \A n \in DOMAIN after.stdin : after.stdin[n] = k.stdin[n]
  OBVIOUS
<1>3. \A line \in T!Line : /\ Waits(after, line) => Waits(k, line)
                           /\ Has(after, line) => Has(k, line)
  BY <1>2, Lines DEF Waits, Has
<1>4. Tracked(after)
  <2>1. ASSUME NEW t \in Task
        PROVE  /\ Has(after, T!CommandOf(t)) => after.pending = t /\ T!CommandOf(t) \notin after.out
               /\ after.fg = T!CommandOf(t) => ~Waits(after, T!CommandOf(t))
               /\ after.fg # T!ProbeOf(t)
               /\ \A m, n \in DOMAIN after.stdin :
                    after.stdin[m] = T!CommandOf(t) /\ after.stdin[n] = T!CommandOf(t) => m = n
    BY <1>1, <1>2, <1>3, Lines DEF Tracked, Idle
  <2>2. QED
    BY <2>1 DEF Tracked, Gone
<1>5. \A line \in T!Line : Unheard(k, line) => Unheard(after, line)
  BY <1>3 DEF Unheard
<1>6. \A t \in Task : Behind(k, t) => Behind(after, t)
  BY <1>2, <1>3, Lines DEF Behind
<1>7. QED
  BY <1>4, <1>5, <1>6 DEF Onwards

LEMMA LinesReads ==
  ASSUME NEW k \in T!Shell, NEW after \in T!Shell, Tracked(k), ~Gone(after), k.fg = None, k.stdin # <<>>,
         after.stdin = Tail(k.stdin), after.pending = k.pending,
         after.fg = IF Head(k.stdin).what = "probe" THEN None ELSE Head(k.stdin),
         after.out = IF Head(k.stdin).what = "probe" THEN k.out \cup {Head(k.stdin)} ELSE k.out
  PROVE  Onwards(k, after)
<1> DEFINE line0 == k.stdin[1]
           q == k.stdin
<1>1. /\ q \in Seq(T!Line) /\ Len(q) >= 1 /\ line0 \in T!Line /\ Head(q) = line0
      /\ DOMAIN q = 1 .. Len(q) /\ DOMAIN Tail(q) = 1 .. Len(q) - 1 /\ Len(q) \in Nat
      /\ \A n \in 1 .. Len(q) - 1 : n \in Int /\ n + 1 \in 1 .. Len(q) /\ Tail(q)[n] = q[n + 1]
  BY DEF T!Shell
<1>2. /\ DOMAIN after.stdin = 1 .. Len(q) - 1 /\ 1 \in DOMAIN q
      /\ \A n \in DOMAIN after.stdin : n \in Int /\ n >= 1 /\ n + 1 \in DOMAIN q /\ after.stdin[n] = q[n + 1]
  BY <1>1
<1>4. \A line \in T!Line : /\ Waits(after, line) => Waits(k, line)
                           /\ Has(after, line) => Has(k, line)
                           /\ line = line0 => Waits(k, line)
  BY <1>1, <1>2, Lines DEF Waits, Has
<1>5. Tracked(after)
  <2>1. ASSUME NEW t \in Task
        PROVE  /\ Has(after, T!CommandOf(t)) => after.pending = t /\ T!CommandOf(t) \notin after.out
               /\ after.fg = T!CommandOf(t) => ~Waits(after, T!CommandOf(t))
               /\ after.fg # T!ProbeOf(t)
               /\ \A m, n \in DOMAIN after.stdin :
                    after.stdin[m] = T!CommandOf(t) /\ after.stdin[n] = T!CommandOf(t) => m = n
    <3>1. Has(after, T!CommandOf(t)) => after.pending = t /\ T!CommandOf(t) \notin after.out
      BY <1>1, <1>4, Lines DEF Tracked
    <3>2. after.fg = T!CommandOf(t) => ~Waits(after, T!CommandOf(t))
      <4> SUFFICES ASSUME after.fg = T!CommandOf(t), NEW n \in DOMAIN after.stdin, after.stdin[n] = T!CommandOf(t)
                   PROVE  FALSE
        BY DEF Waits
      <4>1. q[1] = T!CommandOf(t) /\ q[n + 1] = T!CommandOf(t)
        BY <1>1, <1>2, Lines
      <4>2. 1 = n + 1
        BY <1>2, <4>1 DEF Tracked
      <4>3. QED
        BY <1>2, <4>2
    <3>3. after.fg # T!ProbeOf(t)
      BY <1>1, Lines
    <3>4. \A m, n \in DOMAIN after.stdin :
            after.stdin[m] = T!CommandOf(t) /\ after.stdin[n] = T!CommandOf(t) => m = n
      <4> SUFFICES ASSUME NEW m \in DOMAIN after.stdin, NEW n \in DOMAIN after.stdin,
                          after.stdin[m] = T!CommandOf(t), after.stdin[n] = T!CommandOf(t)
                   PROVE  m = n
        OBVIOUS
      <4>1. m + 1 = n + 1
        BY <1>2 DEF Tracked
      <4>2. QED
        BY <1>2, <4>1
    <3>5. QED
      BY <3>1, <3>2, <3>3, <3>4
  <2>2. QED
    BY <2>1 DEF Tracked, Gone
<1>6. \A line \in T!Line : Unheard(k, line) => Unheard(after, line)
  BY <1>1, <1>4 DEF Unheard, Has
<1>7. ASSUME NEW t \in Task, Behind(k, t)
      PROVE  Behind(after, t)
  <2>1. T!ProbeOf(t) \in after.out => \A u \in Task : ~Has(after, T!CommandOf(u))
    <3>1. CASE T!ProbeOf(t) \in k.out
      BY <1>4, <1>7, <3>1, Lines DEF Behind
    <3>2. CASE T!ProbeOf(t) \notin k.out
      <4> SUFFICES ASSUME T!ProbeOf(t) \in after.out, NEW u \in Task, Has(after, T!CommandOf(u))
                   PROVE  FALSE
        OBVIOUS
      <4>1. q[1] = T!ProbeOf(t) /\ after.fg = None
        BY <1>1, <3>2, Lines
      <4>2. PICK n \in DOMAIN after.stdin : after.stdin[n] = T!CommandOf(u)
        BY <4>1, Lines DEF Has, Waits
      <4>3. n + 1 < 1
        BY <1>2, <1>7, <4>1, <4>2 DEF Behind
      <4>4. QED
        BY <1>2, <4>3
    <3>3. QED
      BY <3>1, <3>2
  <2>2. ASSUME NEW u \in Task, NEW m \in DOMAIN after.stdin, NEW n \in DOMAIN after.stdin,
               after.stdin[m] = T!ProbeOf(t), after.stdin[n] = T!CommandOf(u)
        PROVE  n < m
    <3>1. n + 1 < m + 1
      BY <1>2, <1>7, <2>2 DEF Behind
    <3>2. QED
      BY <1>2, <3>1
  <2>3. QED
    BY <2>1, <2>2 DEF Behind
<1>8. QED
  BY <1>5, <1>6, <1>7 DEF Onwards

LEMMA LinesTakes ==
  ASSUME NEW k \in T!Shell, NEW after \in T!Shell, Tracked(k), ~Gone(after), k.stdin # <<>>,
         after.stdin = Tail(k.stdin), after.pending = k.pending, after.fg = k.fg, after.out = k.out
  PROVE  Onwards(k, after)
<1> DEFINE q == k.stdin
<1>1. /\ q \in Seq(T!Line) /\ Len(q) >= 1 /\ Len(q) \in Nat
      /\ DOMAIN q = 1 .. Len(q) /\ DOMAIN Tail(q) = 1 .. Len(q) - 1
      /\ \A n \in 1 .. Len(q) - 1 : n \in Int /\ n + 1 \in 1 .. Len(q) /\ Tail(q)[n] = q[n + 1]
  BY DEF T!Shell
<1>2. \A n \in DOMAIN after.stdin : n \in Int /\ n + 1 \in DOMAIN q /\ after.stdin[n] = q[n + 1]
  BY <1>1
<1>3. \A line \in T!Line : /\ Waits(after, line) => Waits(k, line)
                           /\ Has(after, line) => Has(k, line)
  BY <1>2 DEF Waits, Has
<1>4. ASSUME NEW line \in T!Line, NEW other \in T!Line, NEW m \in DOMAIN after.stdin, NEW n \in DOMAIN after.stdin,
             after.stdin[m] = line, after.stdin[n] = other
      PROVE  /\ m + 1 \in DOMAIN q /\ n + 1 \in DOMAIN q /\ q[m + 1] = line /\ q[n + 1] = other
             /\ m + 1 = n + 1 => m = n
             /\ n + 1 < m + 1 => n < m
  BY <1>2, <1>4
<1>5. Tracked(after)
  <2>1. ASSUME NEW t \in Task
        PROVE  /\ Has(after, T!CommandOf(t)) => after.pending = t /\ T!CommandOf(t) \notin after.out
               /\ after.fg = T!CommandOf(t) => ~Waits(after, T!CommandOf(t))
               /\ after.fg # T!ProbeOf(t)
    BY <1>3, Lines DEF Tracked
  <2>2. \A t \in Task : \A m, n \in DOMAIN after.stdin :
          after.stdin[m] = T!CommandOf(t) /\ after.stdin[n] = T!CommandOf(t) => m = n
    BY <1>4, Lines DEF Tracked
  <2>3. QED
    BY <2>1, <2>2 DEF Tracked, Gone
<1>6. \A line \in T!Line : Unheard(k, line) => Unheard(after, line)
  BY <1>3 DEF Unheard
<1>7. ASSUME NEW t \in Task, Behind(k, t)
      PROVE  Behind(after, t)
  BY <1>3, <1>4, <1>7, Lines DEF Behind
<1>8. QED
  BY <1>5, <1>6, <1>7 DEF Onwards

LEMMA LinesEnds ==
  ASSUME NEW k \in T!Shell, NEW after \in T!Shell, Tracked(k), ~Gone(after), k.fg # None,
         after.stdin = k.stdin, after.pending = k.pending, after.fg = None,
         after.out = IF k.fg.what = "command" THEN k.out \cup {k.fg} ELSE k.out
  PROVE  Onwards(k, after)
<1>1. k.fg \in T!Line /\ \A t \in Task : T!CommandOf(t) # None /\ T!ProbeOf(t) # None
  BY Lines DEF T!Shell
<1>2. \A line \in T!Line : (Waits(after, line) <=> Waits(k, line)) /\ (Has(after, line) => Waits(k, line))
  BY Lines DEF Waits, Has
<1>3. ASSUME NEW t \in Task, Has(after, T!CommandOf(t))
      PROVE  after.pending = t /\ T!CommandOf(t) \notin after.out
  <2>1. Waits(k, T!CommandOf(t)) /\ k.pending = t /\ T!CommandOf(t) \notin k.out /\ k.fg # T!CommandOf(t)
    BY <1>2, <1>3, Lines DEF Tracked, Has
  <2>2. QED
    BY <2>1
<1>4. Tracked(after)
  <2>1. \A t \in Task : \A m, n \in DOMAIN after.stdin :
          after.stdin[m] = T!CommandOf(t) /\ after.stdin[n] = T!CommandOf(t) => m = n
    BY DEF Tracked
  <2>2. QED
    BY <1>1, <1>3, <2>1 DEF Tracked, Gone
<1>5. \A line \in T!Line : Unheard(k, line) => Unheard(after, line)
  BY <1>1, <1>2 DEF Unheard, Has
<1>6. \A t \in Task : T!ProbeOf(t) \in after.out => T!ProbeOf(t) \in k.out
  BY <1>1, Lines DEF Tracked
<1>7. \A t \in Task : Behind(k, t) => Behind(after, t)
  BY <1>2, <1>6, Lines DEF Behind, Has
<1>8. QED
  BY <1>4, <1>5, <1>7 DEF Onwards

\* A line is written.
LEMMA LinesWrites ==
  ASSUME NEW k \in T!Shell, NEW after \in T!Shell, Tracked(k), ~Gone(after), NEW new \in T!Line,
         after.stdin = Append(k.stdin, new), after.fg = k.fg, after.out = k.out,
         \/ new.what # "command" /\ after.pending = k.pending
         \/ k.pending = None /\ after.pending = new.by /\ new \notin k.out
  PROVE  /\ Tracked(after)
         /\ \A line \in T!Line : Unheard(k, line) /\ line # new => Unheard(after, line)
         /\ new.what # "command" => \A t \in Task : new # T!ProbeOf(t) /\ Behind(k, t) => Behind(after, t)
         /\ \A t \in Task : new = T!ProbeOf(t) /\ Unheard(k, new) => Behind(after, t)
<1> DEFINE q == k.stdin
           len == Len(q) + 1
<1>1. /\ q \in Seq(T!Line) /\ Len(q) \in Nat /\ len \in Int
      /\ DOMAIN q = 1 .. Len(q) /\ DOMAIN Append(q, new) = 1 .. len
      /\ Append(q, new)[len] = new
      /\ \A n \in 1 .. len : n # len => n \in 1 .. Len(q) /\ n < len /\ n \in Int /\ Append(q, new)[n] = q[n]
  BY DEF T!Shell
<1> HIDE DEF len
<1>2. \A n \in DOMAIN after.stdin : \/ n = len /\ after.stdin[n] = new
                                    \/ n \in DOMAIN q /\ n < len /\ after.stdin[n] = q[n]
  BY <1>1
<1>3. \A line \in T!Line : /\ Waits(after, line) => Waits(k, line) \/ line = new
                           /\ Has(after, line) => Has(k, line) \/ line = new
  BY <1>2 DEF Waits, Has
<1>4. Tracked(after)
  <2>1. CASE new.what # "command" /\ after.pending = k.pending
    <3>1. \A t \in Task : new # T!CommandOf(t)
      BY <2>1, Lines
    <3>2. \A t \in Task :
            /\ Has(after, T!CommandOf(t)) => after.pending = t /\ T!CommandOf(t) \notin after.out
            /\ after.fg = T!CommandOf(t) => ~Waits(after, T!CommandOf(t))
            /\ after.fg # T!ProbeOf(t)
      BY <1>3, <2>1, <3>1, Lines DEF Tracked
    <3>3. \A t \in Task : \A m, n \in DOMAIN after.stdin :
            after.stdin[m] = T!CommandOf(t) /\ after.stdin[n] = T!CommandOf(t) => m = n
      BY <1>2, <3>1 DEF Tracked
    <3>4. QED
      BY <3>2, <3>3 DEF Tracked, Gone
  <2>2. CASE k.pending = None /\ after.pending = new.by /\ new \notin k.out
    <3>1. \A t \in Task : ~Has(k, T!CommandOf(t))
      BY <2>2, Ids DEF Tracked
    <3>2. \A t \in Task :
            /\ Has(after, T!CommandOf(t)) => after.pending = t /\ T!CommandOf(t) \notin after.out
            /\ after.fg = T!CommandOf(t) => ~Waits(after, T!CommandOf(t))
            /\ after.fg # T!ProbeOf(t)
      BY <1>3, <2>2, <3>1, Lines DEF Tracked, Has
    <3>3. \A t \in Task : \A m, n \in DOMAIN after.stdin :
            after.stdin[m] = T!CommandOf(t) /\ after.stdin[n] = T!CommandOf(t) => m = n
      BY <1>2, <3>1 DEF Has, Waits
    <3>4. QED
      BY <3>2, <3>3 DEF Tracked, Gone
  <2>3. QED
    BY <2>1, <2>2
<1>5. \A line \in T!Line : Unheard(k, line) /\ line # new => Unheard(after, line)
  BY <1>3 DEF Unheard
<1>6. ASSUME NEW t \in Task, new.what # "command", new # T!ProbeOf(t), Behind(k, t)
      PROVE  Behind(after, t)
  <2>1. \A u \in Task : new # T!CommandOf(u)
    BY <1>6, Lines
  <2>2. QED
    BY <1>2, <1>3, <1>6, <2>1, Lines DEF Behind
<1>7. ASSUME NEW t \in Task, new = T!ProbeOf(t), Unheard(k, new)
      PROVE  Behind(after, t)
  <2>1. \A u \in Task : new # T!CommandOf(u)
    BY <1>7, Lines
  <2>2. \A m \in DOMAIN after.stdin : after.stdin[m] = new => m = len
    BY <1>2, <1>7 DEF Unheard, Has, Waits
  <2>3. \A n \in DOMAIN after.stdin, u \in Task : after.stdin[n] = T!CommandOf(u) => n < len
    BY <1>2, <2>1
  <2>4. T!ProbeOf(t) \notin after.out
    BY <1>7 DEF Unheard
  <2>5. QED
    BY <1>7, <2>2, <2>3, <2>4 DEF Behind
<1>8. QED
  BY <1>4, <1>5, <1>6, <1>7

\* What the code does to a shell that writes nothing.
LEMMA ShellOnwards ==
  ASSUME NEW k \in T!Shell, Tracked(k)
  PROVE  /\ Onwards(k, k)
         /\ \A t \in Task : Onwards(k, [k EXCEPT !.signals = @ \cup {t}])
         /\ \A t \in Task, b \in BOOLEAN : Onwards(k, [k EXCEPT !.signals = @ \ {t}, !.flag = TRUE, !.hit = b])
         /\ k.life = "none" => Onwards(k, [k EXCEPT !.life = "starting"])
         /\ k.life = "starting" =>
              Onwards(k, [k EXCEPT !.life = "live"]) /\ Onwards(k, [k EXCEPT !.life = "closed", !.dead = TRUE])
         /\ Onwards(k, [k EXCEPT !.life = "closed", !.dead = TRUE, !.stdin = <<>>, !.fg = None, !.hit = FALSE])
         /\ Onwards(k, [k EXCEPT !.dead = TRUE, !.fg = None, !.hit = FALSE, !.stdin = <<>>])
         /\ \A t \in Task : Onwards(k, [k EXCEPT !.life = IF @ = "live" THEN "closing" ELSE @, !.killer = t])
         /\ Idle(k) => /\ Onwards(k, [k EXCEPT !.pending = None])
                       /\ Onwards(k, [k EXCEPT !.pending = None, !.out = {}])
         /\ Onwards(k, [k EXCEPT !.pending = k.pending, !.out = {}])
         /\ Onwards(k, [k EXCEPT !.out = {}])
         /\ Onwards(k, [k EXCEPT !.flag = FALSE, !.out = {}])
         /\ ~Gone(k) => Onwards(k, [k EXCEPT !.fg = None, !.hit = FALSE])
<1>1. Gone(k) => k.stdin = <<>> /\ k.fg = None
  BY DEF Tracked, Gone
<1>2. Onwards(k, k)
  BY <1>1, LinesLess DEF Less
<1>3. \A t \in Task : Onwards(k, [k EXCEPT !.signals = @ \cup {t}])
  <2>1. \A t \in Task : Less(k, [k EXCEPT !.signals = @ \cup {t}])
    BY <1>1 DEF T!Shell, Less, Gone
  <2>2. QED
    BY <2>1, LinesLess, ShellTypes
<1>4. \A t \in Task, b \in BOOLEAN : Onwards(k, [k EXCEPT !.signals = @ \ {t}, !.flag = TRUE, !.hit = b])
  <2>1. \A t \in Task, b \in BOOLEAN : Less(k, [k EXCEPT !.signals = @ \ {t}, !.flag = TRUE, !.hit = b])
    BY <1>1 DEF T!Shell, Less, Gone
  <2>2. QED
    BY <2>1, LinesLess, ShellTypes
<1>5. k.life = "none" => Onwards(k, [k EXCEPT !.life = "starting"])
  <2>1. k.life = "none" => Less(k, [k EXCEPT !.life = "starting"])
    BY <1>1 DEF T!Shell, Less, Gone
  <2>2. QED
    BY <2>1, LinesLess, ShellTypes
<1>6. k.life = "starting" => Onwards(k, [k EXCEPT !.life = "live"]) /\ Onwards(k, [k EXCEPT !.life = "closed", !.dead = TRUE])
  <2>1. k.life = "starting" => Less(k, [k EXCEPT !.life = "live"]) /\ Less(k, [k EXCEPT !.life = "closed", !.dead = TRUE])
    BY <1>1 DEF T!Shell, Less, Gone
  <2>2. QED
    BY <2>1, LinesLess, ShellTypes
<1>7. Onwards(k, [k EXCEPT !.life = "closed", !.dead = TRUE, !.stdin = <<>>, !.fg = None, !.hit = FALSE])
  <2>1. Less(k, [k EXCEPT !.life = "closed", !.dead = TRUE, !.stdin = <<>>, !.fg = None, !.hit = FALSE])
    BY <1>1 DEF T!Shell, Less, Gone
  <2>2. QED
    BY <2>1, LinesLess, ShellTypes
<1>8. Onwards(k, [k EXCEPT !.dead = TRUE, !.fg = None, !.hit = FALSE, !.stdin = <<>>])
  <2>1. Less(k, [k EXCEPT !.dead = TRUE, !.fg = None, !.hit = FALSE, !.stdin = <<>>])
    BY <1>1 DEF T!Shell, Less, Gone
  <2>2. QED
    BY <2>1, LinesLess, ShellTypes
<1>9. \A t \in Task : Onwards(k, [k EXCEPT !.life = IF @ = "live" THEN "closing" ELSE @, !.killer = t])
  <2>1. \A t \in Task : Less(k, [k EXCEPT !.life = IF @ = "live" THEN "closing" ELSE @, !.killer = t])
    BY <1>1 DEF T!Shell, Less, Gone
  <2>2. QED
    BY <2>1, LinesLess, ShellTypes
<1>10. Idle(k) => Onwards(k, [k EXCEPT !.pending = None]) /\ Onwards(k, [k EXCEPT !.pending = None, !.out = {}])
  <2>1. Idle(k) => Less(k, [k EXCEPT !.pending = None]) /\ Less(k, [k EXCEPT !.pending = None, !.out = {}])
    BY <1>1 DEF T!Shell, Less, Gone
  <2>2. QED
    BY <2>1, LinesLess, ShellTypes
<1>11. Onwards(k, [k EXCEPT !.pending = k.pending, !.out = {}])
  <2>1. Less(k, [k EXCEPT !.pending = k.pending, !.out = {}])
    BY <1>1 DEF T!Shell, Less, Gone
  <2>2. QED
    BY <2>1, LinesLess, ShellTypes
<1>12. Onwards(k, [k EXCEPT !.out = {}]) /\ Onwards(k, [k EXCEPT !.flag = FALSE, !.out = {}])
  <2>1. Less(k, [k EXCEPT !.out = {}]) /\ Less(k, [k EXCEPT !.flag = FALSE, !.out = {}])
    BY <1>1 DEF T!Shell, Less, Gone
  <2>2. QED
    BY <2>1, LinesLess, ShellTypes
<1>13. ~Gone(k) => Onwards(k, [k EXCEPT !.fg = None, !.hit = FALSE])
  <2>1. ~Gone(k) => Less(k, [k EXCEPT !.fg = None, !.hit = FALSE])
    BY <1>1 DEF T!Shell, Less, Gone
  <2>2. QED
    BY <2>1, LinesLess, ShellTypes
<1>14. QED
  BY <1>2, <1>3, <1>4, <1>5, <1>6, <1>7, <1>8, <1>9, <1>10, <1>11, <1>12, <1>13

-----------------------------------------------------------------------------
(* Terminals: the lines of the shells, step by step.                       *)

\* No task is silent again, and none is at its probe that was not.
TasksKeep ==
  /\ \A t \in Task :
       /\ pcT'[t] \in {"new", "wait", "swap", "teardown"} => pcT[t] \in {"new", "wait", "swap", "teardown"}
       /\ pcT'[t] \in {"new", "wait", "swap", "teardown", "signal", "drain"} =>
            pcT[t] \in {"new", "wait", "swap", "teardown", "signal", "drain"}
  /\ \A t \in Task, h \in T!Object :
       holder'[h] = t /\ pcT'[t] = "resync" => holder[h] = t /\ pcT[t] = "resync" /\ session'[h] = session[h]
ShellsOnwards == \A s \in T!Object : Onwards(shell[s], shell'[s])

LEMMA LinesFrame ==
  ASSUME T!TypeOK, LinesInv, TasksKeep, ShellsOnwards
  PROVE  LinesInv'
<1>1. \A s \in T!Object : Tracked(shell'[s])
  BY DEF ShellsOnwards, Onwards
<1>2. Silent'
  BY Lines DEF LinesInv, Silent, TasksKeep, ShellsOnwards, Onwards
<1>3. Probed'
  <2>1. \A h \in T!Object : session[h] \in T!Object
    BY DEF T!TypeOK
  <2>2. QED
    BY <2>1 DEF LinesInv, Probed, TasksKeep, ShellsOnwards, Onwards
<1>4. QED
  BY <1>1, <1>2, <1>3 DEF LinesInv

LEMMA OneOnwards ==
  ASSUME T!TypeOK, LinesInv, NEW s \in T!Object, NEW after \in T!Shell,
         shell' = [shell EXCEPT ![s] = after], Onwards(shell[s], after)
  PROVE  ShellsOnwards
<1>1. /\ shell \in [T!Object -> T!Shell] /\ \A r \in T!Object : Tracked(shell[r])
  BY DEF T!TypeOK, LinesInv
<1>2. shell'[s] = after /\ \A r \in T!Object : r # s => shell'[r] = shell[r]
  BY <1>1
<1>3. \A r \in T!Object : Onwards(shell[r], shell[r])
  BY <1>1, ShellOnwards
<1>4. QED
  BY <1>2, <1>3 DEF ShellsOnwards

LEMMA NoneOnwards ==
  ASSUME T!TypeOK, LinesInv, shell' = shell
  PROVE  ShellsOnwards
<1>1. /\ shell \in [T!Object -> T!Shell] /\ \A r \in T!Object : Tracked(shell[r])
  BY DEF T!TypeOK, LinesInv
<1>2. QED
  BY <1>1, ShellOnwards DEF ShellsOnwards

\* A task that begins, or goes on without a lock.
LEMMA LinesAside ==
  ASSUME OwnInv, LinesInv, NEW t \in Task,
         T!Begin(t) \/ T!JoinEnds(t) \/ T!Publish(t) \/ T!Withdraw(t) \/ T!Acknowledge(t) \/ T!Cancel(t)
  PROVE  LinesInv'
<1>1. /\ T!TypeOK /\ pcT \in [Task -> T!PC] /\ shell \in [T!Object -> T!Shell] /\ t \in T!Object
      /\ session \in [T!Object -> T!Object] /\ holder \in [T!Object -> Task \cup {None}] /\ None \notin Task
      /\ \A h \in T!Registered : h \in T!Object
      /\ terminals \in [T!TerminalId -> T!Object \cup {None}]
  BY OwnTypes, Ids DEF OwnInv, T!TypeOK
<1>2. shell[t] \in T!Shell /\ Tracked(shell[t])
  BY <1>1 DEF LinesInv
<1>3. CASE T!Begin(t)
  <2>1. TasksKeep
    BY <1>1, <1>3 DEF TasksKeep, T!Begin, T!BeginCreate, T!BeginOperation, T!BeginResetAll, T!handles, T!lock
  <2>2. ASSUME NEW k \in Kinds, T!BeginCreate(t, k)
        PROVE  ShellsOnwards
    <3>1. \/ shell' = shell
          \/ shell' = [shell EXCEPT ![t] = [shell[t] EXCEPT !.life = "starting"]]
      BY <2>2 DEF T!BeginCreate
    <3>2. shell[t].life = "none"
      BY <2>2 DEF OwnInv, Unused, Begins, T!BeginCreate
    <3>3. /\ Onwards(shell[t], [shell[t] EXCEPT !.life = "starting"])
          /\ [shell[t] EXCEPT !.life = "starting"] \in T!Shell
      BY <1>2, <3>2, ShellOnwards, ShellTypes
    <3>4. QED
      BY <1>1, <3>1, <3>3, OneOnwards, NoneOnwards
  <2>3. ASSUME NEW k \in Kinds, NEW i \in T!TerminalId, T!BeginOperation(t, k, i)
        PROVE  ShellsOnwards
    <3> DEFINE s == session[terminals[i]]
    <3>1. shell' = shell \/ (terminals[i] # None /\ shell' = [shell EXCEPT ![s] = [shell[s] EXCEPT !.signals = @ \cup {t}]])
      BY <2>3 DEF T!BeginOperation
    <3>2. CASE terminals[i] # None
      <4>1. s \in T!Object
        BY <1>1, <3>2
      <4> HIDE DEF s
      <4>2. shell[s] \in T!Shell /\ Tracked(shell[s])
        BY <1>1, <4>1 DEF LinesInv
      <4>3. /\ Onwards(shell[s], [shell[s] EXCEPT !.signals = @ \cup {t}])
            /\ [shell[s] EXCEPT !.signals = @ \cup {t}] \in T!Shell
        BY <4>2, ShellOnwards, ShellTypes
      <4>4. QED
        BY <1>1, <3>1, <4>1, <4>3, OneOnwards, NoneOnwards
    <3>3. QED
      BY <1>1, <3>1, <3>2, NoneOnwards
  <2>4. ASSUME T!BeginResetAll(t)
        PROVE  ShellsOnwards
    BY <1>1, <2>4, NoneOnwards DEF T!BeginResetAll
  <2>5. ShellsOnwards
    BY <1>3, <2>2, <2>3, <2>4 DEF T!Begin
  <2>6. QED
    BY <1>1, <2>1, <2>5, LinesFrame
<1>4. CASE T!JoinEnds(t) \/ T!Withdraw(t) \/ T!Acknowledge(t)
  <2>1. TasksKeep /\ shell' = shell
    BY <1>1, <1>4 DEF TasksKeep, T!JoinEnds, T!Withdraw, T!Acknowledge, T!handles, T!lock
  <2>2. QED
    BY <1>1, <2>1, NoneOnwards, LinesFrame
<1>5. CASE T!Publish(t)
  <2>1. /\ pcT[t] = "start" /\ pcT' = [pcT EXCEPT ![t] = "done"] /\ shell' = shell /\ holder' = holder
        /\ session' = [session EXCEPT ![t] = t]
    BY <1>5 DEF T!Publish, T!lock
  <2>2. ~Published(t)
    BY <2>1 DEF OwnInv, Unused, Begins
  <2>3. \A u \in Task : holder[t] # u
    BY <1>1, <2>2 DEF OwnInv, Holders, Asked
  <2>4. TasksKeep
    BY <1>1, <2>1, <2>3 DEF TasksKeep
  <2>5. QED
    BY <1>1, <2>1, <2>4, NoneOnwards, LinesFrame
<1>6. CASE T!Cancel(t)
  <2>1. TasksKeep
    BY <1>1, <1>6 DEF TasksKeep, T!Cancel, T!Leaves, T!handles, T!lock
  <2>2. \/ shell' = shell
        \/ shell' = [shell EXCEPT ![t] = [shell[t] EXCEPT !.life = IF @ = "live" THEN "closing" ELSE @, !.killer = t]]
    BY <1>6 DEF T!Cancel, T!KillBy
  <2>3. /\ Onwards(shell[t], [shell[t] EXCEPT !.life = IF @ = "live" THEN "closing" ELSE @, !.killer = t])
        /\ [shell[t] EXCEPT !.life = IF @ = "live" THEN "closing" ELSE @, !.killer = t] \in T!Shell
    BY <1>2, ShellOnwards, ShellTypes
  <2>4. QED
    BY <1>1, <2>1, <2>2, <2>3, OneOnwards, NoneOnwards, LinesFrame
<1>7. QED
  BY <1>3, <1>4, <1>5, <1>6

\* The shell of an operation that takes the lock is up, or has exited.
LEMMA ShellOfTask ==
  ASSUME OwnInv, NEW t \in Task, NEW h \in T!Object, h \in at[t], pcT[t] \in {"wait", "drain", "resync", "window", "signal"}
  PROVE  /\ session[h] \in T!Object /\ shell[session[h]] \in T!Shell /\ Published(h)
         /\ Gone(shell[session[h]]) => shell[session[h]].dead
<1>1. session[h] \in T!Object /\ shell[session[h]] \in T!Shell
  BY DEF OwnInv, T!TypeOK
<1>2. Published(h)
  BY DEF OwnInv, Asked
<1>3. QED
  BY <1>1, <1>2 DEF OwnInv, Lives, Gone

\* A step that writes nothing to a shell.
LEMMA LinesEnters ==
  ASSUME OwnInv, LinesInv, NEW t \in Task, NEW h \in T!Object,
         T!Reject(t, h) \/ T!Poll(t, h) \/ T!Interrupt(t, h) \/ T!Reset(t, h) \/ T!Close(t, h)
  PROVE  LinesInv'
<1> DEFINE s == session[h]
<1>1. /\ T!TypeOK /\ pcT \in [Task -> T!PC] /\ holder \in [T!Object -> Task \cup {None}]
      /\ s \in T!Object /\ shell \in [T!Object -> T!Shell] /\ t \in T!Object
      /\ \A r \in T!Object : shell[r] \in T!Shell /\ Tracked(shell[r])
  BY OwnTypes, Ids DEF OwnInv, T!TypeOK, LinesInv
<1>2. TasksKeep
  <2>1. UNCHANGED session /\ \A u \in Task : u # t => pcT'[u] = pcT[u]
    BY <1>1 DEF T!Reject, T!Poll, T!Interrupt, T!Reset, T!Close, T!Refuse, T!Hold, T!handles
  <2>2. /\ pcT[t] \in {"wait", "close"}
        /\ pcT'[t] \in {"done", "close", "window", "drain", "signal", "swap"}
        /\ pcT[t] = "close" => pcT'[t] = "close"
        /\ pcT'[t] = "swap" => pcT[t] = "wait"
    BY <1>1 DEF T!Reject, T!Poll, T!Interrupt, T!Reset, T!Close, T!Refuse, T!Hold, T!Allowed
  <2>3. \A g \in T!Object, u \in Task : u # t => (holder'[g] = u => holder[g] = u)
    BY <1>1 DEF T!Reject, T!Poll, T!Interrupt, T!Reset, T!Close, T!Refuse, T!Hold
  <2>4. QED
    BY <2>1, <2>2, <2>3 DEF TasksKeep
<1>3. CASE shell' = shell
  BY <1>1, <1>2, <1>3, NoneOnwards, LinesFrame
<1>4. CASE T!Reject(t, h) \/ T!Poll(t, h)
  BY <1>3, <1>4 DEF T!Reject, T!Poll, T!Refuse
<1>5. CASE T!Interrupt(t, h)
  <2>1. shell' = shell \/ shell' = [shell EXCEPT ![s] = [shell[s] EXCEPT !.signals = @ \cup {t}]]
    BY <1>1, <1>5 DEF T!Interrupt, T!Refuse
  <2>2. /\ Onwards(shell[s], [shell[s] EXCEPT !.signals = @ \cup {t}])
        /\ [shell[s] EXCEPT !.signals = @ \cup {t}] \in T!Shell
    BY <1>1, ShellOnwards, ShellTypes
  <2>3. QED
    BY <1>1, <1>2, <1>3, <2>1, <2>2, OneOnwards, LinesFrame
<1>6. CASE T!Reset(t, h)
  <2>1. /\ shell' = [shell EXCEPT ![t] = [shell[t] EXCEPT !.life = "starting"]]
        /\ pcT[t] = "wait" /\ reqT[t].kind \in T!Restarting
    BY <1>6 DEF T!Reset, T!Allowed
  <2>2. shell[t].life = "none"
    BY <2>1 DEF OwnInv, Unused, Begins
  <2>3. /\ Onwards(shell[t], [shell[t] EXCEPT !.life = "starting"])
        /\ [shell[t] EXCEPT !.life = "starting"] \in T!Shell
    BY <1>1, <2>2, ShellOnwards, ShellTypes
  <2>4. QED
    BY <1>1, <1>2, <2>1, <2>3, OneOnwards, LinesFrame
<1>7. CASE T!Close(t, h)
  <2>1. shell' = [shell EXCEPT ![s] = [shell[s] EXCEPT !.life = IF @ = "live" THEN "closing" ELSE @, !.killer = t]]
    BY <1>1, <1>7 DEF T!Close, T!KillBy
  <2>2. /\ Onwards(shell[s], [shell[s] EXCEPT !.life = IF @ = "live" THEN "closing" ELSE @, !.killer = t])
        /\ [shell[s] EXCEPT !.life = IF @ = "live" THEN "closing" ELSE @, !.killer = t] \in T!Shell
    BY <1>1, ShellOnwards, ShellTypes
  <2>3. QED
    BY <1>1, <1>2, <2>1, <2>2, OneOnwards, LinesFrame
<1>8. QED
  BY <1>4, <1>5, <1>6, <1>7

\* A command is written to a shell that has none.
LEMMA LinesExecute ==
  ASSUME OwnInv, LinesInv, NEW t \in Task, NEW h \in T!Object, T!Execute(t, h)
  PROVE  LinesInv'
<1> DEFINE s == session[h]
           k == shell[s]
           after == [k EXCEPT !.flag = FALSE, !.pending = t, !.stdin = Append(@, T!CommandOf(t))]
<1>1. /\ T!TypeOK /\ pcT \in [Task -> T!PC] /\ holder \in [T!Object -> Task \cup {None}]
      /\ s \in T!Object /\ shell \in [T!Object -> T!Shell] /\ k \in T!Shell /\ Tracked(k)
      /\ pcT[t] = "wait" /\ h \in at[t] /\ Published(h) /\ (Gone(k) => k.dead)
      /\ session' = session /\ \A g \in T!Object : session[g] \in T!Object
  <2>1. pcT[t] = "wait" /\ h \in at[t] /\ session' = session
    BY DEF T!Execute, T!Allowed, T!Turn
  <2>2. QED
    BY <2>1, OwnTypes, ShellOfTask DEF OwnInv, T!TypeOK, LinesInv
<1>2. CASE shell' = shell
  <2>1. TasksKeep
    BY <1>1, Ids DEF TasksKeep, T!Execute, T!Refuse, T!Hold
  <2>2. QED
    BY <1>1, <1>2, <2>1, NoneOnwards, LinesFrame
<1>3. CASE k.pending = None /\ ~k.dead
  <2>1. /\ shell' = [shell EXCEPT ![s] = after] /\ holder[h] = None
        /\ pcT' = [pcT EXCEPT ![t] = "drain"] /\ holder' = [holder EXCEPT ![h] = t]
    BY <1>1, <1>3 DEF T!Execute, T!Refuse, T!Hold, T!Allowed, T!Turn
  <2>2. after \in T!Shell
    BY <1>1, ShellTypes
  <2>3. /\ after.stdin = Append(k.stdin, T!CommandOf(t)) /\ after.fg = k.fg /\ after.out = k.out
        /\ after.pending = t /\ ~Gone(after)
    BY <1>1, <1>3 DEF T!Shell, Gone
  <2> HIDE DEF after, k, s
  <2>4. Unheard(k, T!CommandOf(t))
    BY <1>1 DEF LinesInv, Silent, k
  <2>5. /\ Tracked(after)
        /\ \A line \in T!Line : Unheard(k, line) /\ line # T!CommandOf(t) => Unheard(after, line)
    BY <1>1, <1>3, <2>2, <2>3, <2>4, Lines, LinesWrites DEF Unheard
  <2>6. shell'[s] = after /\ \A r \in T!Object : r # s => shell'[r] = shell[r]
    BY <1>1, <2>1
  <2>7. \A u \in Task : u # t => pcT'[u] = pcT[u]
    BY <1>1, <2>1
  <2>8. Silent'
    <3> SUFFICES ASSUME NEW u \in Task, NEW r \in T!Object
                 PROVE  /\ pcT'[u] \in {"new", "wait", "swap", "teardown"} => Unheard(shell'[r], T!CommandOf(u))
                        /\ pcT'[u] \in {"new", "wait", "swap", "teardown", "signal", "drain"}
                             => Unheard(shell'[r], T!ProbeOf(u))
      BY DEF Silent
    <3>1. /\ pcT'[u] \in {"new", "wait", "swap", "teardown"} =>
               Unheard(shell[r], T!CommandOf(u)) /\ T!CommandOf(u) # T!CommandOf(t)
          /\ pcT'[u] \in {"new", "wait", "swap", "teardown", "signal", "drain"}
               => Unheard(shell[r], T!ProbeOf(u)) /\ T!ProbeOf(u) # T!CommandOf(t)
      BY <1>1, <2>1, <2>7, Lines DEF LinesInv, Silent
    <3>2. QED
      BY <2>5, <2>6, <3>1, Lines DEF k
  <2>9. Probed'
    <3> SUFFICES ASSUME NEW u \in Task, NEW g \in T!Object, holder'[g] = u, pcT'[u] = "resync"
                 PROVE  Behind(shell'[session[g]], u)
      BY <1>1 DEF Probed
    <3>1. u # t /\ g # h /\ holder[g] = u /\ pcT[u] = "resync"
      BY <1>1, <2>1, <2>7
    <3>2. Published(g)
      BY <3>1 DEF OwnInv, Holders, Asked
    <3>3. session[g] # s
      BY <1>1, <3>1, <3>2 DEF OwnInv, OneHandle, s
    <3>4. QED
      BY <1>1, <2>6, <3>1, <3>3 DEF LinesInv, Probed
  <2>10. \A r \in T!Object : Tracked(shell'[r])
    BY <2>5, <2>6 DEF LinesInv
  <2>11. QED
    BY <2>8, <2>9, <2>10 DEF LinesInv
<1>4. QED
  BY <1>2, <1>3 DEF T!Execute, T!Refuse

\* Text, or the probe of an interrupt, is written to a shell.
LEMMA LinesTyped ==
  ASSUME OwnInv, LinesInv, NEW t \in Task, NEW h \in T!Object, T!Input(t, h) \/ T!Resync(t, h)
  PROVE  LinesInv'
<1> DEFINE s == session[h]
           k == shell[s]
           line0 == IF pcT[t] = "wait" THEN T!TextOf(t) ELSE T!ProbeOf(t)
<1>1. /\ T!TypeOK /\ pcT \in [Task -> T!PC] /\ holder \in [T!Object -> Task \cup {None}]
      /\ s \in T!Object /\ shell \in [T!Object -> T!Shell] /\ k \in T!Shell /\ Tracked(k)
      /\ pcT[t] \in {"wait", "drain"} /\ h \in at[t] /\ Published(h) /\ (Gone(k) => k.dead)
      /\ session' = session /\ \A g \in T!Object : session[g] \in T!Object
  <2>1. pcT[t] \in {"wait", "drain"} /\ h \in at[t] /\ session' = session
    BY DEF T!Input, T!Resync, T!Allowed, T!Turn, T!Works, T!handles
  <2>2. QED
    BY <2>1, OwnTypes, ShellOfTask DEF OwnInv, T!TypeOK, LinesInv
<1>2. /\ T!Input(t, h) => /\ pcT[t] = "wait" /\ line0 = T!TextOf(t) /\ ~T!Resync(t, h)
                            /\ \A u \in Task : holder[h] # u
      /\ T!Resync(t, h) => pcT[t] = "drain" /\ holder[h] = t /\ line0 = T!ProbeOf(t)
  BY Ids DEF T!Input, T!Resync, T!Allowed, T!Turn, T!Works
<1>3. CASE shell' = shell /\ T!Input(t, h)
  <2>1. TasksKeep
    BY <1>1, <1>2, <1>3, Ids DEF TasksKeep, T!Input, T!Refuse, T!Hold
  <2>2. QED
    BY <1>1, <1>3, <2>1, NoneOnwards, LinesFrame
<1>4. CASE \/ T!Input(t, h) /\ k.pending # None /\ ~k.dead
           \/ T!Resync(t, h)
  <2>1. /\ shell'[s].stdin = (IF k.dead THEN k.stdin ELSE Append(k.stdin, line0))
        /\ shell'[s].fg = k.fg /\ shell'[s].out = k.out /\ shell'[s].pending = k.pending
        /\ Gone(shell'[s]) => k.dead
        /\ \A r \in T!Object : r # s => shell'[r] = shell[r]
    <3>1. CASE T!Input(t, h)
      <4>1. shell' = [shell EXCEPT ![s] = [k EXCEPT !.stdin = IF k.dead THEN @ ELSE Append(@, line0)]]
        <5>1. k.pending # None /\ ~k.dead /\ line0 = T!TextOf(t)
          BY <1>2, <1>4, <3>1
        <5>2. shell' = T!Type(s, T!TextOf(t))
          BY <3>1, <5>1 DEF T!Input
        <5>3. QED
          BY <1>1, <5>1, <5>2 DEF T!Type
      <4>2. QED
        BY <1>1, <4>1 DEF T!Shell, Gone
    <3>2. CASE T!Resync(t, h)
      <4>1. shell' = [shell EXCEPT ![s] = [k EXCEPT !.stdin = IF k.dead THEN @ ELSE Append(@, line0), !.flag = FALSE]]
        <5>1. line0 = T!ProbeOf(t)
          BY <1>2, <3>2
        <5>2. QED
          BY <1>1, <3>2, <5>1 DEF T!Resync, T!Type
      <4>2. QED
        BY <1>1, <4>1 DEF T!Shell, Gone
    <3>3. QED
      BY <1>4, <3>1, <3>2
  <2>2. shell'[s] \in T!Shell
    BY <1>1, EnteringShell, WorkingShell, <1>4 DEF Entering, WorkingOn
  <2>3. line0 \in T!Line /\ line0.what # "command"
    BY Lines
  <2>4. /\ \A u \in Task : pcT'[u] \in {"new", "wait", "swap", "teardown"} => u # t /\ pcT[u] \in {"new", "wait", "swap", "teardown"}
        /\ \A u \in Task : pcT'[u] \in {"new", "wait", "swap", "teardown", "signal", "drain"} =>
             /\ pcT[u] \in {"new", "wait", "swap", "teardown", "signal", "drain"}
             /\ line0 # T!ProbeOf(u)
        /\ \A u \in Task, g \in T!Object : holder'[g] = u /\ pcT'[u] = "resync" =>
             \/ u # t /\ g # h /\ holder[g] = u /\ pcT[u] = "resync"
             \/ u = t /\ g = h /\ line0 = T!ProbeOf(t) /\ pcT[t] = "drain"
    <3>1. CASE T!Input(t, h)
      <4>1. /\ pcT' = [pcT EXCEPT ![t] = "drain"] /\ holder' = [holder EXCEPT ![h] = t] /\ line0 = T!TextOf(t)
            /\ pcT[t] = "wait"
        BY <1>2, <1>4, <3>1 DEF T!Input, T!Refuse, T!Hold
      <4>2. \A u \in Task : T!TextOf(t) # T!ProbeOf(u)
        BY Lines
      <4>3. QED
        BY <1>1, <1>2, <4>1, <4>2, <3>1
    <3>2. CASE T!Resync(t, h)
      <4>1. /\ pcT' = [pcT EXCEPT ![t] = "resync"] /\ holder' = holder /\ line0 = T!ProbeOf(t) /\ pcT[t] = "drain"
            /\ holder[h] = t
        BY <1>2, <3>2 DEF T!Resync, T!lock
      <4>2. \A g \in T!Object : holder[g] = t => g = h
        BY <1>1, <4>1 DEF OwnInv, Holders, AtOne, Guarded
      <4>3. QED
        BY <1>1, <4>1, <4>2, Lines
    <3>3. QED
      BY <1>4, <3>1, <3>2
  <2> HIDE DEF k, s, line0
  <2>5. CASE k.dead
    <3>1. k.stdin = <<>> /\ k.fg = None
      BY <1>1, <2>5 DEF Tracked
    <3>2. Less(k, shell'[s])
      BY <2>1, <2>5, <3>1 DEF Less
    <3>3. Onwards(k, shell'[s])
      BY <1>1, <2>2, <3>2, LinesLess
    <3>4. ShellsOnwards
      <4>1. \A r \in T!Object : r # s => shell[r] \in T!Shell /\ Tracked(shell[r])
        BY <1>1 DEF LinesInv
      <4>2. QED
        BY <2>1, <3>3, <4>1, ShellOnwards DEF ShellsOnwards, k
    <3>5. (\A r \in T!Object : Tracked(shell'[r])) /\ Silent'
      BY <1>1, <2>4, <3>4, Lines DEF ShellsOnwards, Onwards, Silent, LinesInv
    <3>6. Probed'
      <4> SUFFICES ASSUME NEW u \in Task, NEW g \in T!Object, holder'[g] = u, pcT'[u] = "resync"
                   PROVE  Behind(shell'[session[g]], u)
        BY <1>1 DEF Probed
      <4>1. CASE u = t /\ g = h
        <5>1. Unheard(k, T!ProbeOf(t))
          BY <1>1, <2>4, <4>1 DEF LinesInv, Silent, k
        <5>2. QED
          BY <2>1, <3>1, <2>5, <4>1, <5>1 DEF Behind, Unheard, s
      <4>2. CASE ~(u = t /\ g = h)
        BY <1>1, <2>4, <3>4, <4>2 DEF LinesInv, Probed, ShellsOnwards, Onwards
      <4>3. QED
        BY <4>1, <4>2
    <3>7. QED
      BY <3>5, <3>6 DEF LinesInv
  <2>6. CASE ~k.dead
    <3>1. /\ Tracked(shell'[s])
          /\ \A line \in T!Line : Unheard(k, line) /\ line # line0 => Unheard(shell'[s], line)
          /\ \A u \in Task : line0 # T!ProbeOf(u) /\ Behind(k, u) => Behind(shell'[s], u)
          /\ \A u \in Task : line0 = T!ProbeOf(u) /\ Unheard(k, line0) => Behind(shell'[s], u)
      <4>1. ~Gone(shell'[s]) /\ shell'[s].stdin = Append(k.stdin, line0)
        BY <2>1, <2>6
      <4>2. QED
        BY <1>1, <2>1, <2>2, <2>3, <4>1, LinesWrites
    <3>2. Silent'
      <4> SUFFICES ASSUME NEW u \in Task, NEW r \in T!Object
                   PROVE  /\ pcT'[u] \in {"new", "wait", "swap", "teardown"} => Unheard(shell'[r], T!CommandOf(u))
                          /\ pcT'[u] \in {"new", "wait", "swap", "teardown", "signal", "drain"}
                               => Unheard(shell'[r], T!ProbeOf(u))
        BY DEF Silent
      <4>1. /\ pcT'[u] \in {"new", "wait", "swap", "teardown"} =>
                 Unheard(shell[r], T!CommandOf(u)) /\ T!CommandOf(u) # line0
            /\ pcT'[u] \in {"new", "wait", "swap", "teardown", "signal", "drain"} =>
                 Unheard(shell[r], T!ProbeOf(u)) /\ T!ProbeOf(u) # line0
        BY <2>3, <2>4, Lines DEF LinesInv, Silent
      <4>2. QED
        BY <2>1, <3>1, <4>1, Lines DEF k
    <3>3. Probed'
      <4> SUFFICES ASSUME NEW u \in Task, NEW g \in T!Object, holder'[g] = u, pcT'[u] = "resync"
                   PROVE  Behind(shell'[session[g]], u)
        BY <1>1 DEF Probed
      <4>1. CASE u = t /\ g = h
        <5>1. Unheard(k, T!ProbeOf(t)) /\ line0 = T!ProbeOf(t)
          BY <1>1, <2>4, <4>1 DEF LinesInv, Silent, k
        <5>2. QED
          BY <3>1, <4>1, <5>1 DEF s
      <4>2. CASE ~(u = t /\ g = h)
        <5>1. u # t /\ g # h /\ holder[g] = u /\ pcT[u] = "resync"
          BY <2>4, <4>2
        <5>2. Published(g)
          BY <5>1 DEF OwnInv, Holders, Asked
        <5>3. session[g] # s
          BY <1>1, <5>1, <5>2 DEF OwnInv, OneHandle, s
        <5>4. QED
          BY <1>1, <2>1, <5>1, <5>3 DEF LinesInv, Probed
      <4>3. QED
        BY <4>1, <4>2
    <3>4. \A r \in T!Object : Tracked(shell'[r])
      BY <2>1, <3>1 DEF LinesInv
    <3>5. QED
      BY <3>2, <3>3, <3>4 DEF LinesInv
  <2>7. QED
    BY <2>5, <2>6
<1>5. QED
  BY <1>2, <1>3, <1>4 DEF T!Input, T!Refuse

\* What an operation reads, it takes from the output.
LEMMA LinesWorks ==
  ASSUME OwnInv, LinesInv, NEW t \in Task, NEW h \in T!Object,
         T!Drain(t, h) \/ T!Synced(t, h) \/ T!Discard(t, h) \/ T!Window(t, h)
  PROVE  LinesInv'
<1> DEFINE s == session[h]
           k == shell[s]
<1>1. /\ T!TypeOK /\ pcT \in [Task -> T!PC] /\ holder \in [T!Object -> Task \cup {None}]
      /\ pcT[t] \in {"drain", "resync", "window"} /\ h \in at[t] /\ holder[h] = t
      /\ s \in T!Object /\ k \in T!Shell /\ Tracked(k)
  <2>1. pcT[t] \in {"drain", "resync", "window"} /\ h \in at[t] /\ holder[h] = t
    BY DEF T!Drain, T!Synced, T!Discard, T!Window, T!Works
  <2>2. QED
    BY <2>1, OwnTypes, ShellOfTask DEF OwnInv, LinesInv
<1>2. TasksKeep
  <2>1. UNCHANGED session /\ (pcT' = pcT \/ pcT' = [pcT EXCEPT ![t] = "done"])
        /\ (holder' = holder \/ holder' = [holder EXCEPT ![h] = None])
    BY DEF T!Drain, T!Synced, T!Discard, T!Window, T!Apply, T!task, T!handles, T!lock
  <2>2. QED
    BY <1>1, <2>1, Ids DEF TasksKeep
<1>3. ShellsOnwards
  <2>1. CASE shell' = shell
    <3>1. QED
      BY <1>1, <2>1, NoneOnwards
  <2>2. ASSUME T!Drain(t, h), shell' # shell
        PROVE  ShellsOnwards
    <3>1. \/ /\ shell' = [shell EXCEPT ![s] = [k EXCEPT !.pending = None, !.out = {}]]
             /\ k.pending # None /\ T!CommandOf(k.pending) \in k.out
          \/ /\ shell' = [shell EXCEPT ![s] = [k EXCEPT !.pending = None]]
             /\ k.dead
      BY <1>1, <2>2 DEF T!Drain, T!Printed
    <3> HIDE DEF k, s
    <3>2. Idle(k)
      <4>1. k.pending # None => k.pending \in Task
        BY <1>1 DEF T!Shell
      <4>2. k.dead => k.stdin = <<>> /\ k.fg = None
        BY <1>1 DEF Tracked
      <4>3. QED
        BY <1>1, <3>1, <4>1, <4>2, Lines DEF Tracked, Idle, Has, Waits
    <3>3. /\ Onwards(k, [k EXCEPT !.pending = None, !.out = {}]) /\ [k EXCEPT !.pending = None, !.out = {}] \in T!Shell
          /\ Onwards(k, [k EXCEPT !.pending = None]) /\ [k EXCEPT !.pending = None] \in T!Shell
      BY <1>1, <3>2, ShellOnwards, ShellTypes
    <3>4. QED
      BY <1>1, <3>1, <3>3, OneOnwards DEF k
  <2>3. ASSUME T!Synced(t, h)
        PROVE  ShellsOnwards
    <3>1. \/ /\ shell' = [shell EXCEPT ![s] = [k EXCEPT !.pending = None, !.out = {}]]
             /\ T!ProbeOf(t) \in k.out \/ k.dead
          \/ shell' = [shell EXCEPT ![s] = [k EXCEPT !.pending = k.pending, !.out = {}]]
      BY <1>1, <2>3 DEF T!Synced, T!Answered, T!StillPending
    <3>2. Behind(k, t)
      BY <1>1, <2>3 DEF LinesInv, Probed, T!Synced, T!Works
    <3> HIDE DEF k, s
    <3>3. T!ProbeOf(t) \in k.out \/ k.dead => Idle(k)
      <4>1. k.dead => k.stdin = <<>> /\ k.fg = None
        BY <1>1 DEF Tracked
      <4>2. QED
        BY <3>2, <4>1, Lines DEF Behind, Idle, Has, Waits
    <3>4. /\ Idle(k) => Onwards(k, [k EXCEPT !.pending = None, !.out = {}])
          /\ [k EXCEPT !.pending = None, !.out = {}] \in T!Shell
          /\ Onwards(k, [k EXCEPT !.pending = k.pending, !.out = {}])
      BY <1>1, ShellOnwards, ShellTypes
    <3>5. [k EXCEPT !.pending = k.pending, !.out = {}] \in T!Shell
      <4>1. k.pending \in Task \cup {None}
        BY <1>1 DEF T!Shell
      <4>2. QED
        BY <1>1, <4>1, ShellTypes
    <3>6. QED
      BY <1>1, <3>1, <3>3, <3>4, <3>5, OneOnwards DEF k
  <2>4. ASSUME T!Discard(t, h) \/ T!Window(t, h), shell' # shell
        PROVE  ShellsOnwards
    <3>1. \/ shell' = [shell EXCEPT ![s] = [k EXCEPT !.out = {}]]
          \/ shell' = [shell EXCEPT ![s] = [k EXCEPT !.flag = FALSE, !.out = {}]]
      BY <1>1, <2>4 DEF T!Discard, T!Window
    <3> HIDE DEF k, s
    <3>2. /\ Onwards(k, [k EXCEPT !.out = {}]) /\ [k EXCEPT !.out = {}] \in T!Shell
          /\ Onwards(k, [k EXCEPT !.flag = FALSE, !.out = {}]) /\ [k EXCEPT !.flag = FALSE, !.out = {}] \in T!Shell
      BY <1>1, ShellOnwards, ShellTypes
    <3>3. QED
      BY <1>1, <3>1, <3>2, OneOnwards DEF k
  <2>5. QED
    BY <1>1, <2>2, <2>3, <2>4, NoneOnwards
<1>4. QED
  BY <1>1, <1>2, <1>3, LinesFrame

\* An operation goes on or ends without a look at the lines.
LEMMA LinesAround ==
  ASSUME OwnInv, LinesInv, NEW t \in Task, NEW h \in T!Object,
         T!Signalled(t, h) \/ T!Swap(t, h) \/ T!KeepOld(t, h) \/ T!TornDown(t, h) \/ T!Closed(t, h)
  PROVE  LinesInv'
<1> DEFINE s == session[h]
<1>1. /\ T!TypeOK /\ pcT \in [Task -> T!PC] /\ holder \in [T!Object -> Task \cup {None}]
      /\ session \in [T!Object -> T!Object]
      /\ s \in T!Object /\ shell[s] \in T!Shell /\ Tracked(shell[s])
  BY OwnTypes DEF OwnInv, T!TypeOK, LinesInv
<1>2. CASE T!Swap(t, h)
  <2>1. /\ pcT[t] = "swap" /\ pcT' = [pcT EXCEPT ![t] = "teardown"] /\ holder' = holder /\ holder[h] = t
        /\ session' = [session EXCEPT ![h] = t]
        /\ shell' = [shell EXCEPT ![s] = [shell[s] EXCEPT !.life = IF @ = "live" THEN "closing" ELSE @, !.killer = t]]
    BY <1>1, <1>2 DEF T!Swap, T!Works, T!KillBy, T!Old, T!lock
  <2>2. TasksKeep
    BY <1>1, <2>1 DEF TasksKeep
  <2>3. /\ Onwards(shell[s], [shell[s] EXCEPT !.life = IF @ = "live" THEN "closing" ELSE @, !.killer = t])
        /\ [shell[s] EXCEPT !.life = IF @ = "live" THEN "closing" ELSE @, !.killer = t] \in T!Shell
    BY <1>1, ShellOnwards, ShellTypes
  <2>4. QED
    BY <1>1, <2>1, <2>2, <2>3, OneOnwards, LinesFrame
<1>3. CASE T!Signalled(t, h) \/ T!KeepOld(t, h) \/ T!TornDown(t, h) \/ T!Closed(t, h)
  <2>1. /\ shell' = shell /\ session' = session
        /\ holder' = holder \/ holder' = [holder EXCEPT ![h] = None]
    BY <1>3 DEF T!Signalled, T!KeepOld, T!TornDown, T!Closed, T!Apply, T!handles, T!lock
  <2>2. /\ pcT' = [pcT EXCEPT ![t] = pcT'[t]]
        /\ \/ pcT[t] = "signal" /\ pcT'[t] \in {"drain", "done"}
           \/ pcT[t] = "teardown" /\ pcT'[t] \in {"wait", "done"}
           \/ pcT'[t] \in {"done", "cancelled", "close"}
    BY <1>1, <1>3 DEF T!Signalled, T!KeepOld, T!TornDown, T!Closed, T!Apply, T!Works
  <2>3. TasksKeep
    BY <1>1, <2>1, <2>2, Ids DEF TasksKeep
  <2>4. QED
    BY <1>1, <2>1, <2>3, NoneOnwards, LinesFrame
<1>4. QED
  BY <1>2, <1>3

LEMMA LinesLiving ==
  ASSUME OwnInv, LinesInv, NEW s \in T!Object, Living(s)
  PROVE  LinesInv'
<1> DEFINE k == shell[s]
<1>1. /\ T!TypeOK /\ shell \in [T!Object -> T!Shell] /\ k \in T!Shell /\ Tracked(k)
      /\ \A r \in T!Object : shell[r] \in T!Shell /\ Tracked(shell[r])
      /\ shell' \in [T!Object -> T!Shell] /\ shell'[s] \in T!Shell
  <2>1. T!TypeOK'
    BY LivingTypes DEF OwnInv
  <2>2. shell' \in [T!Object -> T!Shell]
    BY <2>1 DEF T!TypeOK
  <2>3. QED
    BY <2>2 DEF OwnInv, T!TypeOK, LinesInv
<1>2. TasksKeep
  BY <1>1, LivingLife DEF TasksKeep
<1>3. \A r \in T!Object : r # s => shell'[r] = shell[r]
  BY <1>1, LivingLife DEF LifeGoesOn
<1>4. Onwards(k, shell'[s])
  <2>1. ASSUME T!Spawn(s) \/ T!Kill(s)
        PROVE  Onwards(k, shell'[s])
    <3>1. \/ k.life = "starting" /\ shell'[s] = [k EXCEPT !.life = "live"]
          \/ k.life = "starting" /\ shell'[s] = [k EXCEPT !.life = "closed", !.dead = TRUE]
          \/ shell'[s] = [k EXCEPT !.life = "closed", !.dead = TRUE, !.stdin = <<>>, !.fg = None, !.hit = FALSE]
      BY <1>1, <2>1 DEF T!Spawn, T!Kill
    <3>2. QED
      BY <1>1, <3>1, ShellOnwards
  <2>2. ASSUME NEW t \in Task, T!Signal(s, t)
        PROVE  Onwards(k, shell'[s])
    <3> DEFINE hit == k.fg # None
    <3>1. shell'[s] = [k EXCEPT !.signals = @ \ {t}, !.flag = TRUE, !.hit = hit]
      BY <1>1, <2>2 DEF T!Signal
    <3>2. hit \in BOOLEAN
      OBVIOUS
    <3>3. \A b \in BOOLEAN : Onwards(k, [k EXCEPT !.signals = @ \ {t}, !.flag = TRUE, !.hit = b])
      BY <1>1, ShellOnwards
    <3> HIDE DEF hit, k
    <3>4. QED
      BY <3>1, <3>2, <3>3
  <2>3. ASSUME T!ReadsLine(s)
        PROVE  Onwards(k, shell'[s])
    <3>1. /\ ~Gone(shell'[s]) /\ k.fg = None /\ k.stdin # <<>>
          /\ shell'[s].stdin = Tail(k.stdin) /\ shell'[s].pending = k.pending
          /\ shell'[s].fg = IF Head(k.stdin).what = "probe" THEN None ELSE Head(k.stdin)
          /\ shell'[s].out = IF Head(k.stdin).what = "probe" THEN k.out \cup {Head(k.stdin)} ELSE k.out
      BY <1>1, <2>3 DEF T!ReadsLine, T!Up, Gone, T!Shell
    <3>2. QED
      BY <1>1, <3>1, LinesReads
  <2>4. ASSUME T!TakesInput(s)
        PROVE  Onwards(k, shell'[s])
    <3>1. /\ ~Gone(shell'[s]) /\ k.stdin # <<>>
          /\ shell'[s].stdin = Tail(k.stdin) /\ shell'[s].pending = k.pending
          /\ shell'[s].fg = k.fg /\ shell'[s].out = k.out
      BY <1>1, <2>4 DEF T!TakesInput, T!Up, Gone, T!Shell
    <3>2. QED
      BY <1>1, <3>1, LinesTakes
  <2>5. ASSUME T!Ends(s)
        PROVE  Onwards(k, shell'[s])
    <3> DEFINE out == IF k.fg.what = "command" THEN k.out \cup {k.fg} ELSE k.out
    <3>1. /\ ~Gone(k) /\ k.fg # None
          /\ \/ shell'[s] = [k EXCEPT !.fg = None, !.hit = FALSE, !.out = out]
             \/ shell'[s] = [k EXCEPT !.fg = None, !.hit = FALSE]
      BY <1>1, <2>5 DEF T!Ends, T!Up, Gone
    <3>2. CASE shell'[s] = [k EXCEPT !.fg = None, !.hit = FALSE]
      BY <1>1, <3>1, <3>2, ShellOnwards
    <3>3. CASE shell'[s] = [k EXCEPT !.fg = None, !.hit = FALSE, !.out = out]
      <4>1. /\ ~Gone(shell'[s]) /\ shell'[s].stdin = k.stdin /\ shell'[s].pending = k.pending
            /\ shell'[s].fg = None /\ shell'[s].out = out
        BY <1>1, <3>1, <3>3 DEF Gone, T!Shell
      <4>2. QED
        BY <1>1, <3>1, <4>1, LinesEnds
    <3>4. QED
      BY <3>1, <3>2, <3>3
  <2>6. ASSUME T!Exits(s)
        PROVE  Onwards(k, shell'[s])
    <3>1. shell'[s] = [k EXCEPT !.dead = TRUE, !.fg = None, !.hit = FALSE, !.stdin = <<>>]
      BY <1>1, <2>6 DEF T!Exits
    <3>2. QED
      BY <1>1, <3>1, ShellOnwards
  <2>7. QED
    BY <2>1, <2>2, <2>3, <2>4, <2>5, <2>6 DEF Living, T!Thread, T!ShellRuns
<1>5. ShellsOnwards
  BY <1>1, <1>3, <1>4, ShellOnwards DEF ShellsOnwards
<1>6. QED
  BY <1>1, <1>2, <1>5, LinesFrame

LEMMA LinesNext ==
  ASSUME OwnInv, LinesInv, T!Next
  PROVE  LinesInv'
BY LinesAside, LinesEnters, LinesExecute, LinesTyped, LinesWorks, LinesAround, LinesLiving DEF T!Next, T!Step, Living

LEMMA LinesStart == T!Init => LinesInv
<1> SUFFICES ASSUME T!Init
             PROVE  LinesInv
  OBVIOUS
<1>1. \A s \in T!Object : /\ shell[s].stdin = <<>> /\ shell[s].fg = None /\ shell[s].out = {}
  BY DEF T!Init, T!NoShell, T!LiveShell
<1>2. \A s \in T!Object, line \in T!Line : ~Has(shell[s], line) /\ Unheard(shell[s], line)
  BY <1>1, Lines DEF Has, Waits, Unheard
<1>3. \A s \in T!Object : Tracked(shell[s])
  BY <1>1, <1>2, Lines DEF Tracked
<1>4. Silent /\ Probed
  BY <1>2, Lines, Ids DEF Silent, Probed, T!Init
<1>5. QED
  BY <1>3, <1>4 DEF LinesInv

LEMMA CommandIsPending == LinesInv => T!CommandsTracked
BY DEF LinesInv, Tracked, Has, Waits, T!CommandsTracked

-----------------------------------------------------------------------------
(* Terminals: the theorems, for both parts side by side.                   *)

LEMMA TerminalsStart == BothInit => TerminalsInv
BY OwnStart, LinesStart, QuotaStart DEF BothInit, TerminalsInv

LEMMA TerminalsStep == TerminalsInv /\ [BothNext]_bothVars => TerminalsInv'
<1> SUFFICES ASSUME TerminalsInv, [BothNext]_bothVars
             PROVE  TerminalsInv'
  OBVIOUS
<1>1. CASE T!Next
  BY <1>1, OwnNext, LinesNext, QuotaNext DEF TerminalsInv
<1>2. CASE UNCHANGED terminalVars
  <2>1. UNCHANGED <<reqT, pcT, at, terminals, creating, state, session, holder, waiting, shell, cancels>>
    BY <1>2 DEF terminalVars
  <2>2. T!TypeOK' /\ T!QuotaHeld'
    BY <2>1 DEF TerminalsInv, OwnInv, T!TypeOK, T!Registered, T!QuotaHeld
  <2>3. Unused' /\ OneHandle' /\ Asked' /\ Holders' /\ AtOne' /\ Reserved' /\ Kept'
    BY <2>1 DEF TerminalsInv, OwnInv, Unused, Begins, OneHandle, Asked, Holders, AtOne, Reserved, Kept, Published, ResetFor,
       T!Registered
  <2>4. Lives' /\ ShellOwned'
    BY <2>1 DEF TerminalsInv, OwnInv, Lives, ShellOwned, Published, T!CloseCancelled
  <2>5. LinesInv'
    BY <2>1 DEF TerminalsInv, LinesInv, Silent, Probed
  <2>6. QED
    BY <2>2, <2>3, <2>4, <2>5 DEF TerminalsInv, OwnInv
<1>3. QED
  BY <1>1, <1>2 DEF BothNext, CallsNext, TerminalsNext, bothVars

LEMMA TerminalsAlways == BothSpec => []TerminalsInv
BY TerminalsStart, TerminalsStep, PTL DEF BothSpec

(* The quota counts every terminal there is or is about to be, however     *)
(* creations are joined, cancelled, or overtaken by a reset_all            *)
(* (TerminalSessionManager.create).                                        *)
THEOREM QuotaIsHeld == BothSpec => []QuotaHeld
<1>1. TerminalsInv => QuotaHeld
  BY DEF TerminalsInv, QuotaHeld
<1> QED BY <1>1, TerminalsAlways, PTL

(* What a shell runs, or has yet to read, as a command is the one command  *)
(* its session takes for pending, whatever was interrupted, timed out or   *)
(* cancelled (SubprocessBackendSession._drain, _resync).                   *)
THEOREM CommandsAreTracked == BothSpec => []CommandsTracked
<1>1. TerminalsInv => CommandsTracked
  BY CommandIsPending DEF TerminalsInv, CommandsTracked
<1> QED BY <1>1, TerminalsAlways, PTL

(* Nobody works on a session while it is closed or is being closed, unless *)
(* the close was cancelled (TerminalHandle.op_lock,                        *)
(* TerminalSessionManager.close).                                          *)
THEOREM ClosesAlone == BothSpec => []ClosedAlone
<1>1. TerminalsInv => ClosedAlone
  BY AloneOnShell DEF TerminalsInv, ClosedAlone
<1> QED BY <1>1, TerminalsAlways, PTL

(* A shell that nobody is killing has an owner, unless its start or a      *)
(* reset_all was cancelled (TerminalSessionManager.create, reset,          *)
(* reset_all).                                                             *)
THEOREM ShellsAreOwned == BothSpec => []NoShellLost
<1>1. TerminalsInv => NoShellLost
  BY ShellHasOwner DEF TerminalsInv, NoShellLost
<1> QED BY <1>1, TerminalsAlways, PTL

(* Side by side, the tool calls do what they do by themselves: what is     *)
(* proved of Spec holds in the runtime (service.py).                       *)
THEOREM CallsBesideTerminals == BothSpec => Spec
<1>1. BothInit => Init
  BY DEF BothInit
<1>2. [BothNext]_bothVars => [Next]_vars
  BY DEF BothNext, CallsNext, TerminalsNext, bothVars
<1> QED BY <1>1, <1>2, PTL DEF BothSpec, Spec
-----------------------------------------------------------------------------
(* Terminals: somebody can always go on.                                   *)

\* The members of a queue; nobody is in it twice.
In(q, t) == \E n \in DOMAIN q : q[n] = t
Once(q) == \A m, n \in DOMAIN q : q[m] = q[n] => m = n

LEMMA QueueAppend ==
  ASSUME NEW q \in Seq(Task), NEW t \in Task, Once(q), ~In(q, t)
  PROVE  /\ Once(Append(q, t)) /\ \A u \in Task : In(Append(q, t), u) <=> In(q, u) \/ u = t
<1>1. /\ Len(q) \in Nat /\ DOMAIN q = 1 .. Len(q)
      /\ DOMAIN Append(q, t) = 1 .. Len(q) + 1
      /\ Append(q, t)[Len(q) + 1] = t
      /\ \A n \in 1 .. Len(q) : Append(q, t)[n] = q[n]
  OBVIOUS
<1>2. PICK a : a = Append(q, t)
  OBVIOUS
<1>3. \A u \in Task : In(a, u) <=> In(q, u) \/ u = t
  <2>1. \A n \in 1 .. Len(q) : n \in 1 .. Len(q) + 1
    BY <1>1
  <2>2. Len(q) + 1 \in 1 .. Len(q) + 1 /\ \A n \in 1 .. Len(q) + 1 : n = Len(q) + 1 \/ n \in 1 .. Len(q)
    BY <1>1
  <2> QED BY <1>1, <1>2, <2>1, <2>2 DEF In
<1>4. Once(a)
  <2>1. \A n \in 1 .. Len(q) + 1 : n = Len(q) + 1 \/ n \in 1 .. Len(q)
    BY <1>1
  <2>2. \A n \in 1 .. Len(q) : q[n] # t
    BY <1>1 DEF In
  <2> QED BY <1>1, <1>2, <2>1, <2>2 DEF Once
<1> QED BY <1>2, <1>3, <1>4

LEMMA QueueTail ==
  ASSUME NEW q \in Seq(Task), Once(q), q # <<>>
  PROVE  /\ Once(Tail(q)) /\ In(q, Head(q))
         /\ \A u \in Task : In(Tail(q), u) <=> In(q, u) /\ u # Head(q)
<1>1. /\ Len(q) \in Nat /\ Len(q) # 0 /\ DOMAIN q = 1 .. Len(q)
      /\ DOMAIN Tail(q) = 1 .. Len(q) - 1 /\ Head(q) = q[1]
      /\ \A n \in 1 .. Len(q) - 1 : Tail(q)[n] = q[n + 1]
  OBVIOUS
<1>2. PICK a : a = Tail(q)
  OBVIOUS
<1>3. 1 \in 1 .. Len(q) /\ \A n \in 1 .. Len(q) - 1 : n + 1 \in 1 .. Len(q) /\ n + 1 # 1
  BY <1>1
<1>4. \A n \in 1 .. Len(q) : n # 1 => n - 1 \in 1 .. Len(q) - 1 /\ (n - 1) + 1 = n
  BY <1>1
<1>5. \A m, n \in 1 .. Len(q) - 1 : m + 1 = n + 1 => m = n
  BY <1>1
<1>6. Once(a)
  BY <1>1, <1>2, <1>3, <1>5 DEF Once
<1>7. ASSUME NEW u \in Task PROVE In(a, u) <=> In(q, u) /\ u # Head(q)
  <2>1. ASSUME In(a, u) PROVE In(q, u) /\ u # Head(q)
    BY <1>1, <1>2, <1>3, <2>1 DEF In, Once
  <2>2. ASSUME In(q, u), u # Head(q) PROVE In(a, u)
    <3>1. PICK n \in 1 .. Len(q) : q[n] = u
      BY <1>1, <2>2 DEF In
    <3>2. n - 1 \in 1 .. Len(q) - 1 /\ (n - 1) + 1 = n
      BY <1>1, <1>4, <2>2, <3>1
    <3>3. a[n - 1] = u
      BY <1>1, <1>2, <3>1, <3>2
    <3> QED BY <1>1, <1>2, <3>2, <3>3 DEF In
  <2> QED BY <2>1, <2>2
<1>8. In(q, Head(q))
  BY <1>1, <1>3 DEF In
<1> QED BY <1>2, <1>6, <1>7, <1>8

LEMMA QueueWithout ==
  ASSUME NEW q \in Seq(Task), NEW t \in Task, Once(q)
  PROVE  /\ Once(T!Without(q, t))
         /\ \A u \in Task : In(T!Without(q, t), u) <=> In(q, u) /\ u # t
<1>1. CASE ~In(q, t)
  BY <1>1 DEF T!Without, In
<1>2. CASE In(q, t)
  <2>1. PICK n : n = CHOOSE k \in DOMAIN q : q[k] = t
    OBVIOUS
  <2>2. /\ n \in DOMAIN q /\ q[n] = t
        /\ T!Without(q, t) = SubSeq(q, 1, n - 1) \o SubSeq(q, n + 1, Len(q))
    BY <1>2, <2>1 DEF T!Without, In
  <2>3. PICK L : L = Len(q)
    OBVIOUS
  <2>4. L \in Nat /\ DOMAIN q = 1 .. L /\ n \in 1 .. L
    BY <2>2, <2>3
  <2>5. PICK x, y : x = SubSeq(q, 1, n - 1) /\ y = SubSeq(q, n + 1, L)
    OBVIOUS
  <2>6. /\ x \in Seq(Task) /\ Len(x) = n - 1 /\ \A i \in 1 .. n - 1 : x[i] = q[i]
    BY <2>3, <2>4, <2>5
  <2>7. /\ y \in Seq(Task) /\ Len(y) = L - n /\ \A i \in 1 .. L - n : y[i] = q[n + i]
    BY <2>3, <2>4, <2>5
  <2>8. PICK a : a = x \o y
    OBVIOUS
  <2>9. /\ DOMAIN a = 1 .. L - 1
        /\ \A i \in 1 .. L - 1 : a[i] = IF i < n THEN q[i] ELSE q[i + 1]
    <3>1. a \in Seq(Task) /\ Len(a) = L - 1
      BY <2>4, <2>6, <2>7, <2>8
    <3>2. ASSUME NEW i \in 1 .. L - 1 PROVE a[i] = IF i < n THEN q[i] ELSE q[i + 1]
      <4>1. CASE i < n
        BY <2>4, <2>6, <2>7, <2>8, <4>1
      <4>2. CASE ~(i < n)
        <5>1. a[i] = y[i - (n - 1)]
          BY <2>4, <2>6, <2>7, <2>8, <4>2
        <5>2. i - (n - 1) \in 1 .. L - n /\ n + (i - (n - 1)) = i + 1
          BY <2>4, <4>2
        <5> QED BY <2>7, <4>2, <5>1, <5>2
      <4> QED BY <4>1, <4>2
    <3> QED BY <3>1, <3>2
  <2>10. PICK f : f = [i \in 1 .. L - 1 |-> IF i < n THEN i ELSE i + 1]
    OBVIOUS
  <2>11. /\ \A i \in 1 .. L - 1 : f[i] \in 1 .. L /\ f[i] # n /\ a[i] = q[f[i]]
         /\ \A i, j \in 1 .. L - 1 : f[i] = f[j] => i = j
    BY <2>4, <2>9, <2>10
  <2>12. \A k \in 1 .. L : k # n => \E i \in 1 .. L - 1 : f[i] = k
    <3> SUFFICES ASSUME NEW k \in 1 .. L, k # n PROVE \E i \in 1 .. L - 1 : f[i] = k
      OBVIOUS
    <3>1. CASE k < n
      <4>1. k \in 1 .. L - 1 /\ f[k] = k
        BY <2>4, <2>10, <3>1
      <4> QED BY <4>1
    <3>2. CASE ~(k < n)
      <4>1. k - 1 \in 1 .. L - 1 /\ f[k - 1] = k
        BY <2>4, <2>10, <3>2
      <4> QED BY <4>1
    <3> QED BY <3>1, <3>2
  <2>13. Once(a)
    BY <2>4, <2>9, <2>11 DEF Once
  <2>14. ASSUME NEW u \in Task PROVE In(a, u) <=> In(q, u) /\ u # t
    <3>1. ASSUME In(a, u) PROVE In(q, u) /\ u # t
      <4>1. PICK i \in 1 .. L - 1 : a[i] = u
        BY <2>9, <3>1 DEF In
      <4>2. f[i] \in 1 .. L /\ f[i] # n /\ q[f[i]] = u
        BY <2>11, <4>1
      <4> QED BY <2>2, <2>4, <4>2 DEF In, Once
    <3>2. ASSUME In(q, u), u # t PROVE In(a, u)
      <4>1. PICK k \in 1 .. L : q[k] = u
        BY <2>4, <3>2 DEF In
      <4>2. k # n
        BY <2>2, <3>2, <4>1
      <4>3. PICK i \in 1 .. L - 1 : f[i] = k
        BY <2>12, <4>2
      <4> QED BY <2>9, <2>11, <4>1, <4>3 DEF In
    <3> QED BY <3>1, <3>2
  <2> QED BY <2>2, <2>3, <2>5, <2>8, <2>13, <2>14
<1> QED BY <1>1, <1>2

\* A task on its way holds what it works on, or waits in the queues of what it needs; a shell
\* that it awaits has been started or is being killed, and its reservations are of its start.
OnItsWay(t) ==
  /\ pcT[t] \in Guarded /\ (pcT[t] = "abort" => reqT[t].kind \notin T!Creating) =>
       \E h \in at[t] : holder[h] = t
  /\ pcT[t] = "wait" => \E h \in at[t] : In(waiting[h], t)
  /\ pcT[t] = "close" => at[t] # {} /\ \A h \in at[t] : holder[h] = t \/ In(waiting[h], t)
  /\ \A h \in T!Object :
       In(waiting[h], t) => h \in at[t] /\ pcT[t] \in {"wait", "close"} /\ holder[h] # t
  /\ \A h \in T!Object :
       holder[h] = t /\ pcT[t] = "close" => shell[session[h]].life \in {"closing", "closed"}
  /\ pcT[t] \in {"start", "swap"} => shell[t].life # "none"
  /\ pcT[t] = "abort" => shell[t].life \in {"closing", "closed"}
  /\ \A i \in T!TerminalId :
       creating[i] = t =>
         /\ pcT[t] \in {"start", "abort", "cancelled"}
         /\ reqT[t].kind \in T!Creating /\ i = reqT[t].id
GoInv == (\A t \in Task : OnItsWay(t)) /\ \A h \in T!Object : Once(waiting[h])

\* Whoever holds an op_lock can go on, or a thread can.
LEMMA HolderGoes ==
  ASSUME OwnInv, GoInv, NEW h \in T!Object, NEW t \in Task, holder[h] = t,
         \A s \in T!Object : ~T!ThreadRuns(s)
  PROVE  T!CanGo(t)
<1>1. h \in at[t] /\ pcT[t] \in Guarded \cup {"close"}
  BY DEF OwnInv, Holders
<1>2. shell \in [T!Object -> T!Shell] /\ session \in [T!Object -> T!Object] /\ t \in T!Object
  BY OwnTypes, Ids DEF OwnInv, T!TypeOK
<1>3. \A s \in T!Object : shell[s].life \in {"none", "live", "closed"}
  BY <1>2 DEF T!ThreadRuns, T!Shell
<1>4. /\ pcT[t] = "swap" => shell[t].life # "none"
      /\ pcT[t] = "abort" => shell[t].life \in {"closing", "closed"}
      /\ pcT[t] = "close" => shell[session[h]].life \in {"closing", "closed"}
  BY DEF GoInv, OnItsWay
<1>5. /\ pcT[t] = "swap" => shell[t].life \in {"live", "closed"}
      /\ pcT[t] = "abort" => shell[t].life = "closed"
      /\ pcT[t] = "close" => shell[session[h]].life = "closed"
  BY <1>2, <1>3, <1>4
<1> QED BY <1>1, <1>5 DEF T!CanGo, Guarded

\* So whoever waits for one need not wait for ever.
LEMMA QueueGoes ==
  ASSUME OwnInv, GoInv, NEW h \in T!Object, NEW t \in Task, In(waiting[h], t),
         \A s \in T!Object : ~T!ThreadRuns(s)
  PROVE  \E u \in Task : T!CanGo(u)
<1>1. holder[h] \in Task \cup {None} /\ waiting[h] \in Seq(Task)
  BY OwnTypes DEF OwnInv, T!TypeOK
<1>2. CASE holder[h] \in Task
  BY <1>2, HolderGoes
<1>3. CASE holder[h] = None
  <2>1. waiting[h] # <<>>
    BY <1>1 DEF In
  <2>2. Head(waiting[h]) \in Task
    BY <1>1, <2>1
  <2>3. PICK u \in Task : u = Head(waiting[h])
    BY <2>2
  <2>4. In(waiting[h], u)
    BY <1>1, <2>1, <2>3, QueueTail DEF GoInv
  <2>5. h \in at[u] /\ pcT[u] \in {"wait", "close"}
    BY <2>4 DEF GoInv, OnItsWay
  <2> QED BY <1>3, <2>1, <2>3, <2>5 DEF T!CanGo
<1> QED BY <1>1, <1>2, <1>3

LEMMA SomebodyGoes == OwnInv /\ GoInv => T!NoneStuck
<1> SUFFICES ASSUME OwnInv, GoInv, NEW t \in Task, T!InFlight(t), ~T!LeftWaiting(t),
                    \A s \in T!Object : ~T!ThreadRuns(s)
             PROVE  \E u \in Task : T!CanGo(u)
  BY DEF T!NoneStuck
<1>1. /\ pcT[t] \in T!PC /\ shell \in [T!Object -> T!Shell] /\ Task \subseteq T!Object
      /\ creating \in [T!TerminalId -> Task \cup {None}] /\ at[t] \in SUBSET T!Object
      /\ None \notin T!Object /\ Default \in T!TerminalId
  BY OwnTypes, Ids DEF OwnInv, T!TypeOK
<1>2. \A u \in Task : shell[u].life \in {"none", "live", "closed"}
  BY <1>1 DEF T!ThreadRuns, T!Shell
<1>3. ASSUME NEW u \in Task, pcT[u] = "start" \/ (pcT[u] = "abort" /\ reqT[u].kind \in T!Creating)
      PROVE  T!CanGo(u)
  BY <1>2, <1>3 DEF GoInv, OnItsWay, T!CanGo
<1>4. CASE pcT[t] = "joined"
  <2>1. CASE creating[Default] \notin at[t]
    BY <1>4, <2>1 DEF T!CanGo
  <2>2. CASE creating[Default] \in at[t]
    <3>1. creating[Default] \in Task
      BY <1>1, <2>2
    <3>2. PICK u \in Task : u = creating[Default]
      BY <3>1
    <3>3. pcT[u] \in {"start", "abort"} /\ reqT[u].kind \in T!Creating
      BY <1>1, <1>4, <2>2, <3>2 DEF GoInv, OnItsWay, T!LeftWaiting
    <3> QED BY <1>3, <3>3
  <2> QED BY <2>1, <2>2
<1>5. CASE pcT[t] = "start" \/ (pcT[t] = "abort" /\ reqT[t].kind \in T!Creating)
  BY <1>3, <1>5
<1>6. CASE pcT[t] = "signalled"
  BY <1>6 DEF T!CanGo
<1>7. CASE pcT[t] \in Guarded /\ (pcT[t] = "abort" => reqT[t].kind \notin T!Creating)
  <2>1. PICK h \in at[t] : holder[h] = t
    BY <1>7 DEF GoInv, OnItsWay
  <2> QED BY <1>1, <2>1, HolderGoes
<1>8. CASE pcT[t] \in {"wait", "close"}
  <2>1. PICK h \in at[t] : holder[h] = t \/ In(waiting[h], t)
    BY <1>8 DEF GoInv, OnItsWay
  <2> QED BY <1>1, <2>1, HolderGoes, QueueGoes
<1> QED BY <1>1, <1>4, <1>5, <1>6, <1>7, <1>8 DEF T!PC, T!InFlight, Guarded

\* What a step leaves of a task that does not take it.
Beside(u) ==
  /\ pcT'[u] = pcT[u] /\ reqT'[u] = reqT[u] /\ at'[u] = at[u]
  /\ \A g \in T!Object : holder'[g] = u <=> holder[g] = u
  /\ \A g \in T!Object : In(waiting'[g], u) <=> In(waiting[g], u)
  /\ \A g \in T!Object : holder[g] = u => session'[g] = session[g]
  /\ \A i \in T!TerminalId : creating'[i] = u => creating[i] = u
LivesGoOn ==
  \A s \in T!Object :
    /\ shell[s].life # "none" => shell'[s].life # "none"
    /\ shell[s].life \in {"closing", "closed"} => shell'[s].life \in {"closing", "closed"}

LEMMA BesideGoes ==
  ASSUME OwnInv, NEW u \in Task, OnItsWay(u), Beside(u), LivesGoOn
  PROVE  OnItsWay(u)'
<1>1. /\ session \in [T!Object -> T!Object] /\ u \in T!Object /\ at[u] \in SUBSET T!Object
  BY OwnTypes, Ids DEF OwnInv, T!TypeOK
<1>2. \A h \in T!Object : session[h] \in T!Object
  BY <1>1
<1> QED BY <1>1, <1>2 DEF OnItsWay, Beside, LivesGoOn

LEMMA GoesBy ==
  ASSUME OwnInv, GoInv, NEW t \in Task, \A u \in Task : u # t => Beside(u), LivesGoOn,
         \A h \in T!Object : Once(waiting'[h]), OnItsWay(t)'
  PROVE  GoInv'
<1>1. ASSUME NEW u \in Task, u # t PROVE OnItsWay(u)'
  BY <1>1, BesideGoes DEF GoInv
<1>2. \A u \in Task : OnItsWay(u)'
  BY <1>1
<1> QED BY <1>2 DEF GoInv

\* The queues when somebody's turn has come, and when he comes to one.
LEMMA TurnsQueue ==
  ASSUME OwnInv, GoInv, NEW t \in Task, NEW h \in T!Object, T!Turn(t, h)
  PROVE  /\ \A g \in T!Object : Once(waiting'[g])
         /\ \A g \in T!Object, u \in Task : In(waiting'[g], u) <=> In(waiting[g], u) /\ ~(g = h /\ u = t)
         /\ h \in at[t] /\ holder[h] = None /\ In(waiting[h], t)
<1>1. /\ waiting \in [T!Object -> Seq(Task)]
      /\ h \in at[t] /\ holder[h] = None /\ waiting[h] # <<>> /\ Head(waiting[h]) = t
      /\ waiting' = [waiting EXCEPT ![h] = Tail(waiting[h])]
      /\ \A g \in T!Object : Once(waiting[g])
  BY OwnTypes DEF OwnInv, T!TypeOK, T!Turn, GoInv
<1>2. PICK q \in Seq(Task) : q = waiting[h]
  BY <1>1
<1>3. /\ Once(Tail(q)) /\ In(q, t) /\ \A u \in Task : In(Tail(q), u) <=> In(q, u) /\ u # t
  BY <1>1, <1>2, QueueTail
<1>4. waiting'[h] = Tail(q) /\ \A g \in T!Object : g # h => waiting'[g] = waiting[g]
  BY <1>1, <1>2
<1> QED BY <1>1, <1>2, <1>3, <1>4

LEMMA ComesToQueue ==
  ASSUME OwnInv, GoInv, NEW t \in Task, NEW hs \in SUBSET T!Object,
         \A g \in T!Object : ~In(waiting[g], t),
         waiting' = [g \in T!Object |-> IF g \in hs THEN Append(waiting[g], t) ELSE waiting[g]]
  PROVE  /\ \A g \in T!Object : Once(waiting'[g])
         /\ \A g \in T!Object, u \in Task :
              In(waiting'[g], u) <=> In(waiting[g], u) \/ (g \in hs /\ u = t)
<1>1. \A g \in T!Object : waiting[g] \in Seq(Task) /\ Once(waiting[g])
  BY OwnTypes DEF OwnInv, T!TypeOK, GoInv
<1>2. ASSUME NEW g \in T!Object
      PROVE  /\ Once(waiting'[g])
             /\ \A u \in Task : In(waiting'[g], u) <=> In(waiting[g], u) \/ (g \in hs /\ u = t)
  <2>1. PICK q \in Seq(Task) : q = waiting[g]
    BY <1>1
  <2>2. Once(q) /\ ~In(q, t)
    BY <1>1, <2>1
  <2>3. Once(Append(q, t)) /\ \A u \in Task : In(Append(q, t), u) <=> In(q, u) \/ u = t
    BY <2>2, QueueAppend
  <2>4. waiting'[g] = IF g \in hs THEN Append(q, t) ELSE q
    BY <2>1
  <2> QED BY <2>1, <2>2, <2>3, <2>4
<1> QED BY <1>2

LEMMA GoEnters ==
  ASSUME OwnInv, GoInv, NEW t \in Task, NEW h \in T!Object, Enters(t, h), T!Turn(t, h)
  PROVE  GoInv'
<1>1. /\ pcT \in [Task -> T!PC] /\ at \in [Task -> SUBSET T!Object]
      /\ holder \in [T!Object -> Task \cup {None}] /\ None \notin Task
  BY OwnTypes, Ids DEF OwnInv, T!TypeOK
<1>2. /\ \A g \in T!Object : Once(waiting'[g])
      /\ \A g \in T!Object, u \in Task : In(waiting'[g], u) <=> In(waiting[g], u) /\ ~(g = h /\ u = t)
      /\ h \in at[t] /\ holder[h] = None
  BY TurnsQueue
<1>3. /\ pcT[t] = "wait" /\ UNCHANGED <<reqT, at, creating, session>>
      /\ \/ pcT' = [pcT EXCEPT ![t] = "done"] /\ holder' = holder
         \/ /\ holder' = [holder EXCEPT ![h] = t]
            /\ \E p \in {"drain", "window", "signal"} : pcT' = [pcT EXCEPT ![t] = p]
  BY DEF Enters
<1>4. LivesGoOn
  BY DEF Enters, LifeKept, LivesGoOn
<1>5. /\ \A g \in at[t] : g = h
      /\ \A g \in T!Object : holder[g] # t
  BY <1>2, <1>3 DEF OwnInv, AtOne, Holders, Guarded
<1>6. /\ \A g \in T!Object : ~In(waiting'[g], t)
      /\ \A i \in T!TerminalId : creating[i] # t
  <2>1. OnItsWay(t)
    BY DEF GoInv
  <2> QED BY <1>2, <1>3, <1>5, <2>1 DEF OnItsWay
<1>7. ASSUME NEW u \in Task, u # t PROVE Beside(u)
  BY <1>1, <1>2, <1>3, <1>7 DEF Beside
<1>8. OnItsWay(t)'
  <2>1. CASE pcT' = [pcT EXCEPT ![t] = "done"] /\ holder' = holder
    BY <1>1, <1>3, <1>5, <1>6, <2>1 DEF OnItsWay, Guarded
  <2>2. CASE /\ holder' = [holder EXCEPT ![h] = t]
             /\ \E p \in {"drain", "window", "signal"} : pcT' = [pcT EXCEPT ![t] = p]
    <3>1. pcT'[t] \in {"drain", "window", "signal"} /\ holder'[h] = t /\ h \in at'[t]
      BY <1>1, <1>2, <1>3, <2>2
    <3> QED BY <1>3, <1>6, <3>1 DEF OnItsWay
  <2> QED BY <1>3, <2>1, <2>2
<1> QED BY <1>2, <1>4, <1>7, <1>8, GoesBy

LEMMA GoWorks ==
  ASSUME OwnInv, GoInv, NEW t \in Task, NEW h \in T!Object,
         \/ Ending(t, h)
         \/ GoesOn(t, h) /\ pcT[t] \in {"drain", "signal", "resync"},
         waiting' = waiting
  PROVE  GoInv'
<1>1. /\ pcT \in [Task -> T!PC] /\ at \in [Task -> SUBSET T!Object]
      /\ holder \in [T!Object -> Task \cup {None}] /\ None \notin Task
  BY OwnTypes, Ids DEF OwnInv, T!TypeOK
<1>2. /\ h \in at[t] /\ holder[h] = t /\ pcT[t] \in Guarded
      /\ UNCHANGED <<reqT, at, creating, session>>
      /\ \/ /\ holder' = [holder EXCEPT ![h] = None]
            /\ \E p \in {"done", "cancelled"} : pcT' = [pcT EXCEPT ![t] = p]
         \/ /\ holder' = holder /\ pcT[t] \in {"drain", "signal", "resync"}
            /\ pcT' = pcT \/ \E p \in {"resync", "drain"} : pcT' = [pcT EXCEPT ![t] = p]
  BY DEF Ending, GoesOn, T!Works, Guarded
<1>3. LivesGoOn
  BY DEF Ending, GoesOn, LifeKept, LivesGoOn
<1>4. /\ \A g \in at[t] : g = h
      /\ \A g \in T!Object : holder[g] = t => g = h
      /\ reqT[t].kind \notin T!Creating
  <2>1. \A g \in at[t] : g = h
    BY <1>1, <1>2 DEF OwnInv, AtOne
  <2>2. \A g \in T!Object : holder[g] = t => g \in at[t] /\ reqT[t].kind \notin T!Creating
    BY DEF OwnInv, Holders
  <2> QED BY <1>2, <2>1, <2>2
<1>5. /\ \A g \in T!Object : ~In(waiting[g], t)
      /\ \A i \in T!TerminalId : creating[i] # t
  <2>1. OnItsWay(t)
    BY DEF GoInv
  <2> QED BY <1>2, <1>4, <2>1 DEF OnItsWay, Guarded
<1>6. ASSUME NEW u \in Task, u # t PROVE Beside(u)
  BY <1>1, <1>2, <1>6 DEF Beside
<1>7. OnItsWay(t)'
  <2>1. CASE /\ holder' = [holder EXCEPT ![h] = None]
             /\ \E p \in {"done", "cancelled"} : pcT' = [pcT EXCEPT ![t] = p]
    <3>1. pcT'[t] \in {"done", "cancelled"} /\ \A g \in T!Object : holder'[g] # t
      BY <1>1, <1>4, <2>1
    <3> QED BY <1>2, <1>5, <3>1 DEF OnItsWay, Guarded
  <2>2. CASE /\ holder' = holder /\ pcT[t] \in {"drain", "signal", "resync"}
             /\ pcT' = pcT \/ \E p \in {"resync", "drain"} : pcT' = [pcT EXCEPT ![t] = p]
    <3>1. pcT'[t] \in {"drain", "signal", "resync"} /\ holder'[h] = t /\ h \in at'[t]
      BY <1>1, <1>2, <2>2
    <3> QED BY <1>2, <1>5, <3>1 DEF OnItsWay
  <2> QED BY <1>2, <2>1, <2>2
<1>8. \A g \in T!Object : Once(waiting'[g])
  BY DEF GoInv
<1> QED BY <1>3, <1>6, <1>7, <1>8, GoesBy

\* A task that has not begun, or holds nothing, has nothing in any queue.
LEMMA NothingYet ==
  ASSUME OwnInv, GoInv, NEW t \in Task, pcT[t] \notin Guarded \cup {"wait", "close"}
  PROVE  /\ \A g \in T!Object : holder[g] # t /\ ~In(waiting[g], t)
         /\ pcT[t] \notin {"start", "cancelled"} => \A i \in T!TerminalId : creating[i] # t
<1>1. \A g \in T!Object : holder[g] # t
  BY DEF OwnInv, Holders
<1>2. OnItsWay(t)
  BY DEF GoInv
<1> QED BY <1>1, <1>2 DEF OnItsWay, Guarded

LEMMA GoBeginCreate ==
  ASSUME OwnInv, GoInv, NEW t \in Task, NEW k \in Kinds, T!BeginCreate(t, k)
  PROVE  GoInv'
<1>1. /\ pcT \in [Task -> T!PC] /\ at \in [Task -> SUBSET T!Object] /\ reqT \in [Task -> T!Request]
      /\ creating \in [T!TerminalId -> Task \cup {None}] /\ shell \in [T!Object -> T!Shell]
      /\ t \in T!Object /\ T!IdOf(t, k) \in T!TerminalId
  BY OwnTypes, Ids DEF OwnInv, T!TypeOK, T!IdOf
<1>2. PICK i \in T!TerminalId : i = T!IdOf(t, k)
  BY <1>1
<1>3. /\ pcT[t] = "new" /\ k \in T!Creating
      /\ UNCHANGED <<terminals, state, session, holder, waiting, cancels>>
      /\ reqT' = [reqT EXCEPT ![t] = [kind |-> k, id |-> i]]
      /\ \/ /\ pcT' = [pcT EXCEPT ![t] = "done"] /\ UNCHANGED <<at, creating, shell>>
         \/ /\ pcT' = [pcT EXCEPT ![t] = "joined"] /\ at' = [at EXCEPT ![t] = {creating[i]}]
            /\ UNCHANGED <<creating, shell>>
         \/ /\ pcT' = [pcT EXCEPT ![t] = "start"] /\ creating' = [creating EXCEPT ![i] = t]
            /\ shell' = [shell EXCEPT ![t] = [shell[t] EXCEPT !.life = "starting"]] /\ UNCHANGED at
  BY <1>1, <1>2 DEF T!BeginCreate, T!handles, T!lock
<1>4. /\ \A g \in T!Object : holder[g] # t /\ ~In(waiting[g], t)
      /\ \A j \in T!TerminalId : creating[j] # t
  BY <1>3, NothingYet DEF Guarded
<1>5. /\ reqT'[t].kind = k /\ reqT'[t].id = i /\ pcT'[t] \in {"done", "joined", "start"}
      /\ \A u \in Task : u # t => reqT'[u] = reqT[u] /\ pcT'[u] = pcT[u] /\ at'[u] = at[u]
  BY <1>1, <1>3
<1>6. shell[t].life = "none"
  BY <1>3 DEF OwnInv, Unused, Begins
<1>7. /\ LivesGoOn
      /\ pcT'[t] = "start" => shell'[t].life # "none"
  <2>1. CASE shell' = shell
    <3>1. pcT'[t] # "start" \/ shell'[t].life # "none"
      BY <1>1, <1>3, <1>6, <2>1 DEF T!Shell
    <3> QED BY <2>1, <3>1 DEF LivesGoOn
  <2>2. CASE shell' = [shell EXCEPT ![t] = [shell[t] EXCEPT !.life = "starting"]]
    <3>1. shell'[t].life = "starting" /\ \A s \in T!Object : s # t => shell'[s] = shell[s]
      BY <1>1, <2>2 DEF T!Shell
    <3> QED BY <1>6, <3>1 DEF LivesGoOn
  <2> QED BY <1>3, <2>1, <2>2
<1>8. \A j \in T!TerminalId, u \in Task :
        creating'[j] = u => creating[j] = u \/ (u = t /\ pcT'[t] = "start" /\ j = i)
  BY <1>1, <1>3
<1>9. ASSUME NEW u \in Task, u # t PROVE Beside(u)
  BY <1>3, <1>5, <1>8, <1>9 DEF Beside
<1>10. OnItsWay(t)'
  BY <1>3, <1>4, <1>5, <1>7, <1>8 DEF OnItsWay, Guarded
<1>11. \A g \in T!Object : Once(waiting'[g])
  BY <1>3 DEF GoInv
<1> QED BY <1>7, <1>9, <1>10, <1>11, GoesBy

LEMMA GoBeginOperation ==
  ASSUME OwnInv, GoInv, NEW t \in Task, NEW k \in Kinds, NEW i \in T!TerminalId,
         T!BeginOperation(t, k, i)
  PROVE  GoInv'
<1>1. /\ pcT \in [Task -> T!PC] /\ at \in [Task -> SUBSET T!Object] /\ reqT \in [Task -> T!Request]
      /\ waiting \in [T!Object -> Seq(Task)] /\ None \notin T!Object
      /\ terminals[i] \in T!Object \cup {None}
  BY OwnTypes, Ids DEF OwnInv, T!TypeOK
<1>2. PICK h : h = terminals[i]
  OBVIOUS
<1>3. /\ pcT[t] = "new" /\ UNCHANGED <<creating, session, holder>>
      /\ reqT' = [reqT EXCEPT ![t] = [kind |-> k, id |-> i]]
      /\ \/ /\ pcT' = [pcT EXCEPT ![t] = "done"] /\ UNCHANGED <<at, waiting>>
         \/ /\ h \in T!Object /\ at' = [at EXCEPT ![t] = {h}]
            /\ \E p \in {"close", "wait"} : pcT' = [pcT EXCEPT ![t] = p]
            /\ waiting' = [waiting EXCEPT ![h] = Append(waiting[h], t)]
         \/ /\ pcT' = [pcT EXCEPT ![t] = "signalled"] /\ at' = [at EXCEPT ![t] = {h}]
            /\ UNCHANGED waiting
  BY <1>1, <1>2 DEF T!BeginOperation, T!Enqueue, T!registry
<1>4. LivesGoOn
  <2>1. Aside(t)
    BY AsideOr
  <2> QED BY <2>1 DEF Aside, LifeKept, LivesGoOn
<1>5. /\ \A g \in T!Object : holder[g] # t /\ ~In(waiting[g], t)
      /\ \A j \in T!TerminalId : creating[j] # t
  BY <1>3, NothingYet DEF Guarded
<1>6. \A u \in Task : u # t => reqT'[u] = reqT[u] /\ pcT'[u] = pcT[u] /\ at'[u] = at[u]
  BY <1>1, <1>3
<1>7. CASE pcT'[t] \notin {"close", "wait"}
  <2>1. pcT'[t] \in {"done", "signalled"} /\ waiting' = waiting
    BY <1>1, <1>3, <1>7
  <2>2. ASSUME NEW u \in Task, u # t PROVE Beside(u)
    BY <1>3, <1>6, <2>1, <2>2 DEF Beside
  <2>3. OnItsWay(t)'
    BY <1>3, <1>5, <2>1 DEF OnItsWay, Guarded
  <2>4. \A g \in T!Object : Once(waiting'[g])
    BY <2>1 DEF GoInv
  <2> QED BY <1>4, <2>2, <2>3, <2>4, GoesBy
<1>8. CASE pcT'[t] \in {"close", "wait"}
  <2>1. h \in T!Object /\ at'[t] = {h} /\ waiting' = [waiting EXCEPT ![h] = Append(waiting[h], t)]
    BY <1>1, <1>3, <1>8
  <2>2. {h} \in SUBSET T!Object
        /\ waiting' = [g \in T!Object |-> IF g \in {h} THEN Append(waiting[g], t) ELSE waiting[g]]
    BY <1>1, <2>1
  <2>3. /\ \A g \in T!Object : Once(waiting'[g])
        /\ \A g \in T!Object, u \in Task :
             In(waiting'[g], u) <=> In(waiting[g], u) \/ (g \in {h} /\ u = t)
    <3>1. PICK hs \in SUBSET T!Object : hs = {h}
      BY <2>2
    <3>2. /\ \A g \in T!Object : Once(waiting'[g])
          /\ \A g \in T!Object, u \in Task :
               In(waiting'[g], u) <=> In(waiting[g], u) \/ (g \in hs /\ u = t)
      BY <1>5, <2>2, <3>1, ComesToQueue
    <3> QED BY <3>1, <3>2
  <2>4. ASSUME NEW u \in Task, u # t PROVE Beside(u)
    BY <1>3, <1>6, <2>3, <2>4 DEF Beside
  <2>5. OnItsWay(t)'
    BY <1>3, <1>5, <1>8, <2>1, <2>3 DEF OnItsWay, Guarded
  <2> QED BY <1>4, <2>3, <2>4, <2>5, GoesBy
<1> QED BY <1>7, <1>8

LEMMA GoBeginResetAll ==
  ASSUME OwnInv, GoInv, NEW t \in Task, T!BeginResetAll(t)
  PROVE  GoInv'
<1>1. /\ pcT \in [Task -> T!PC] /\ at \in [Task -> SUBSET T!Object] /\ reqT \in [Task -> T!Request]
      /\ T!Registered \in SUBSET T!Object
  BY OwnTypes DEF OwnInv, T!TypeOK, T!Registered
<1>2. PICK hs \in SUBSET T!Object : hs = T!Registered
  BY <1>1
<1>3. /\ pcT[t] = "new" /\ UNCHANGED <<creating, session, holder, shell>>
      /\ reqT' = [reqT EXCEPT ![t] = [kind |-> "reset_all", id |-> None]]
      /\ at' = [at EXCEPT ![t] = hs]
      /\ pcT' = [pcT EXCEPT ![t] = IF hs = {} THEN "done" ELSE "close"]
      /\ waiting' = [g \in T!Object |-> IF g \in hs THEN Append(waiting[g], t) ELSE waiting[g]]
  BY <1>2 DEF T!BeginResetAll
<1>4. LivesGoOn
  BY <1>3 DEF LivesGoOn
<1>5. /\ \A g \in T!Object : holder[g] # t /\ ~In(waiting[g], t)
      /\ \A j \in T!TerminalId : creating[j] # t
  BY <1>3, NothingYet DEF Guarded
<1>6. /\ \A u \in Task : u # t => reqT'[u] = reqT[u] /\ pcT'[u] = pcT[u] /\ at'[u] = at[u]
      /\ at'[t] = hs /\ pcT'[t] = IF hs = {} THEN "done" ELSE "close"
  BY <1>1, <1>3
<1>7. /\ \A g \in T!Object : Once(waiting'[g])
      /\ \A g \in T!Object, u \in Task :
           In(waiting'[g], u) <=> In(waiting[g], u) \/ (g \in hs /\ u = t)
  BY <1>3, <1>5, ComesToQueue
<1>8. ASSUME NEW u \in Task, u # t PROVE Beside(u)
  BY <1>3, <1>6, <1>7, <1>8 DEF Beside
<1>9. OnItsWay(t)'
  BY <1>3, <1>5, <1>6, <1>7 DEF OnItsWay, Guarded
<1> QED BY <1>4, <1>7, <1>8, <1>9, GoesBy

\* Steps of a task that holds nothing: the end of a startup, of one that was joined, or of a
\* signal.
LEMMA GoAlone ==
  ASSUME OwnInv, GoInv, NEW t \in Task,
         T!JoinEnds(t) \/ T!Publish(t) \/ T!Withdraw(t) \/ T!Acknowledge(t)
  PROVE  GoInv'
<1>1. /\ pcT \in [Task -> T!PC] /\ session \in [T!Object -> T!Object] /\ t \in T!Object
      /\ creating \in [T!TerminalId -> Task \cup {None}] /\ None \notin Task
  BY OwnTypes, Ids DEF OwnInv, T!TypeOK
<1>2. /\ UNCHANGED <<reqT, at, holder, waiting, shell>>
      /\ \E p \in {"done", "cancelled"} : pcT' = [pcT EXCEPT ![t] = p]
      /\ pcT[t] \in {"joined", "signalled", "start"} \/ (pcT[t] = "abort" /\ reqT[t].kind \in T!Creating)
      /\ \/ creating' = creating /\ pcT[t] \in {"joined", "signalled"}
         \/ creating' = T!Freed(t)
         \/ pcT[t] = "start" /\ creating' = [creating EXCEPT ![reqT[t].id] = None]
      /\ session' = session \/ (session' = [session EXCEPT ![t] = t] /\ pcT[t] = "start")
  BY DEF T!JoinEnds, T!Publish, T!Withdraw, T!Acknowledge, T!registry, T!handles, T!lock
<1>3. /\ \A g \in T!Object : holder[g] # t
      /\ OnItsWay(t)
  BY <1>2 DEF OwnInv, Holders, Guarded, GoInv
<1>4. \A g \in T!Object : ~In(waiting[g], t)
  BY <1>2, <1>3 DEF OnItsWay
<1>5. pcT'[t] \in {"done", "cancelled"} /\ \A u \in Task : u # t => pcT'[u] = pcT[u]
  BY <1>1, <1>2
<1>6. \A i \in T!TerminalId : creating'[i] # t /\ \A u \in Task : creating'[i] = u => creating[i] = u
  <2>1. CASE creating' = creating /\ pcT[t] \in {"joined", "signalled"}
    BY <1>3, <2>1 DEF OnItsWay
  <2>2. CASE creating' = T!Freed(t)
    BY <1>1, <2>2 DEF T!Freed
  <2>3. CASE pcT[t] = "start" /\ creating' = [creating EXCEPT ![reqT[t].id] = None]
    <3>1. \A i \in T!TerminalId : creating[i] = t => i = reqT[t].id
      BY <1>3 DEF OnItsWay
    <3> QED BY <1>1, <2>3, <3>1
  <2> QED BY <1>2, <2>1, <2>2, <2>3
<1>7. \A g \in T!Object, u \in Task : holder[g] = u => session'[g] = session[g]
  <2>1. ASSUME NEW g \in T!Object, NEW u \in Task, holder[g] = u, pcT[t] = "start" PROVE g # t
    <3>1. Published(g)
      BY <2>1 DEF OwnInv, Holders, Asked
    <3> QED BY <2>1, <3>1 DEF OwnInv, Unused, Begins
  <2> QED BY <1>1, <1>2, <2>1
<1>8. LivesGoOn
  BY <1>2 DEF LivesGoOn
<1>9. ASSUME NEW u \in Task, u # t PROVE Beside(u)
  BY <1>2, <1>5, <1>6, <1>7, <1>9 DEF Beside
<1>10. OnItsWay(t)'
  BY <1>2, <1>3, <1>4, <1>5, <1>6 DEF OnItsWay, Guarded
<1>11. \A g \in T!Object : Once(waiting'[g])
  BY <1>2 DEF GoInv
<1> QED BY <1>8, <1>9, <1>10, <1>11, GoesBy

LEMMA GoReset ==
  ASSUME OwnInv, GoInv, NEW t \in Task, NEW h \in T!Object, T!Reset(t, h)
  PROVE  GoInv'
<1>1. /\ pcT \in [Task -> T!PC] /\ at \in [Task -> SUBSET T!Object] /\ shell \in [T!Object -> T!Shell]
      /\ holder \in [T!Object -> Task \cup {None}] /\ None \notin Task /\ t \in T!Object
  BY OwnTypes, Ids DEF OwnInv, T!TypeOK
<1>2. /\ pcT[t] = "wait" /\ reqT[t].kind \in T!Restarting /\ T!Turn(t, h)
      /\ shell' = [shell EXCEPT ![t] = [shell[t] EXCEPT !.life = "starting"]]
      /\ holder' = [holder EXCEPT ![h] = t] /\ pcT' = [pcT EXCEPT ![t] = "swap"]
      /\ UNCHANGED <<reqT, at, creating, session>>
  BY <1>1 DEF T!Reset, T!Allowed, T!Hold, T!registry, T!handles
<1>3. /\ \A g \in T!Object : Once(waiting'[g])
      /\ \A g \in T!Object, u \in Task : In(waiting'[g], u) <=> In(waiting[g], u) /\ ~(g = h /\ u = t)
      /\ h \in at[t] /\ holder[h] = None
  BY <1>2, TurnsQueue
<1>4. /\ \A g \in at[t] : g = h
      /\ OnItsWay(t) /\ shell[t].life = "none"
  BY <1>2, <1>3 DEF OwnInv, AtOne, GoInv, Unused, Begins
<1>5. /\ \A g \in T!Object : ~In(waiting'[g], t)
      /\ \A i \in T!TerminalId : creating[i] # t
  BY <1>2, <1>3, <1>4 DEF OnItsWay
<1>6. shell'[t].life = "starting" /\ \A s \in T!Object : s # t => shell'[s] = shell[s]
  BY <1>1, <1>2 DEF T!Shell
<1>7. LivesGoOn
  BY <1>4, <1>6 DEF LivesGoOn
<1>8. ASSUME NEW u \in Task, u # t PROVE Beside(u)
  BY <1>1, <1>2, <1>3, <1>8 DEF Beside
<1>9. pcT'[t] = "swap" /\ holder'[h] = t /\ h \in at'[t]
  BY <1>1, <1>2, <1>3
<1>10. OnItsWay(t)'
  BY <1>2, <1>5, <1>6, <1>9 DEF OnItsWay
<1> QED BY <1>3, <1>7, <1>8, <1>10, GoesBy

\* A shell that is killed does not come back.
LEMMA KilledLife ==
  ASSUME OwnInv, NEW t \in Task, NEW s \in T!Object, shell' = T!KillBy(t, s)
  PROVE  /\ shell'[s].life = IF shell[s].life = "live" THEN "closing" ELSE shell[s].life
         /\ LivesGoOn
<1>1. shell \in [T!Object -> T!Shell] /\ shell[s] \in T!Shell
  BY OwnTypes DEF OwnInv, T!TypeOK
<1>2. PICK k : k = [shell[s] EXCEPT !.life = IF @ = "live" THEN "closing" ELSE @, !.killer = t]
  OBVIOUS
<1>3. k.life = IF shell[s].life = "live" THEN "closing" ELSE shell[s].life
  BY <1>1, <1>2 DEF T!Shell
<1>4. shell' = [shell EXCEPT ![s] = k]
  BY <1>1, <1>2 DEF T!KillBy
<1>5. shell'[s] = k /\ \A r \in T!Object : r # s => shell'[r] = shell[r]
  BY <1>1, <1>4
<1> QED BY <1>3, <1>5 DEF LivesGoOn

LEMMA GoClose ==
  ASSUME OwnInv, GoInv, NEW t \in Task, NEW h \in T!Object, T!Close(t, h)
  PROVE  GoInv'
<1>1. /\ pcT \in [Task -> T!PC] /\ at \in [Task -> SUBSET T!Object]
      /\ holder \in [T!Object -> Task \cup {None}] /\ None \notin Task
      /\ session \in [T!Object -> T!Object]
  BY OwnTypes, Ids DEF OwnInv, T!TypeOK
<1>2. /\ pcT[t] = "close" /\ T!Turn(t, h) /\ shell' = T!KillBy(t, session[h])
      /\ holder' = [holder EXCEPT ![h] = t] /\ pcT' = pcT
      /\ UNCHANGED <<reqT, at, creating, session>>
  BY <1>1 DEF T!Close, T!Hold, T!registry, T!handles
<1>3. /\ \A g \in T!Object : Once(waiting'[g])
      /\ \A g \in T!Object, u \in Task : In(waiting'[g], u) <=> In(waiting[g], u) /\ ~(g = h /\ u = t)
      /\ h \in at[t] /\ holder[h] = None
  BY <1>2, TurnsQueue
<1>4. OnItsWay(t) /\ reqT[t].kind \in T!Closing
  BY <1>2 DEF OwnInv, GoInv, Asked
<1>5. shell[session[h]].life \in {"live", "closing", "closed"}
  <2>1. Published(h)
    BY <1>3, <1>4 DEF OwnInv, Asked, T!Closing, T!Creating
  <2> QED BY <2>1 DEF OwnInv, Lives
<1>6. LivesGoOn /\ shell'[session[h]].life \in {"closing", "closed"}
  <2>1. session[h] \in T!Object
    BY <1>1
  <2> QED BY <1>2, <1>5, <2>1, KilledLife
<1>7. ASSUME NEW u \in Task, u # t PROVE Beside(u)
  BY <1>1, <1>2, <1>3, <1>7 DEF Beside
<1>8. \A g \in T!Object : holder'[g] = t => holder[g] = t \/ g = h
  BY <1>1, <1>2
<1>9. holder'[h] = t /\ \A g \in T!Object : g # h => holder'[g] = holder[g]
  BY <1>1, <1>2
<1>10. OnItsWay(t)'
  <2>1. at[t] # {} /\ \A g \in at[t] : holder[g] = t \/ In(waiting[g], t)
    BY <1>2, <1>4 DEF OnItsWay
  <2>2. \A g \in at[t] : g \in T!Object
    BY <1>1
  <2>3. \A g \in at'[t] : holder'[g] = t \/ In(waiting'[g], t)
    BY <1>2, <1>3, <1>9, <2>1, <2>2
  <2>4. \A g \in T!Object : In(waiting'[g], t) => g \in at'[t] /\ holder'[g] # t
    <3>1. \A g \in T!Object : In(waiting'[g], t) => g # h /\ In(waiting[g], t)
      BY <1>3
    <3> QED BY <1>2, <1>4, <1>9, <3>1 DEF OnItsWay
  <2>5. \A g \in T!Object : holder'[g] = t => shell'[session'[g]].life \in {"closing", "closed"}
    <3>1. \A g \in T!Object : holder[g] = t => shell[session[g]].life \in {"closing", "closed"}
      BY <1>2, <1>4 DEF OnItsWay
    <3> QED BY <1>1, <1>2, <1>6, <1>8, <3>1 DEF LivesGoOn
  <2>6. \A i \in T!TerminalId : creating'[i] # t
    BY <1>2, <1>4 DEF OnItsWay
  <2> QED BY <1>2, <2>1, <2>3, <2>4, <2>5, <2>6 DEF OnItsWay, Guarded
<1> QED BY <1>3, <1>6, <1>7, <1>10, GoesBy

LEMMA GoSwap ==
  ASSUME OwnInv, GoInv, NEW t \in Task, NEW h \in T!Object, T!Swap(t, h)
  PROVE  GoInv'
<1>1. /\ pcT \in [Task -> T!PC] /\ session \in [T!Object -> T!Object]
  BY OwnTypes DEF OwnInv, T!TypeOK
<1>2. /\ pcT[t] = "swap" /\ h \in at[t] /\ holder[h] = t
      /\ session' = [session EXCEPT ![h] = t] /\ shell' = T!KillBy(t, session[h])
      /\ pcT' = [pcT EXCEPT ![t] = "teardown"]
      /\ UNCHANGED <<reqT, at, creating, holder, waiting>>
  BY DEF T!Swap, T!Works, T!Old, T!registry, T!lock
<1>3. OnItsWay(t)
  BY DEF GoInv
<1>4. LivesGoOn
  <2>1. session[h] \in T!Object
    BY <1>1
  <2> QED BY <1>2, <2>1, KilledLife
<1>5. ASSUME NEW u \in Task, u # t PROVE Beside(u)
  BY <1>1, <1>2, <1>5 DEF Beside
<1>6. pcT'[t] = "teardown" /\ holder'[h] = t /\ h \in at'[t]
  BY <1>1, <1>2
<1>7. OnItsWay(t)'
  BY <1>2, <1>3, <1>6 DEF OnItsWay
<1>8. \A g \in T!Object : Once(waiting'[g])
  BY <1>2 DEF GoInv
<1> QED BY <1>4, <1>5, <1>7, <1>8, GoesBy

\* An execute that asked for a reset comes to a queue again.
LEMMA GoAgain ==
  ASSUME OwnInv, GoInv, NEW t \in Task, NEW h \in T!Object, T!TornDown(t, h), Again(t)
  PROVE  GoInv'
<1>1. /\ pcT \in [Task -> T!PC] /\ at \in [Task -> SUBSET T!Object] /\ reqT \in [Task -> T!Request]
      /\ holder \in [T!Object -> Task \cup {None}] /\ None \notin Task
      /\ terminals \in [T!TerminalId -> T!Object \cup {None}]
      /\ waiting \in [T!Object -> Seq(Task)]
  BY OwnTypes, Ids DEF OwnInv, T!TypeOK
<1>2. pcT[t] = "teardown" /\ h \in at[t] /\ holder[h] = t /\ reqT[t].id \in T!TerminalId
  BY DEF T!TornDown, T!Works, OwnInv, Asked
<1>3. PICK g \in T!Object : g = terminals[reqT[t].id]
  BY <1>1, <1>2 DEF Again
<1>4. /\ reqT' = [reqT EXCEPT ![t].kind = "execute"] /\ at' = [at EXCEPT ![t] = {g}]
      /\ pcT' = [pcT EXCEPT ![t] = "wait"]
      /\ waiting' = [waiting EXCEPT ![g] = Append(waiting[g], t)]
      /\ holder' = [holder EXCEPT ![h] = None]
      /\ UNCHANGED <<creating, session, shell>>
  BY <1>3 DEF T!TornDown, T!Enqueue, T!registry, T!handles, Again
<1>5. OnItsWay(t) /\ (\A q \in at[t] : q = h) /\ \A q \in T!Object : holder[q] = t => q \in at[t]
  BY <1>2 DEF OwnInv, AtOne, Holders, GoInv, Guarded
<1>6. /\ \A q \in T!Object : ~In(waiting[q], t) /\ holder'[q] # t
      /\ \A i \in T!TerminalId : creating[i] # t
  BY <1>1, <1>2, <1>4, <1>5 DEF OnItsWay
<1>7. PICK hs \in SUBSET T!Object : hs = {g}
  OBVIOUS
<1>8. waiting' = [q \in T!Object |-> IF q \in hs THEN Append(waiting[q], t) ELSE waiting[q]]
  BY <1>1, <1>4, <1>7
<1>9. /\ \A q \in T!Object : Once(waiting'[q])
      /\ \A q \in T!Object, u \in Task :
           In(waiting'[q], u) <=> In(waiting[q], u) \/ (q \in hs /\ u = t)
  BY <1>6, <1>8, ComesToQueue
<1>10. LivesGoOn
  BY <1>4 DEF LivesGoOn
<1>11. ASSUME NEW u \in Task, u # t PROVE Beside(u)
  BY <1>1, <1>2, <1>4, <1>9, <1>11 DEF Beside
<1>12. pcT'[t] = "wait" /\ at'[t] = {g} /\ In(waiting'[g], t)
  BY <1>1, <1>4, <1>7, <1>9
<1>13. OnItsWay(t)'
  BY <1>4, <1>6, <1>7, <1>9, <1>12 DEF OnItsWay, Guarded
<1> QED BY <1>9, <1>10, <1>11, <1>13, GoesBy

LEMMA GoClosed ==
  ASSUME OwnInv, GoInv, NEW t \in Task, NEW h \in T!Object, T!Closed(t, h)
  PROVE  GoInv'
<1>1. /\ pcT \in [Task -> T!PC] /\ at \in [Task -> SUBSET T!Object]
      /\ holder \in [T!Object -> Task \cup {None}] /\ None \notin Task
  BY OwnTypes, Ids DEF OwnInv, T!TypeOK
<1>2. /\ pcT[t] = "close" /\ h \in at[t] /\ holder[h] = t
      /\ at' = [at EXCEPT ![t] = at[t] \ {h}] /\ holder' = [holder EXCEPT ![h] = None]
      /\ pcT' = [pcT EXCEPT ![t] = IF at[t] = {h} THEN "done" ELSE "close"]
      /\ UNCHANGED <<reqT, creating, session, waiting, shell>>
  BY DEF T!Closed, T!Works
<1>3. OnItsWay(t) /\ \A g \in T!Object : holder[g] = t => g \in at[t]
  BY DEF GoInv, OwnInv, Holders
<1>4. LivesGoOn
  BY <1>2 DEF LivesGoOn
<1>5. ASSUME NEW u \in Task, u # t PROVE Beside(u)
  BY <1>1, <1>2, <1>5 DEF Beside
<1>6. /\ at'[t] = at[t] \ {h} /\ pcT'[t] = (IF at[t] = {h} THEN "done" ELSE "close")
      /\ holder'[h] # t /\ \A g \in T!Object : g # h => holder'[g] = holder[g]
  BY <1>1, <1>2
<1>7. OnItsWay(t)'
  <2>1. \A g \in T!Object : In(waiting[g], t) => g \in at[t] /\ g # h
    BY <1>2, <1>3 DEF OnItsWay
  <2>2. \A i \in T!TerminalId : creating'[i] # t
    BY <1>2, <1>3 DEF OnItsWay
  <2>3. CASE at[t] = {h}
    <3>1. \A g \in T!Object : ~In(waiting[g], t) /\ holder'[g] # t
      BY <1>3, <1>6, <2>1, <2>3
    <3>2. pcT'[t] = "done"
      BY <1>6, <2>3
    <3> QED BY <1>2, <2>2, <3>1, <3>2 DEF OnItsWay, Guarded
  <2>4. CASE at[t] # {h}
    <3>1. pcT'[t] = "close" /\ at'[t] # {}
      BY <1>2, <1>6, <2>4
    <3>2. \A g \in at'[t] : holder'[g] = t \/ In(waiting'[g], t)
      BY <1>1, <1>2, <1>3, <1>6 DEF OnItsWay
    <3>3. \A g \in T!Object : In(waiting'[g], t) => g \in at'[t] /\ holder'[g] # t
      BY <1>2, <1>3, <1>6, <2>1 DEF OnItsWay
    <3>4. \A g \in T!Object : holder'[g] = t => shell'[session'[g]].life \in {"closing", "closed"}
      BY <1>2, <1>3, <1>6 DEF OnItsWay
    <3> QED BY <2>2, <3>1, <3>2, <3>3, <3>4 DEF OnItsWay, Guarded
  <2> QED BY <2>3, <2>4
<1>8. \A g \in T!Object : Once(waiting'[g])
  BY <1>2 DEF GoInv
<1> QED BY <1>4, <1>5, <1>7, <1>8, GoesBy

LEMMA GoLeaves ==
  ASSUME OwnInv, GoInv, NEW t \in Task, T!Cancel(t), pcT'[t] = "cancelled"
  PROVE  GoInv'
<1>1. /\ pcT \in [Task -> T!PC] /\ holder \in [T!Object -> Task \cup {None}] /\ None \notin Task
      /\ creating \in [T!TerminalId -> Task \cup {None}] /\ waiting \in [T!Object -> Seq(Task)]
  BY OwnTypes, Ids DEF OwnInv, T!TypeOK
<1>2. /\ pcT' = [pcT EXCEPT ![t] = "cancelled"] /\ pcT[t] # "cancelled"
      /\ holder' = [h \in T!Object |-> IF holder[h] = t THEN None ELSE holder[h]]
      /\ waiting' = [h \in T!Object |-> T!Without(waiting[h], t)]
      /\ \/ creating' = creating
         \/ creating' = T!Freed(t)
      /\ UNCHANGED <<reqT, at, session, shell>>
  BY <1>1 DEF T!Cancel, T!InFlight, T!Leaves, T!handles
<1>3. ASSUME NEW h \in T!Object
      PROVE  /\ Once(waiting'[h])
             /\ \A u \in Task : In(waiting'[h], u) <=> In(waiting[h], u) /\ u # t
  <2>1. PICK q \in Seq(Task) : q = waiting[h]
    BY <1>1
  <2>2. Once(q)
    BY <2>1 DEF GoInv
  <2>3. Once(T!Without(q, t)) /\ \A u \in Task : In(T!Without(q, t), u) <=> In(q, u) /\ u # t
    BY <2>2, QueueWithout
  <2>4. waiting'[h] = T!Without(q, t)
    BY <1>2, <2>1
  <2> QED BY <2>1, <2>3, <2>4
<1>4. pcT'[t] = "cancelled" /\ \A u \in Task : u # t => pcT'[u] = pcT[u]
  BY <1>1, <1>2
<1>5. \A g \in T!Object : holder'[g] # t /\ \A u \in Task : u # t => (holder'[g] = u <=> holder[g] = u)
  BY <1>1, <1>2
<1>6. \A i \in T!TerminalId, u \in Task : creating'[i] = u => creating[i] = u
  BY <1>1, <1>2 DEF T!Freed
<1>7. LivesGoOn
  BY <1>2 DEF LivesGoOn
<1>8. ASSUME NEW u \in Task, u # t PROVE Beside(u)
  BY <1>2, <1>3, <1>4, <1>5, <1>6, <1>8 DEF Beside
<1>9. \A i \in T!TerminalId : creating'[i] = t => reqT'[t].kind \in T!Creating /\ i = reqT'[t].id
  BY <1>1, <1>2, <1>6 DEF GoInv, OnItsWay
<1>10. OnItsWay(t)'
  BY <1>3, <1>4, <1>5, <1>9 DEF OnItsWay, Guarded
<1> QED BY <1>3, <1>7, <1>8, <1>10, GoesBy

LEMMA GoAborts ==
  ASSUME OwnInv, GoInv, NEW t \in Task, T!Cancel(t), pcT'[t] # "cancelled"
  PROVE  GoInv'
<1>1. /\ pcT \in [Task -> T!PC] /\ t \in T!Object
  BY OwnTypes, Ids DEF OwnInv, T!TypeOK
<1>2. /\ pcT[t] \in {"start", "swap"} /\ pcT' = [pcT EXCEPT ![t] = "abort"]
      /\ shell' = T!KillBy(t, t) /\ shell[t].life = "live"
      /\ UNCHANGED <<reqT, at, creating, session, holder, waiting>>
  BY <1>1 DEF T!Cancel, T!handles, T!lock
<1>3. OnItsWay(t) /\ (pcT[t] = "start" => reqT[t].kind \in T!Creating)
  BY DEF GoInv, OwnInv, Asked
<1>4. LivesGoOn /\ shell'[t].life = "closing"
  BY <1>1, <1>2, KilledLife
<1>5. ASSUME NEW u \in Task, u # t PROVE Beside(u)
  BY <1>1, <1>2, <1>5 DEF Beside
<1>6. pcT'[t] = "abort"
  BY <1>1, <1>2
<1>7. \A i \in T!TerminalId : creating[i] = t => reqT[t].kind \in T!Creating /\ i = reqT[t].id
  BY <1>3 DEF OnItsWay
<1>8. reqT[t].kind \notin T!Creating => \E h \in at[t] : holder[h] = t
  BY <1>2, <1>3 DEF OnItsWay, Guarded
<1>9. \A g \in T!Object : ~In(waiting[g], t)
  BY <1>2, <1>3 DEF OnItsWay
<1>10. OnItsWay(t)'
  BY <1>2, <1>4, <1>6, <1>7, <1>8, <1>9 DEF OnItsWay
<1>11. \A g \in T!Object : Once(waiting'[g])
  BY <1>2 DEF GoInv
<1> QED BY <1>4, <1>5, <1>10, <1>11, GoesBy

LEMMA GoLiving ==
  ASSUME OwnInv, GoInv, NEW s \in T!Object, Living(s)
  PROVE  GoInv'
<1>1. /\ LifeGoesOn(s)
      /\ UNCHANGED <<reqT, pcT, at, terminals, creating, state, session, holder, waiting, cancels>>
  BY LivingLife DEF OwnInv
<1>2. LivesGoOn
  BY <1>1 DEF LifeGoesOn, LivesGoOn
<1>3. ASSUME NEW u \in Task PROVE OnItsWay(u)'
  <2>1. Beside(u)
    BY <1>1 DEF Beside
  <2> QED BY <1>2, <2>1, BesideGoes DEF GoInv
<1>4. \A h \in T!Object : Once(waiting'[h])
  BY <1>1 DEF GoInv
<1> QED BY <1>3, <1>4 DEF GoInv

LEMMA GoNext ==
  ASSUME OwnInv, GoInv, T!Next
  PROVE  GoInv'
<1>1. T!TypeOK
  BY DEF OwnInv
<1>2. ASSUME NEW t \in Task, T!Begin(t) PROVE GoInv'
  BY <1>2, GoBeginCreate, GoBeginOperation, GoBeginResetAll DEF T!Begin
<1>3. ASSUME NEW t \in Task, T!Step(t) PROVE GoInv'
  <2>1. CASE T!JoinEnds(t) \/ T!Publish(t) \/ T!Withdraw(t) \/ T!Acknowledge(t)
    BY <2>1, GoAlone
  <2>2. ASSUME NEW h \in T!Object,
               T!Reject(t, h) \/ T!Execute(t, h) \/ T!Input(t, h) \/ T!Poll(t, h) \/ T!Interrupt(t, h)
        PROVE  GoInv'
    <3>1. Enters(t, h)
      BY <1>1, <2>2, EntersOr
    <3>2. T!Turn(t, h)
      BY <2>2 DEF T!Reject, T!Execute, T!Input, T!Poll, T!Interrupt, T!Allowed
    <3> QED BY <3>1, <3>2, GoEnters
  <2>3. ASSUME NEW h \in T!Object,
               T!Drain(t, h) \/ T!Synced(t, h) \/ T!Window(t, h) \/ T!KeepOld(t, h)
        PROVE  GoInv'
    <3>1. Ending(t, h)
      BY <1>1, <2>3, EndingOr
    <3>2. waiting' = waiting
      BY <2>3 DEF T!Drain, T!Synced, T!Window, T!KeepOld, T!Apply
    <3> QED BY <3>1, <3>2, GoWorks
  <2>4. ASSUME NEW h \in T!Object, T!Signalled(t, h) \/ T!Resync(t, h) \/ T!Discard(t, h)
        PROVE  GoInv'
    <3>1. Ending(t, h) \/ GoesOn(t, h)
      BY <1>1, <2>4, EndingOr, GoesOnOr
    <3>2. waiting' = waiting /\ pcT[t] \in {"drain", "signal", "resync"}
      BY <2>4 DEF T!Signalled, T!Resync, T!Discard, T!Works, T!Apply, T!lock
    <3> QED BY <3>1, <3>2, GoWorks
  <2>5. ASSUME NEW h \in T!Object, T!TornDown(t, h)
        PROVE  GoInv'
    <3>1. CASE Again(t)
      BY <2>5, <3>1, GoAgain
    <3>2. CASE ~Again(t)
      <4>1. Ending(t, h)
        BY <1>1, <2>5, <3>2, EndingOr
      <4>2. waiting' = waiting
        BY <2>5, <3>2 DEF T!TornDown, Again
      <4> QED BY <4>1, <4>2, GoWorks
    <3> QED BY <3>1, <3>2
  <2>6. ASSUME NEW h \in T!Object, T!Reset(t, h) \/ T!Close(t, h) \/ T!Swap(t, h) \/ T!Closed(t, h)
        PROVE  GoInv'
    BY <2>6, GoReset, GoClose, GoSwap, GoClosed
  <2> QED BY <1>3, <2>1, <2>2, <2>3, <2>4, <2>5, <2>6 DEF T!Step
<1>4. ASSUME NEW t \in Task, T!Cancel(t) PROVE GoInv'
  BY <1>4, GoLeaves, GoAborts
<1>5. ASSUME NEW s \in T!Object, Living(s) PROVE GoInv'
  BY <1>5, GoLiving
<1> QED BY <1>2, <1>3, <1>4, <1>5 DEF T!Next, Living

LEMMA GoStart == T!Init => GoInv
<1> SUFFICES ASSUME T!Init PROVE GoInv
  OBVIOUS
<1>1. /\ \A t \in Task : pcT[t] = "new"
      /\ \A i \in T!TerminalId : creating[i] = None
      /\ \A h \in T!Object : holder[h] = None /\ waiting[h] = <<>>
      /\ None \notin Task
  BY Ids DEF T!Init
<1>2. \A h \in T!Object : Once(waiting[h]) /\ \A t \in Task : ~In(waiting[h], t)
  BY <1>1 DEF Once, In
<1> QED BY <1>1, <1>2 DEF GoInv, OnItsWay, Guarded

(* Somebody can always go on: what an operation waits for is a thread that *)
(* has something to do, or an op_lock or a startup that leads to a task    *)
(* that can go on (TerminalHandle.op_lock, TerminalSessionManager.create,  *)
(* reset_all).                                                             *)
THEOREM NoTerminalStuckHolds == BothSpec => []NoTerminalStuck
<1>1. BothInit => GoInv
  BY GoStart DEF BothInit
<1>2. TerminalsInv /\ GoInv /\ [BothNext]_bothVars => GoInv'
  <2> SUFFICES ASSUME TerminalsInv, GoInv, [BothNext]_bothVars PROVE GoInv'
    OBVIOUS
  <2>1. CASE T!Next
    BY <2>1, GoNext DEF TerminalsInv
  <2>2. CASE UNCHANGED terminalVars
    <3>1. UNCHANGED <<reqT, pcT, at, terminals, creating, state, session, holder, waiting, shell, cancels>>
      BY <2>2 DEF terminalVars
    <3> QED BY <3>1 DEF GoInv, OnItsWay
  <2> QED BY <2>1, <2>2 DEF BothNext, CallsNext, TerminalsNext, bothVars
<1>3. TerminalsInv /\ GoInv => NoTerminalStuck
  BY SomebodyGoes DEF TerminalsInv, NoTerminalStuck
<1> QED BY <1>1, <1>2, <1>3, TerminalsAlways, PTL DEF BothSpec

(* The terminals' variables keep their types beside the tool calls', and   *)
(* none that is registered is closed (TerminalSessionManager.create,       *)
(* close).                                                                 *)
THEOREM TypesHold == BothSpec => [](TypeOK /\ T!TypeOK)
<1>1. TerminalsInv => T!TypeOK
  BY DEF TerminalsInv, OwnInv
<1> QED BY <1>1, CallsBesideTerminals, DeduplicatorBounded, TerminalsAlways, PTL
=============================================================================
