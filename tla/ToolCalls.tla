------------------------------ MODULE ToolCalls ------------------------------
(***************************************************************************)
(* Tool calls and environment resets of the OpenHands plugin's runtime     *)
(* (service.py), through its environment lease (rwlock.py), its single     *)
(* flight by request id (dedup.py) and its resource locks (scheduler.py).  *)
(*                                                                         *)
(* A call holds the lease shared from its first step to its last, joins    *)
(* the flight of its request id if it has one, takes the locks its tool    *)
(* asks for in the order of their keys, and runs the tool in a worker      *)
(* thread.  A reset holds the lease exclusively.                           *)
(*                                                                         *)
(* Everything here runs on one event loop.  The conditions and the guards  *)
(* of the code are never held while a task is suspended, so that what lies *)
(* between two suspensions is one step, the whole chain of "finally"       *)
(* clauses of a call that ends included.  An await that need not suspend   *)
(* is a step of its own: the model has every interleaving the loop has,    *)
(* and more.                                                               *)
(*                                                                         *)
(* The lease and the locks are one array: Lock 0 is the lease, the keys of *)
(* the scheduler follow in the order it sorts them.  Both lock classes     *)
(* have the same code.  Their counters are the sets of tasks counted.      *)
(***************************************************************************)
EXTENDS Integers, FiniteSets

CONSTANTS
  Task,        \* the tasks of the event loop that serve requests
  Keys,        \* how many keys the scheduler knows
  Id, NoId,    \* request ids, and "the caller gave none"
  Menu,        \* the requests a caller may send
  CacheSize,   \* dedup_cache_size
  MaxResets,   \* bound: resets that complete
  NoFlight     \* an id the deduplicator has no entry for

Gate == 0
Lock == 0 .. Keys
Mode == {"none", "shared", "exclusive"}
Request == [modes : [Lock -> Mode], id : Id \cup {NoId}]

(* What every request of service.py has: a call holds the lease shared and *)
(* some lock; a reset holds the lease exclusively, no other, and no id.    *)
WellFormed(r) ==
  \/ r.modes[Gate] = "shared" /\ \E l \in Lock \ {Gate} : r.modes[l] # "none"
  \/ /\ r.modes[Gate] = "exclusive" /\ r.id = NoId
     /\ \A l \in Lock \ {Gate} : r.modes[l] = "none"

ASSUME RuntimeAssumption ==
  /\ Keys \in Nat /\ MaxResets \in Nat /\ CacheSize \in Nat \ {0}
  /\ Menu \subseteq Request /\ \A r \in Menu : WellFormed(r)
  /\ NoId \notin Id
  /\ NoFlight \notin [req : Menu, leader : Task, gen : Nat, done : BOOLEAN]

VARIABLES
  req,         \* the request each task serves, or served last
  pc,          \* where each task is in it
  readers,     \* _readers: the tasks that hold a lock shared
  writers,     \* _writer: the tasks that hold it exclusively
  queue,       \* _writers_waiting
  parked,      \* the tasks in _cond.wait() that nobody has notified
  refs,        \* the holders and waiters an entry of the registry counts
  flight,      \* the deduplicator's entries by request id
  generation,  \* _environment_generation
  running,     \* the tasks whose tool works in the workspace, in its thread
  again        \* of those, the ones cancelled a second time

locks == <<readers, writers, queue, parked, refs>>
vars == <<req, pc, locks, flight, generation, running, again>>

-----------------------------------------------------------------------------

Needs(t) == {l \in Lock : req[t].modes[l] # "none"}
Holds(t) == {l \in Lock : t \in readers[l] \cup writers[l]}
IsReset(t) == req[t].modes[Gate] = "exclusive"

(* Mutant: the exclusive locks before the shared ones.                     *)
WantedExclusiveFirst(t) ==
  {l \in Needs(t) \ Holds(t) :
     \A k \in Needs(t) \ Holds(t) :
        k = l \/ l = Gate
        \/ (k # Gate /\ (req[t].modes[k] = "exclusive" => req[t].modes[l] = "exclusive"))}

(* The lock t asks for next: the least of those it has yet to take.        *)
Wanted(t) == {l \in Needs(t) \ Holds(t) : \A k \in Needs(t) \ Holds(t) : l <= k}

(* Of the locks, only the lease is asked for before the flight is joined.  *)
Asks(t, l) == /\ l \in Wanted(t) /\ t \notin parked[l]
              /\ pc[t] = IF l = Gate THEN "gate" ELSE "locks"

(* Mutant: readers do not give way.                                        *)
CanTakeUnqueued(t, l) ==
  writers[l] = {} /\ (req[t].modes[l] = "exclusive" => readers[l] = {})

(* A writer needs the lock free; a reader gives way to a queued writer.    *)
CanTake(t, l) ==
  /\ writers[l] = {}
  /\ IF req[t].modes[l] = "exclusive" THEN readers[l] = {} ELSE queue[l] = {}

(* Where a call is once it holds l.  A reset goes on from the lease, a     *)
(* call with an id to its flight, and a call that has its last lock hands  *)
(* its tool to a worker thread.                                            *)
After(t, l) ==
  CASE l = Gate /\ IsReset(t) -> "teardown"
    [] l = Gate /\ ~IsReset(t) -> IF req[t].id = NoId THEN "locks" ELSE "join"
    [] l # Gate -> IF Needs(t) \ Holds(t) = {l} THEN "run" ELSE "locks"

Counted(t, l) == refs' = [refs EXCEPT ![l] = @ \cup {t}]

Start(t, r) ==
  /\ pc[t] = "idle"
  /\ t \notin running                     \* the name of a task is used again
  /\ r.modes[Gate] = "exclusive" =>
       generation + Cardinality({u \in Task : IsReset(u) /\ pc[u] \in {"gate", "teardown"}})
         < MaxResets
  /\ req' = [req EXCEPT ![t] = r]
  /\ pc' = [pc EXCEPT ![t] = "gate"]
  /\ UNCHANGED <<locks, flight, generation, running, again>>

Take(t, l) ==
  /\ Asks(t, l) /\ CanTake(t, l)
  /\ IF req[t].modes[l] = "exclusive"
     THEN writers' = [writers EXCEPT ![l] = @ \cup {t}] /\ UNCHANGED readers
     ELSE readers' = [readers EXCEPT ![l] = @ \cup {t}] /\ UNCHANGED writers
  /\ queue' = [queue EXCEPT ![l] = @ \ {t}]
  /\ Counted(t, l)
  /\ pc' = [pc EXCEPT ![t] = After(t, l)]
  /\ running' = IF After(t, l) = "run" THEN running \cup {t} ELSE running
  /\ UNCHANGED <<req, parked, flight, generation, again>>

Park(t, l) ==
  /\ Asks(t, l) /\ ~CanTake(t, l)
  /\ parked' = [parked EXCEPT ![l] = @ \cup {t}]
  /\ queue' = IF req[t].modes[l] = "exclusive"
              THEN [queue EXCEPT ![l] = @ \cup {t}] ELSE queue
  /\ Counted(t, l)
  /\ UNCHANGED <<req, pc, readers, writers, flight, generation, running, again>>

-----------------------------------------------------------------------------
(* A call that ends, by whatever way, gives up what it holds and what it   *)
(* waits for.  The release of a lock wakes all who wait for it, and so     *)
(* does a queued writer that gives up.                                     *)

(* Mutant: a queued writer that gives up wakes nobody.                     *)
WakesReleased(t, l) == t \in readers[l] \cup writers[l]

Wakes(t, l) == t \in readers[l] \cup writers[l] \cup queue[l]

(* An entry nobody refers to leaves the registry: the next to ask for the  *)
(* key gets a new one, and whoever still waits on the old one is not woken.*)
Dropped(t, l) == l # Gate /\ refs[l] \ {t} = {}
Without(t, l, S) == IF Dropped(t, l) THEN {} ELSE S \ {t}

Leave(t) ==
  /\ readers' = [l \in Lock |-> Without(t, l, readers[l])]
  /\ writers' = [l \in Lock |-> Without(t, l, writers[l])]
  /\ queue' = [l \in Lock |-> Without(t, l, queue[l])]
  /\ parked' = [l \in Lock |-> IF Wakes(t, l) THEN {} ELSE parked[l] \ {t}]
  /\ refs' = [l \in Lock |-> refs[l] \ {t}]

Leads(t) == pc[t] \in {"locks", "run", "drain"} /\ req[t].id # NoId
Follows(u, t) == Leads(t) /\ pc[u] = "follow" /\ req[u].id = req[t].id

(* t returns, and what it led its followers learn.                         *)
Returns(t) == pc' = [u \in Task |-> IF u = t THEN "idle"
                                    ELSE IF Follows(u, t) THEN "told" ELSE pc[u]]

(* A leader that fails or is cancelled takes its entry away.               *)
Retract(t) == flight' = IF Leads(t) THEN [flight EXCEPT ![req[t].id] = NoFlight]
                        ELSE flight

(* Mutant: entries in flight go, too.                                      *)
EvictionsAny(id) ==
  LET entries == {i \in Id : flight[i] # NoFlight}
  IN IF Cardinality(entries) <= CacheSize THEN {{}} ELSE {{i} : i \in entries}

(* Which entries go when id is done: completed ones, as many as are too    *)
(* many.  (The code takes the oldest.)                                     *)
Evictions(id) ==
  LET entries == {i \in Id : flight[i] # NoFlight}
      done == {i \in entries : i = id \/ flight[i].done}
  IN {S \in SUBSET done :
        \/ Cardinality(entries \ S) = CacheSize
        \/ S = done /\ Cardinality(entries \ S) > CacheSize
        \/ S = {} /\ Cardinality(entries) <= CacheSize}

Publish(t) ==
  IF Leads(t)
  THEN \E gone \in Evictions(req[t].id) :
         flight' = [i \in Id |-> IF i \in gone THEN NoFlight
                                 ELSE IF i = req[t].id THEN [flight[i] EXCEPT !.done = TRUE]
                                 ELSE flight[i]]
  ELSE UNCHANGED flight

-----------------------------------------------------------------------------

(* RequestDeduplicator.run up to its first wait.  The hash of the body     *)
(* holds the generation.                                                   *)
SameBody(t) == LET e == flight[req[t].id]
               IN e.req = req[t] /\ e.gen = generation

Lead(t) ==
  /\ pc[t] = "join" /\ flight[req[t].id] = NoFlight
  /\ flight' = [flight EXCEPT ![req[t].id] =
                  [req |-> req[t], leader |-> t, gen |-> generation, done |-> FALSE]]
  /\ pc' = [pc EXCEPT ![t] = "locks"]
  /\ UNCHANGED <<req, locks, generation, running, again>>

Follow(t) ==
  /\ pc[t] = "join" /\ flight[req[t].id] # NoFlight
  /\ SameBody(t) /\ ~flight[req[t].id].done
  /\ pc' = [pc EXCEPT ![t] = "follow"]
  /\ UNCHANGED <<req, locks, flight, generation, running, again>>

(* The result of an earlier call, or the error that the id was used for    *)
(* another request.                                                        *)
Answered(t) ==
  /\ pc[t] = "join" /\ flight[req[t].id] # NoFlight
  /\ SameBody(t) => flight[req[t].id].done
  /\ Leave(t) /\ Returns(t)
  /\ UNCHANGED <<req, flight, generation, running, again>>

Told(t) ==
  /\ pc[t] = "told"
  /\ Leave(t) /\ Returns(t)
  /\ UNCHANGED <<req, flight, generation, running, again>>

(* The worker of t is done, well or not.  A call that was cancelled in the *)
(* meantime waited for that only, and fails.                               *)
Finish(t) ==
  /\ pc[t] = "run"
  /\ Leave(t) /\ Returns(t) /\ Publish(t)
  /\ running' = running \ {t}
  /\ UNCHANGED <<req, generation, again>>

Fail(t) ==
  /\ pc[t] \in {"run", "drain"}
  /\ Leave(t) /\ Returns(t) /\ Retract(t)
  /\ running' = running \ {t}
  /\ UNCHANGED <<req, generation, again>>

(* Mutant: the caches and the generation before the lease.                 *)
ClearEarly(t) ==
  /\ pc[t] \in {"gate", "teardown"} /\ IsReset(t)
  /\ flight' = [i \in Id |-> NoFlight]
  /\ generation' = generation + 1
  /\ pc' = [pc EXCEPT ![t] = IF @ = "gate" THEN "gate" ELSE "settle"]
  /\ UNCHANGED <<req, locks, running, again>>

(* reset_environment: the terminals are torn down, then caches and         *)
(* generation change in one step, then the default terminal is made.       *)
Clear(t) ==
  /\ pc[t] = "teardown"
  /\ flight' = [i \in Id |-> NoFlight]
  /\ generation' = generation + 1
  /\ pc' = [pc EXCEPT ![t] = "settle"]
  /\ UNCHANGED <<req, locks, running, again>>

Settle(t) ==
  /\ pc[t] = "settle"
  /\ Leave(t) /\ Returns(t)
  /\ UNCHANGED <<req, flight, generation, running, again>>

(* A task is cancelled: where it waits it gives up (a reset that has       *)
(* begun, and a reset whose teardown raises, too) ...                      *)
Cancel(t) ==
  /\ pc[t] \in {"gate", "locks", "follow", "told", "teardown", "settle"}
  /\ Leave(t) /\ Returns(t) /\ Retract(t)
  /\ UNCHANGED <<req, generation, running, again>>

(* Mutant: a call that is cancelled leaves its worker behind.              *)
CancelDetaches(t) ==
  /\ pc[t] = "run"
  /\ Leave(t) /\ Returns(t) /\ Retract(t)
  /\ UNCHANGED <<req, generation, running, again>>

(* ... and while its worker works it waits for the worker, unless          *)
(* cancelled again, which cancels the awaited inner task instead.          *)
CancelRun(t) ==
  /\ pc[t] = "run"
  /\ pc' = [pc EXCEPT ![t] = "drain"]
  /\ UNCHANGED <<req, locks, flight, generation, running, again>>

CancelAgain(t) ==
  /\ pc[t] = "drain"
  /\ Leave(t) /\ Returns(t) /\ Retract(t)
  /\ again' = again \cup {t}
  /\ UNCHANGED <<req, generation, running>>

WorkerEnds(t) ==
  /\ t \in running /\ pc[t] = "idle"
  /\ running' = running \ {t} /\ again' = again \ {t}
  /\ UNCHANGED <<req, pc, locks, flight, generation>>

-----------------------------------------------------------------------------

Init ==
  /\ req \in [Task -> Menu]
  /\ pc = [t \in Task |-> "idle"]
  /\ readers = [l \in Lock |-> {}] /\ writers = [l \in Lock |-> {}]
  /\ queue = [l \in Lock |-> {}] /\ parked = [l \in Lock |-> {}]
  /\ refs = [l \in Lock |-> {}]
  /\ flight = [i \in Id |-> NoFlight]
  /\ generation = 0
  /\ running = {} /\ again = {}

(* What a task does of itself, once its request has come.                  *)
Move(t) ==
  \/ \E l \in Lock : Take(t, l) \/ Park(t, l)
  \/ Lead(t) \/ Follow(t) \/ Answered(t) \/ Told(t)
  \/ Finish(t) \/ Fail(t)
  \/ Clear(t) \/ Settle(t)

Next == \E t \in Task :
  \/ \E r \in Menu : Start(t, r)
  \/ Move(t)
  \/ Cancel(t) \/ CancelRun(t) \/ CancelAgain(t)
  \/ WorkerEnds(t)

Spec == Init /\ [][Next]_vars

(* The loop runs whatever is ready, and a tool returns or raises.  Nobody  *)
(* must send a request or cancel one.                                      *)
FairSpec == Spec /\ \A t \in Task : WF_vars(Move(t))

-----------------------------------------------------------------------------
(* Properties *)

Typing ==
  /\ req \in [Task -> Menu]
  /\ pc \in [Task -> {"idle", "gate", "join", "locks", "run", "drain", "follow",
                       "told", "teardown", "settle"}]
  /\ \A s \in {readers, writers, queue, parked, refs} : s \in [Lock -> SUBSET Task]
  /\ flight \in [Id -> {NoFlight} \cup
                       [req : Menu, leader : Task, gen : Nat, done : BOOLEAN]]
  /\ generation \in Nat
  /\ running \subseteq Task /\ again \subseteq Task

(* Types, and the bound of the deduplicator: beyond dedup_cache_size it    *)
(* keeps in-flight entries only (dedup.py, _evict).                        *)
TypeOK ==
  /\ Typing /\ generation <= MaxResets
  /\ Cardinality({i \in Id : flight[i] # NoFlight}) > CacheSize
       => \E i \in Id : flight[i] # NoFlight /\ ~flight[i].done

Conflict(t, u) == \E l \in Lock :
  /\ "none" \notin {req[t].modes[l], req[u].modes[l]}
  /\ "exclusive" \in {req[t].modes[l], req[u].modes[l]}

Resetting(t) == pc[t] \in {"teardown", "settle"}
Works(t) == t \in running \ again \/ Resetting(t)

(* Two tools whose requests conflict never work in the workspace at once,  *)
(* and none works while the environment is reset: cancellations, failures, *)
(* and entries of the lock registry that come and go make no difference    *)
(* (scheduler.py; service.py, _run_adapter_drained, reset_environment).    *)
(* Only the workers of calls cancelled twice are left out.                 *)
Exclusion ==
  \A t, u \in Task : t # u /\ Works(t) /\ Works(u) => ~Conflict(t, u)

(* What _run_adapter_drained says of every call: a lock is not released    *)
(* until the in-flight work has drained.  It is not so for a call that is  *)
(* cancelled a second time.                                                *)
DrainedFirst == \A t \in running : pc[t] \in {"run", "drain"}

(* Whoever sleeps in a lock has a reason to: a reader, that a writer holds *)
(* the lock or is queued for it; a writer, that somebody holds it.  A      *)
(* queued writer that is cancelled must wake the readers that gave way to  *)
(* it, and an entry must outlive its waiters (rwlock.py; scheduler.py,     *)
(* _checkin).                                                              *)
NoLostWakeup ==
  \A l \in Lock : \A t \in parked[l] :
    \/ writers[l] # {}
    \/ IF req[t].modes[l] = "exclusive" THEN readers[l] # {} ELSE queue[l] # {}

(* The runtime as a Workspace: at work are the tools in their threads, but *)
(* for those of calls cancelled twice, and the resets that have begun.     *)
Clashes ==
  {p \in Menu \X Menu : \E l \in Lock :
     /\ "none" \notin {p[1].modes[l], p[2].modes[l]}
     /\ "exclusive" \in {p[1].modes[l], p[2].modes[l]}}

AtWork == {<<t, req[t]>> : t \in {u \in Task : Works(u)}}

W == INSTANCE Workspace WITH
       Request <- Menu, Resets <- {r \in Menu : r.modes[Gate] = "exclusive"},
       work <- AtWork, environment <- generation

(* Leases, locks, threads and flights together are a Workspace: tools take *)
(* turns, and the generation changes under nobody's feet (service.py).     *)
Implements == W!Spec

(* While there are requests to serve some task can go on: no calls wait    *)
(* for each other, in the locks, at the lease or in a flight.              *)
NoneStuck ==
  (\E t \in Task : pc[t] # "idle") =>
    \E t \in Task : /\ pc[t] \notin {"idle", "follow"}
                    /\ \A l \in Lock : t \notin parked[l]

(* An entry of the registry is there for exactly those who hold its lock   *)
(* or wait for it: it is not dropped under them, and keys made of paths    *)
(* the callers choose do not pile up (scheduler.py, acquire).              *)
RegistryTight ==
  \A l \in Lock \ {Gate} :
    /\ readers[l] \cup writers[l] \cup queue[l] \cup parked[l] \subseteq refs[l]
    /\ \A t \in refs[l] : pc[t] \in {"locks", "run", "drain"} /\ l \in Needs(t)

(* One call at most leads a request id, its entry stays until it is done   *)
(* whatever is evicted meanwhile, and whoever follows follows a call with  *)
(* the same request in the same environment (dedup.py, run).               *)
SingleFlight ==
  /\ \A t \in Task : Leads(t) =>
       flight[req[t].id] = [req |-> req[t], leader |-> t, gen |-> generation, done |-> FALSE]
  /\ \A t \in Task : pc[t] = "follow" =>
       \E u \in Task : Leads(u) /\ req[u] = req[t]

(* No entry outlives its environment: a request id may be used afresh      *)
(* after a reset, and no result of before is given for one of after        *)
(* (service.py, reset_environment).                                        *)
IdsFresh == \A i \in Id : flight[i] # NoFlight => flight[i].gen = generation

(* What SingleFlight and IdsFresh say of the deduplicator's entries.       *)
FlightsSound == SingleFlight /\ IdsFresh

(* A steady stream of readers cannot starve a queued writer: somebody      *)
(* takes the lock exclusively, unless those who want to give up.  In       *)
(* particular no stream of calls keeps a reset waiting.  Only writers of   *)
(* another key may, who overtake a call that has this one already          *)
(* (rwlock.py; scheduler.py, acquire).                                     *)
Overtaken(l) == l # Gate /\ \E t \in readers[l], k \in Lock : t \in parked[k]
WriterServed ==
  \A l \in Lock : queue[l] # {} ~> (writers[l] # {} \/ queue[l] = {} \/ Overtaken(l))
=============================================================================
