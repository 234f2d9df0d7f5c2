-------------------------- MODULE ImageBuildProofs --------------------------
(***************************************************************************)
(* Proofs about ImageBuild, for any requests, builds, tags, backends,      *)
(* switches and number of faults: its type invariant, that a SUCCESS is    *)
(* of an image in the registry, and that without a fault a FAILURE is one  *)
(* of the backend or of the monitor.                                       *)
(*                                                                         *)
(* Both follow what is known of a build on its way from the backend into   *)
(* the monitor or the watcher, from there into the row, and from the row   *)
(* to the client: the invariant says of every place what it may hold.      *)
(***************************************************************************)
EXTENDS ImageBuild, TLAPS

-----------------------------------------------------------------------------
(* The inductive invariant.                                                *)

Pushed(b) == SpecOf[b].tag \in pushed

\* A client is at an image of its request, and has tries left for it.
AtAnImage ==
  \A r \in Request : client[r].next \in 1 .. Len(Images[r]) /\ client[r].tries < MaxAttempts

\* A SUCCESS anywhere is of an image that is in the registry.
SuccessAnywhere ==
  /\ \A b \in Build :
       /\ job[b].state = "succeeded" \/ b \in skipped \/ mon[b].seen = "SUCCESS" => Pushed(b)
       /\ row[b].status = "SUCCESS" => Pushed(b)
  /\ \A t \in Tag : row[t].status = "SUCCESS" => t \in pushed
  /\ watch.at # None /\ watch.seen = "SUCCESS" => Pushed(watch.at)
  /\ \A r \in Request, b \in Build : client[r].told[b] = "SUCCESS" => Pushed(b)

\* The watcher only looks after builds a backend has: the row of a skipped one,
\* which is named for its tag, has no context.
WatchedHaveJobs ==
  /\ \A b \in Build : row[b].context # None => job[b].at # None
  /\ \A b \in Build : job[b].at # None => job[b].state # "none"
  /\ \A t \in Tag : row[t].context = None
  /\ \A n \in watch.todo \cup ({watch.at} \ {None}) : n \in Build /\ job[n].at # None

\* The images a request has not come to are untouched, and a monitor that has
\* not polled knows nothing.
Untouched(b) == job[b].state = "none" /\ mon[b].pc = "none" /\ b \notin skipped
NotReached ==
  \A r \in Request : client[r].pc \in {"new", "submit"} =>
    \A i \in client[r].next .. Len(Images[r]) : Untouched(Images[r][i])
SeenByPoll == \A b \in Build : mon[b].pc \in {"none", "save", "poll"} => mon[b].seen = "IN_PROGRESS"

\* Without a fault the watcher learns a failure from the backend.
FailureSeen ==
  faults = 0 /\ watch.at # None /\ watch.seen = "FAILURE" => job[watch.at].state \in {"failed", "gone"}

Inv ==
  /\ TypeOK
  /\ AtAnImage
  /\ SuccessAnywhere
  /\ WatchedHaveJobs
  /\ NotReached
  /\ SeenByPoll
  /\ FailureSeen
  /\ FailureIsReal

-----------------------------------------------------------------------------
(* Data.                                                                   *)

LEMMA CurrentIsBuild ==
  ASSUME TypeOK, AtAnImage, NEW r \in Request
  PROVE  /\ Current(r) \in Build
         /\ Images[r] \in Seq(Build) /\ Len(Images[r]) \in Nat
         /\ client[r].next \in DOMAIN Images[r]
  BY ImageBuildAssumption DEF TypeOK, AtAnImage, Current

LEMMA NamesApart ==
  /\ Build \cap Tag = {} /\ None \notin JobName
  /\ \A b \in Build : SpecOf[b].tag \in Tag
  /\ \A b \in Build : NameOf(b) \in JobName /\ (b \notin skipped => NameOf(b) = b)
                      /\ (b \in skipped => NameOf(b) = SpecOf[b].tag)
  BY ImageBuildAssumption DEF JobName, BuildSpec, NameOf

\* A client that goes on to its next image, or is told of this one.
LEMMA ClientTypes ==
  ASSUME NEW k \in Client
  PROVE  /\ \A pc \in {"submit", "done", "failed"} : [k EXCEPT !.pc = pc] \in Client
         /\ [k EXCEPT !.pc = "poll", !.next = 1] \in Client
         /\ [k EXCEPT !.next = @ + 1] \in Client
         /\ \A tries \in 0 .. MaxAttempts : [k EXCEPT !.tries = tries] \in Client
         /\ \A b \in Build, s \in Final :
              [k EXCEPT !.told[b] = s, !.tries = 0] \in Client
<1>1. /\ \A pc \in {"submit", "done", "failed"} : [k EXCEPT !.pc = pc] \in Client
      /\ k.next + 1 \in Nat /\ 1 \in Nat
  BY DEF Client
<1>2. [k EXCEPT !.pc = "poll", !.next = 1] \in Client
  BY <1>1 DEF Client
<1>3. [k EXCEPT !.next = @ + 1] \in Client
  BY <1>1 DEF Client
<1>4. \A tries \in 0 .. MaxAttempts : [k EXCEPT !.tries = tries] \in Client
  BY DEF Client
<1>5. ASSUME NEW b \in Build, NEW s \in Final
      PROVE  [k EXCEPT !.told[b] = s, !.tries = 0] \in Client
  <2>1. [k.told EXCEPT ![b] = s] \in [Build -> Final \cup {None}]
    BY DEF Client
  <2>2. [k EXCEPT !.told[b] = s, !.tries = 0] = [k EXCEPT !.told = [k.told EXCEPT ![b] = s], !.tries = 0]
    BY DEF Client
  <2>3. 0 \in 0 .. MaxAttempts
    BY DEF MaxAttempts
  <2>4. QED
    BY <2>1, <2>2, <2>3 DEF Client
<1>6. QED
  BY <1>1, <1>2, <1>3, <1>4, <1>5

LEMMA AdvancedClient ==
  ASSUME TypeOK, AtAnImage, NEW r \in Request, client' = Advanced(r)
  PROVE  /\ client' \in [Request -> Client] /\ AtAnImage'
         /\ \A q \in Request \ {r} : client'[q] = client[q]
         /\ client'[r].told = client[r].told
         /\ \/ client'[r].pc = "poll"
            \/ client'[r].pc = client[r].pc /\ client'[r].next = client[r].next + 1
<1> DEFINE k == client[r]
           n == IF k.next = Len(Images[r]) THEN [k EXCEPT !.pc = "poll", !.next = 1]
                ELSE [k EXCEPT !.next = @ + 1]
<1>1. k \in Client /\ Len(Images[r]) \in Nat /\ k.next \in 1 .. Len(Images[r]) /\ k.tries < MaxAttempts
  BY CurrentIsBuild DEF TypeOK, AtAnImage
<1>2. n \in Client
  BY <1>1, ClientTypes
<1>3. client' = [client EXCEPT ![r] = n]
  BY DEF Advanced, TypeOK
<1>4. /\ n.told = k.told /\ n.tries = k.tries /\ n.next \in 1 .. Len(Images[r])
      /\ n.pc = "poll" \/ (n.pc = k.pc /\ n.next = k.next + 1)
  BY <1>1 DEF Client
<1> HIDE DEF n
<1>5. client'[r] = n /\ \A q \in Request \ {r} : client'[q] = client[q]
  BY <1>3 DEF TypeOK
<1>6. QED
  BY <1>1, <1>2, <1>3, <1>4, <1>5 DEF TypeOK, AtAnImage

LEMMA ToldClient ==
  ASSUME TypeOK, AtAnImage, NEW r \in Request, NEW s \in Final, client[r].pc = "poll",
         client' = Told(r, s)
  PROVE  /\ client' \in [Request -> Client] /\ AtAnImage'
         /\ \A q \in Request \ {r} : client'[q] = client[q]
         /\ client'[r].told = [client[r].told EXCEPT ![Current(r)] = s]
         /\ client'[r].pc \in {"poll", "done"}
<1> DEFINE k == client[r]
           b == Current(r)
           m == [k EXCEPT !.told[b] = s, !.tries = 0]
           n == IF k.next = Len(Images[r]) THEN [m EXCEPT !.pc = "done"] ELSE [m EXCEPT !.next = @ + 1]
<1>1. /\ k \in Client /\ b \in Build /\ Len(Images[r]) \in Nat
      /\ k.next \in 1 .. Len(Images[r]) /\ k.tries < MaxAttempts
  BY CurrentIsBuild DEF TypeOK, AtAnImage
<1>2. m \in Client /\ m.next = k.next /\ m.tries = 0 /\ m.pc = "poll"
      /\ m.told = [k.told EXCEPT ![b] = s]
  BY <1>1, ClientTypes DEF Client
<1>3. client' = [client EXCEPT ![r] = n]
  BY DEF Told, TypeOK
<1> HIDE DEF m
<1>4. n \in Client
  BY <1>2, ClientTypes
<1>5. /\ n.told = m.told /\ n.tries = m.tries /\ n.next \in 1 .. Len(Images[r])
      /\ n.pc \in {"poll", "done"}
  BY <1>1, <1>2 DEF Client
<1> HIDE DEF n
<1>6. client'[r] = n /\ \A q \in Request \ {r} : client'[q] = client[q]
  BY <1>3 DEF TypeOK
<1>7. QED
  BY <1>1, <1>2, <1>3, <1>4, <1>5, <1>6 DEF TypeOK, AtAnImage, MaxAttempts

-----------------------------------------------------------------------------
(* Submission.                                                             *)

LEMMA AskKeepsInv == ASSUME Inv, NEW r \in Request, Ask(r) PROVE Inv'
<1> USE DEF Inv, Ask, builds
<1>1. client[r] \in Client /\ [client[r] EXCEPT !.pc = "submit"] \in Client
  BY ClientTypes DEF TypeOK
<1>2. /\ client'[r].pc = "submit" /\ client'[r].next = client[r].next /\ client'[r].told = client[r].told
      /\ client'[r].tries = client[r].tries
      /\ \A q \in Request \ {r} : client'[q] = client[q]
  BY <1>1 DEF TypeOK, Client
<1>3. TypeOK'
  BY <1>1 DEF TypeOK
<1>4. AtAnImage' /\ NotReached'
  BY <1>2 DEF AtAnImage, NotReached, Untouched
<1>5. SuccessAnywhere'
  BY <1>2 DEF SuccessAnywhere, Pushed
<1>6. QED
  BY <1>3, <1>4, <1>5 DEF WatchedHaveJobs, SeenByPoll, FailureSeen, FailureIsReal

\* A request that has not come to an image can only come to it itself.
LEMMA OneRequestPerBuild ==
  ASSUME TypeOK, AtAnImage, NEW r \in Request, NEW q \in Request, NEW i \in 1 .. Len(Images[q]),
         Images[q][i] = Current(r)
  PROVE  q = r /\ i = client[r].next
  BY ImageBuildAssumption, CurrentIsBuild DEF AtAnImage, Current

\* A step that touches no untouched build, and submits none.
LEMMA StillNotReached ==
  ASSUME TypeOK, AtAnImage, NotReached, \A c \in Build : Untouched(c) => Untouched(c)',
         \A q \in Request : client'[q].pc \in {"new", "submit"} => client'[q] = client[q]
  PROVE  NotReached'
<1>1. \A q \in Request : client[q].next \in 1 .. Len(Images[q]) /\ Images[q] \in Seq(Build)
  BY CurrentIsBuild DEF AtAnImage
<1>2. \A q \in Request : \A i \in client[q].next .. Len(Images[q]) : Images[q][i] \in Build
  BY <1>1
<1>3. QED
  BY <1>2 DEF NotReached

\* A request that is refused; perhaps a build is left behind, which nobody monitors.
LEMMA RefusedKeepsInv ==
  ASSUME Inv, NEW r \in Request, client[r].pc = "submit",
         Reject(r) \/ SubmissionFails(r, Current(r)), UNCHANGED <<backend, row, watch>>
  PROVE  Inv'
<1> DEFINE b == Current(r)
<1> USE DEF Inv
<1>1. /\ b \in Build /\ job[b].state = "none" /\ Untouched(b)
      /\ job[b] \in Job
  <2>1. b \in Build /\ client[r].next \in 1 .. Len(Images[r]) /\ client[r].next \in client[r].next .. Len(Images[r])
    BY CurrentIsBuild DEF AtAnImage
  <2>2. QED
    BY <2>1 DEF NotReached, Untouched, Current, TypeOK
<1> HIDE DEF b
<1>2. /\ client' = [client EXCEPT ![r] = [client[r] EXCEPT !.pc = "failed"]]
      /\ [client[r] EXCEPT !.pc = "failed"] \in Client /\ client[r] \in Client
      /\ UNCHANGED <<job, pushed, skipped, mon>> /\ lost' \subseteq Build
      /\ faults' \in 0 .. MaxFaults /\ (faults' = 0 => faults = 0)
  <2>1. client[r] \in Client /\ client' = Refused(r)
    BY DEF TypeOK, Reject, SubmissionFails
  <2>2. faults' \in 0 .. MaxFaults /\ (faults' = 0 => faults = 0)
    BY ImageBuildAssumption DEF TypeOK, Reject, SubmissionFails, Fault, NoFault
  <2>3. QED
    BY <1>1, <2>1, <2>2, ClientTypes DEF Reject, SubmissionFails, Refused, builds, TypeOK, b
<1>3. /\ client'[r].pc = "failed" /\ client'[r].next = client[r].next /\ client'[r].told = client[r].told
      /\ client'[r].tries = client[r].tries
      /\ \A q \in Request \ {r} : client'[q] = client[q]
  BY <1>2 DEF TypeOK, Client
<1>4. TypeOK'
  BY <1>2 DEF TypeOK
<1>5. AtAnImage'
  BY <1>3 DEF AtAnImage
<1>6. SuccessAnywhere'
  BY <1>2, <1>3 DEF SuccessAnywhere, Pushed
<1>7. NotReached'
  <2>1. \A c \in Build : Untouched(c) => Untouched(c)'
    BY <1>2 DEF Untouched
  <2>2. \A q \in Request : client'[q].pc \in {"new", "submit"} => client'[q] = client[q]
    BY <1>3
  <2>3. QED
    BY <2>1, <2>2, StillNotReached
<1>8. WatchedHaveJobs' /\ SeenByPoll' /\ FailureSeen' /\ FailureIsReal'
  BY <1>2 DEF WatchedHaveJobs, SeenByPoll, FailureSeen, FailureIsReal
<1>9. QED
  BY <1>4, <1>5, <1>6, <1>7, <1>8

\* A build that begins, or is skipped: its monitor is still to save the row.
LEMMA AcceptedKeepsInv ==
  ASSUME Inv, NEW r \in Request, client[r].pc = "submit",
         Begun(r, Current(r)) \/ Skip(r, Current(r)), UNCHANGED <<backend, row, watch>>
  PROVE  Inv'
<1> DEFINE b == Current(r)
<1> USE DEF Inv
<1>1. /\ b \in Build /\ Untouched(b)
      /\ job[b] \in Job /\ mon[b] \in Monitor /\ mon[b].seen = "IN_PROGRESS"
      /\ backend \in Backend /\ backend # None
  <2>1. b \in Build /\ client[r].next \in 1 .. Len(Images[r]) /\ client[r].next \in client[r].next .. Len(Images[r])
    BY CurrentIsBuild DEF AtAnImage
  <2>2. QED
    BY <2>1, ImageBuildAssumption DEF NotReached, Untouched, Current, TypeOK, SeenByPoll
<1>2. /\ client' \in [Request -> Client] /\ AtAnImage'
      /\ \A q \in Request \ {r} : client'[q] = client[q]
      /\ client'[r].told = client[r].told
      /\ client'[r].pc \in {"new", "submit"} => client'[r].next = client[r].next + 1
  BY AdvancedClient DEF Begun, Skip
<1> HIDE DEF b
<1>3. /\ pushed' = pushed /\ lost' \subseteq Build
      /\ faults' \in 0 .. MaxFaults /\ (faults' = 0 => faults = 0)
      /\ mon' = [mon EXCEPT ![b].pc = "save"]
      /\ \/ job' = job /\ skipped' = skipped \cup {b} /\ Pushed(b)
         \/ job' = [job EXCEPT ![b] = [at |-> backend, state |-> "running"]] /\ skipped' = skipped
  BY <1>1, ImageBuildAssumption DEF Begun, Resubmitted, Skip, Exists, Monitored, TypeOK, Fault, NoFault, Pushed, b
<1>4. /\ \A c \in Build \ {b} : job'[c] = job[c] /\ mon'[c] = mon[c]
      /\ mon'[b].seen = "IN_PROGRESS" /\ mon'[b].pc = "save"
      /\ \/ job'[b] = job[b] \/ job'[b] = [at |-> backend, state |-> "running"]
      /\ skipped \subseteq skipped' /\ skipped' \subseteq skipped \cup {b}
      /\ skipped' = skipped \/ Pushed(b)
  BY <1>1, <1>3 DEF TypeOK, Monitor
<1>5. TypeOK'
  <2>1. [mon[b] EXCEPT !.pc = "save"] \in Monitor /\ [at |-> backend, state |-> "running"] \in Job
    BY <1>1 DEF Monitor, Job
  <2>2. mon' = [mon EXCEPT ![b] = [mon[b] EXCEPT !.pc = "save"]]
    BY <1>3
  <2>3. mon' \in [Build -> Monitor] /\ job' \in [Build -> Job] /\ skipped' \subseteq Build
    BY <1>1, <1>3, <2>1, <2>2 DEF TypeOK
  <2>4. QED
    BY <1>2, <1>3, <2>3 DEF TypeOK
<1>6. SuccessAnywhere'
  BY <1>2, <1>3, <1>4 DEF SuccessAnywhere, Pushed
<1>7. WatchedHaveJobs'
  <2>1. \A c \in Build : (job[c].at # None => job'[c].at # None) /\ (job'[c].at # None => job'[c].state # "none")
    BY <1>1, <1>4 DEF WatchedHaveJobs
  <2>2. row' = row /\ watch' = watch
    OBVIOUS
  <2>3. QED
    BY <2>1, <2>2 DEF WatchedHaveJobs
<1>8. NotReached'
  <2>1. ASSUME NEW q \in Request, client'[q].pc \in {"new", "submit"},
               NEW i \in client'[q].next .. Len(Images[q])
        PROVE  Untouched(Images[q][i])'
    <3>1. /\ client[q].pc \in {"new", "submit"} /\ i \in client[q].next .. Len(Images[q])
          /\ i \in 1 .. Len(Images[q]) /\ (q = r => i > client[r].next)
      <4>1. client[q].next \in 1 .. Len(Images[q]) /\ Len(Images[q]) \in Nat
        BY CurrentIsBuild DEF AtAnImage
      <4>2. QED
        BY <2>1, <4>1, <1>2
    <3>2. Untouched(Images[q][i]) /\ Images[q][i] \in Build
      BY <3>1, CurrentIsBuild DEF NotReached
    <3>3. Images[q][i] # b
      <4>1. client[r].next \in Nat /\ i \in Nat
        BY <3>1, CurrentIsBuild DEF AtAnImage
      <4>2. QED
        BY <3>1, <4>1, OneRequestPerBuild DEF b
    <3>4. QED
      BY <3>2, <3>3, <1>4 DEF Untouched
  <2>2. QED
    BY <2>1 DEF NotReached
<1>9. SeenByPoll'
  BY <1>4 DEF SeenByPoll
<1>10. FailureSeen' /\ FailureIsReal'
  BY <1>1, <1>3, <1>4 DEF FailureSeen, FailureIsReal, Untouched, WatchedHaveJobs
<1>11. QED
  BY <1>2, <1>5, <1>6, <1>7, <1>8, <1>9, <1>10

LEMMA SubmitKeepsInv == ASSUME Inv, NEW r \in Request, Submit(r) PROVE Inv'
  BY RefusedKeepsInv, AcceptedKeepsInv DEF Submit

-----------------------------------------------------------------------------
(* The monitor.                                                            *)

\* A monitor that learns something, is late, breaks or dies.
LEMMA MonitorKeepsInv ==
  ASSUME Inv, NEW b \in Build, Poll(b) \/ TimeOut(b) \/ Breaks(b) \/ Dies(b)
  PROVE  Inv'
<1> USE DEF Inv, builds
<1>1. /\ UNCHANGED <<backend, job, lost, pushed, skipped, row, watch, client>>
      /\ faults' \in 0 .. MaxFaults /\ (faults' = 0 => faults = 0)
  BY ImageBuildAssumption DEF Poll, TimeOut, Breaks, Dies, Fault, NoFault, TypeOK
<1>2. mon[b] \in Monitor /\ mon[b].pc # "none"
  BY DEF TypeOK, Poll, TimeOut, Breaks, Dies
<1>3. PICK m \in Monitor :
         /\ mon' = [mon EXCEPT ![b] = m]
         /\ m.pc \in {"write", "late", "done"}
         /\ m.seen = "SUCCESS" => Pushed(b)
         /\ mon[b].seen = "FAILURE" => m.seen = "FAILURE"
  <2>1. CASE Poll(b)
    <3>1. PICK s \in Final : /\ mon' = [mon EXCEPT ![b] = [pc |-> "write", seen |-> s]]
                             /\ s = "SUCCESS" => b \in skipped \/ StatusOf(b) = "SUCCESS"
      BY <2>1 DEF Poll, Final
    <3>2. s = "SUCCESS" => Pushed(b)
      BY <3>1 DEF StatusOf, SuccessAnywhere
    <3>3. mon[b].seen = "IN_PROGRESS"
      BY <2>1 DEF Poll, SeenByPoll
    <3>4. QED
      BY <3>1, <3>2, <3>3 DEF Monitor, Final, Status
  <2>2. CASE TimeOut(b) \/ Breaks(b)
    BY <2>2 DEF TimeOut, Breaks, Monitor, Status
  <2>3. CASE Dies(b)
    <3>1. mon' = [mon EXCEPT ![b] = [mon[b] EXCEPT !.pc = "done"]]
      BY <2>3 DEF Dies, TypeOK
    <3>2. QED
      BY <1>2, <3>1 DEF Monitor, SuccessAnywhere
  <2>4. QED
    BY <2>1, <2>2, <2>3
<1>4. mon'[b] = m /\ \A c \in Build \ {b} : mon'[c] = mon[c]
  BY <1>3 DEF TypeOK
<1>5. TypeOK'
  BY <1>1, <1>3 DEF TypeOK
<1>6. SuccessAnywhere'
  BY <1>1, <1>3, <1>4 DEF SuccessAnywhere, Pushed
<1>7. AtAnImage' /\ WatchedHaveJobs'
  BY <1>1 DEF AtAnImage, WatchedHaveJobs
<1>8. NotReached'
  <2>1. \A c \in Build : Untouched(c) => Untouched(c)'
    BY <1>1, <1>2, <1>4 DEF Untouched
  <2>2. QED
    BY <1>1, <2>1, StillNotReached
<1>9. SeenByPoll'
  BY <1>3, <1>4 DEF SeenByPoll
<1>10. FailureSeen' /\ FailureIsReal'
  BY <1>1, <1>3, <1>4 DEF FailureSeen, FailureIsReal
<1>11. QED
  BY <1>5, <1>6, <1>7, <1>8, <1>9, <1>10

\* The row of a build gets its context, which is the backend that has the build.
LEMMA SaveKeepsInv == ASSUME Inv, NEW b \in Build, Save(b) PROVE Inv'
<1> DEFINE n == NameOf(b)
           context == IF row[n].status # "none" /\ ContextOf(b) = None THEN row[n].context
                      ELSE ContextOf(b)
           r == [status |-> "IN_PROGRESS", context |-> context]
<1> USE DEF Inv, builds
<1>1. /\ UNCHANGED <<backend, job, lost, pushed, skipped, watch, client, faults>>
      /\ mon[b] \in Monitor /\ mon[b].pc = "save" /\ mon' = [mon EXCEPT ![b] = [mon[b] EXCEPT !.pc = "poll"]]
      /\ n \in JobName /\ (b \notin skipped => n = b) /\ (b \in skipped => n \in Tag /\ n \notin Build)
      /\ row' = [row EXCEPT ![n] = r]
  BY NamesApart DEF Save, TypeOK
<1>2. r \in Row
  BY <1>1, ImageBuildAssumption DEF TypeOK, Row, Status, ContextOf, Job
<1>3. /\ b \in skipped => context = None
      /\ b \notin skipped => context = None \/ job[b].at # None
  BY <1>1 DEF WatchedHaveJobs, ContextOf
<1> HIDE DEF n, r
<1>4. row'[n] = r /\ \A m \in JobName \ {n} : row'[m] = row[m]
  BY <1>1 DEF TypeOK
<1>5. r.status = "IN_PROGRESS" /\ r.context = context
  BY DEF r
<1> HIDE DEF context
<1>6. mon'[b].pc = "poll" /\ mon'[b].seen = mon[b].seen /\ \A c \in Build \ {b} : mon'[c] = mon[c]
  BY <1>1 DEF TypeOK, Monitor
<1>7. TypeOK'
  BY <1>1, <1>2 DEF TypeOK, Monitor
<1>8. SuccessAnywhere'
  BY <1>1, <1>4, <1>5, <1>6 DEF SuccessAnywhere, Pushed, JobName
<1>9. AtAnImage' /\ FailureSeen'
  BY <1>1 DEF AtAnImage, FailureSeen
<1>10. WatchedHaveJobs'
  <2>1. \A c \in Build : row'[c].context # None => job'[c].at # None
    BY <1>1, <1>3, <1>4, <1>5 DEF WatchedHaveJobs, JobName
  <2>2. \A t \in Tag : row'[t].context = None
    BY <1>1, <1>3, <1>4, <1>5, NamesApart DEF WatchedHaveJobs, JobName
  <2>3. QED
    BY <1>1, <2>1, <2>2 DEF WatchedHaveJobs
<1>11. NotReached'
  <2>1. \A c \in Build : Untouched(c) => Untouched(c)'
    BY <1>1, <1>6 DEF Untouched
  <2>2. QED
    BY <1>1, <2>1, StillNotReached
<1>12. SeenByPoll'
  BY <1>1, <1>6 DEF SeenByPoll
<1>13. FailureIsReal'
  BY <1>1, <1>4, <1>5, <1>6 DEF FailureIsReal, JobName
<1>14. QED
  BY <1>7, <1>8, <1>9, <1>10, <1>11, <1>12, <1>13

\* The row gets what the monitor has seen.
LEMMA WriteKeepsInv == ASSUME Inv, NEW b \in Build, Write(b) PROVE Inv'
<1> DEFINE n == NameOf(b)
<1> USE DEF Inv, builds
<1>1. /\ UNCHANGED <<backend, job, lost, pushed, skipped, watch, client, faults>>
      /\ mon[b] \in Monitor /\ mon[b].pc \in {"write", "late"}
      /\ mon' = [mon EXCEPT ![b] = [mon[b] EXCEPT !.pc = "done"]]
      /\ n \in JobName /\ (b \notin skipped => n = b)
      /\ (b \in skipped => n = SpecOf[b].tag /\ n \in Tag /\ n \notin Build)
      /\ row[n] \in Row
      /\ row' = row \/ row' = [row EXCEPT ![n] = [row[n] EXCEPT !.status = mon[b].seen]]
  BY NamesApart DEF Write, Written, TypeOK
<1> HIDE DEF n
<1>2. /\ [row[n] EXCEPT !.status = mon[b].seen] \in Row
      /\ [row[n] EXCEPT !.status = mon[b].seen].status = mon[b].seen
      /\ [row[n] EXCEPT !.status = mon[b].seen].context = row[n].context
      /\ [mon[b] EXCEPT !.pc = "done"] \in Monitor
  BY <1>1 DEF Row, Monitor
<1>3. /\ row'[n].context = row[n].context /\ row'[n].status \in {row[n].status, mon[b].seen}
      /\ \A m \in JobName \ {n} : row'[m] = row[m]
  BY <1>1, <1>2 DEF TypeOK
<1>4. mon'[b].pc = "done" /\ mon'[b].seen = mon[b].seen /\ \A c \in Build \ {b} : mon'[c] = mon[c]
  BY <1>1 DEF TypeOK, Monitor
<1>5. TypeOK'
  BY <1>1, <1>2 DEF TypeOK
<1>6. SuccessAnywhere'
  <2>1. mon[b].seen = "SUCCESS" => Pushed(b)
    BY DEF SuccessAnywhere
  <2>2. \A c \in Build : row'[c].status = "SUCCESS" => Pushed(c)
    BY <1>1, <1>3, <2>1 DEF SuccessAnywhere, JobName
  <2>3. \A t \in Tag : row'[t].status = "SUCCESS" => t \in pushed
    BY <1>1, <1>3, <2>1, NamesApart DEF SuccessAnywhere, Pushed, JobName
  <2>4. \A c \in Build : mon'[c].seen = mon[c].seen
    BY <1>4
  <2>5. QED
    BY <1>1, <2>2, <2>3, <2>4 DEF SuccessAnywhere, Pushed
<1>7. AtAnImage' /\ FailureSeen'
  BY <1>1 DEF AtAnImage, FailureSeen
<1>8. WatchedHaveJobs'
  BY <1>1, <1>3 DEF WatchedHaveJobs, JobName
<1>9. NotReached'
  <2>1. \A c \in Build : Untouched(c) => Untouched(c)'
    BY <1>1, <1>4 DEF Untouched
  <2>2. QED
    BY <1>1, <2>1, StillNotReached
<1>10. SeenByPoll'
  BY <1>4 DEF SeenByPoll
<1>11. FailureIsReal'
  BY <1>1, <1>3, <1>4 DEF FailureIsReal, JobName
<1>12. QED
  BY <1>5, <1>6, <1>7, <1>8, <1>9, <1>10, <1>11

-----------------------------------------------------------------------------
(* The watcher.                                                            *)

\* A step that changes nothing but the pass of the watcher.
LEMMA PassKeepsInv ==
  ASSUME Inv, UNCHANGED <<backend, builds, row, mon, client>>,
         watch' \in [todo : SUBSET JobName, at : JobName \cup {None}, seen : Status],
         faults' \in 0 .. MaxFaults, faults' = 0 => faults = 0,
         \A n \in watch'.todo \cup ({watch'.at} \ {None}) : n \in Build /\ job[n].at # None,
         watch'.at # None /\ watch'.seen = "SUCCESS" => Pushed(watch'.at),
         faults' = 0 /\ watch'.at # None /\ watch'.seen = "FAILURE"
           => job[watch'.at].state \in {"failed", "gone"}
  PROVE  Inv'
<1> USE DEF Inv, builds
<1>1. TypeOK'
  BY DEF TypeOK
<1>2. SuccessAnywhere'
  BY DEF SuccessAnywhere, Pushed
<1>3. WatchedHaveJobs'
  BY DEF WatchedHaveJobs
<1>4. NotReached' /\ SeenByPoll' /\ AtAnImage'
  BY DEF NotReached, SeenByPoll, AtAnImage, Untouched
<1>5. FailureSeen' /\ FailureIsReal'
  BY DEF FailureSeen, FailureIsReal
<1>6. QED
  BY <1>1, <1>2, <1>3, <1>4, <1>5

LEMMA WatchListKeepsInv == ASSUME Inv, WatchList PROVE Inv'
<1> DEFINE orphans == {n \in JobName : row[n].status = "IN_PROGRESS" /\ row[n].context # None}
<1>1. /\ watch' = [todo |-> orphans, at |-> None, seen |-> "IN_PROGRESS"]
      /\ UNCHANGED <<backend, builds, row, mon, client, faults>>
  BY DEF WatchList, Idle
<1>2. \A n \in orphans : n \in Build /\ job[n].at # None
  BY DEF Inv, WatchedHaveJobs, JobName
<1>3. QED
  BY <1>1, <1>2, PassKeepsInv DEF Inv, TypeOK, Status

LEMMA WatchAskKeepsInv == ASSUME Inv, WatchAsk PROVE Inv'
<1>1. PICK n \in watch.todo :
        \/ /\ Asked(n) = "IN_PROGRESS" /\ NoFault
           /\ watch' = [watch EXCEPT !.todo = @ \ {n}]
        \/ /\ Asked(n) # "IN_PROGRESS" /\ NoFault
           /\ watch' = [todo |-> watch.todo \ {n}, at |-> n, seen |-> Asked(n)]
        \/ /\ Fault
           /\ watch' = IF row[n].context = "kaniko"
                       THEN [todo |-> watch.todo \ {n}, at |-> n, seen |-> "FAILURE"]
                       ELSE [watch EXCEPT !.todo = @ \ {n}]
  BY DEF WatchAsk
<1>2. /\ UNCHANGED <<backend, builds, row, mon, client>>
      /\ watch.at = None /\ n \in Build /\ n \in JobName /\ job[n] \in Job /\ job[n].at # None
      /\ job[n].state # "none"
      /\ watch \in [todo : SUBSET JobName, at : JobName \cup {None}, seen : Status]
      /\ faults \in 0 .. MaxFaults
  BY DEF WatchAsk, Inv, WatchedHaveJobs, TypeOK, JobName
<1>3. \A m \in watch.todo : m \in Build /\ job[m].at # None
  BY DEF Inv, WatchedHaveJobs
<1>4. CASE watch' = [watch EXCEPT !.todo = @ \ {n}] /\ (NoFault \/ Fault)
  <2>1. watch'.todo = watch.todo \ {n} /\ watch'.at = None /\ watch'.seen = watch.seen
    BY <1>2, <1>4
  <2>2. watch' \in [todo : SUBSET JobName, at : JobName \cup {None}, seen : Status]
    BY <1>2, <1>4
  <2>3. faults' \in 0 .. MaxFaults /\ (faults' = 0 => faults = 0)
    BY <1>2, <1>4, ImageBuildAssumption DEF Fault, NoFault
  <2>4. QED
    BY <1>2, <1>3, <2>1, <2>2, <2>3, PassKeepsInv
<1>5. CASE /\ Asked(n) # "IN_PROGRESS" /\ NoFault
           /\ watch' = [todo |-> watch.todo \ {n}, at |-> n, seen |-> Asked(n)]
  <2>1. /\ Asked(n) = "SUCCESS" => job[n].state = "succeeded"
        /\ Asked(n) = "FAILURE" => job[n].state \in {"failed", "gone"}
        /\ Asked(n) \in Status
    BY <1>2 DEF Asked, StatusOf, Status, Job
  <2>2. Asked(n) = "SUCCESS" => Pushed(n)
    BY <1>2, <2>1 DEF Inv, SuccessAnywhere
  <2>3. watch' \in [todo : SUBSET JobName, at : JobName \cup {None}, seen : Status]
    BY <1>2, <1>5, <2>1
  <2>4. QED
    BY <1>2, <1>3, <1>5, <2>1, <2>2, <2>3, PassKeepsInv DEF NoFault
<1>6. CASE /\ Fault
           /\ watch' = [todo |-> watch.todo \ {n}, at |-> n, seen |-> "FAILURE"]
  <2>1. watch' \in [todo : SUBSET JobName, at : JobName \cup {None}, seen : Status]
    BY <1>2, <1>6 DEF Status
  <2>2. faults' \in 0 .. MaxFaults /\ faults' # 0
    BY <1>2, <1>6, ImageBuildAssumption DEF Fault
  <2>3. QED
    BY <1>2, <1>3, <1>6, <2>1, <2>2, PassKeepsInv
<1>7. QED
  BY <1>1, <1>4, <1>5, <1>6

LEMMA WatchDiesKeepsInv == ASSUME Inv, WatchDies PROVE Inv'
<1>1. /\ watch' = [todo |-> {}, at |-> None, seen |-> "IN_PROGRESS"]
      /\ UNCHANGED <<backend, builds, row, mon, client>>
      /\ faults' \in 0 .. MaxFaults /\ (faults' = 0 => faults = 0)
  BY ImageBuildAssumption DEF WatchDies, Idle, Fault, Inv, TypeOK
<1>2. QED
  BY <1>1, PassKeepsInv DEF Status

\* The row gets what the watcher was told.
LEMMA WatchWriteKeepsInv == ASSUME Inv, WatchWrite PROVE Inv'
<1> DEFINE n == watch.at
<1> USE DEF Inv, builds
<1>1. /\ UNCHANGED <<backend, job, lost, pushed, skipped, mon, client, faults>>
      /\ watch \in [todo : SUBSET JobName, at : JobName \cup {None}, seen : Status]
      /\ n # None /\ n \in Build /\ n \in JobName /\ row[n] \in Row
      /\ row' = row \/ row' = [row EXCEPT ![n] = [row[n] EXCEPT !.status = watch.seen]]
  BY DEF WatchWrite, Written, WatchedHaveJobs, TypeOK, JobName
<1>2. watch' = [watch EXCEPT !.at = None, !.seen = "IN_PROGRESS"]
  BY DEF WatchWrite
<1>3. /\ watch'.at = None /\ watch'.todo = watch.todo
      /\ watch' \in [todo : SUBSET JobName, at : JobName \cup {None}, seen : Status]
  BY <1>1, <1>2 DEF Status
<1>4. /\ watch.seen = "SUCCESS" => Pushed(n)
      /\ faults = 0 /\ watch.seen = "FAILURE" => job[n].state \in {"failed", "gone"}
      /\ watch.seen \in Status
  BY <1>1 DEF SuccessAnywhere, FailureSeen
<1> HIDE DEF n
<1>5. /\ [row[n] EXCEPT !.status = watch.seen] \in Row
      /\ [row[n] EXCEPT !.status = watch.seen].status = watch.seen
      /\ [row[n] EXCEPT !.status = watch.seen].context = row[n].context
  BY <1>1, <1>4 DEF Row
<1>6. /\ row'[n].context = row[n].context /\ row'[n].status \in {row[n].status, watch.seen}
      /\ \A m \in JobName \ {n} : row'[m] = row[m]
  BY <1>1, <1>5 DEF TypeOK
<1>7. TypeOK'
  BY <1>1, <1>3, <1>5 DEF TypeOK
<1>8. SuccessAnywhere'
  <2>1. \A c \in Build : row'[c].status = "SUCCESS" => Pushed(c)
    BY <1>1, <1>4, <1>6 DEF SuccessAnywhere, JobName
  <2>2. \A t \in Tag : row'[t].status = "SUCCESS" => t \in pushed
    BY <1>1, <1>6, NamesApart DEF SuccessAnywhere, JobName
  <2>3. QED
    BY <1>1, <1>3, <2>1, <2>2 DEF SuccessAnywhere, Pushed
<1>9. WatchedHaveJobs'
  BY <1>1, <1>3, <1>6 DEF WatchedHaveJobs, JobName
<1>10. NotReached' /\ SeenByPoll' /\ AtAnImage' /\ FailureSeen'
  BY <1>1, <1>3 DEF NotReached, SeenByPoll, AtAnImage, Untouched, FailureSeen
<1>11. FailureIsReal'
  BY <1>1, <1>4, <1>6 DEF FailureIsReal, JobName
<1>12. QED
  BY <1>7, <1>8, <1>9, <1>10, <1>11

-----------------------------------------------------------------------------
(* The client and the backends.                                            *)

\* A client that asks again, or is told something.
LEMMA ClientKeepsInv == ASSUME Inv, NEW r \in Request, Answer(r) \/ NoAnswer(r) PROVE Inv'
<1> DEFINE b == Current(r)
<1> USE DEF Inv, builds
<1>1. /\ UNCHANGED <<backend, job, lost, pushed, skipped, row, mon, watch>>
      /\ faults' \in 0 .. MaxFaults /\ (faults' = 0 => faults = 0)
      /\ client[r].pc = "poll" /\ b \in Build
      /\ client[r] \in Client /\ client[r].tries \in 0 .. MaxAttempts /\ client[r].tries < MaxAttempts
  BY ImageBuildAssumption, CurrentIsBuild
     DEF Answer, NoAnswer, Fault, NoFault, TypeOK, AtAnImage, Client
<1> DEFINE Goal ==
      /\ client' \in [Request -> Client] /\ AtAnImage'
      /\ \A q \in Request \ {r} : client'[q] = client[q]
      /\ client'[r].pc \in {"poll", "done"}
      /\ \A c \in Build : client'[r].told[c] = "SUCCESS" =>
           client[r].told[c] = "SUCCESS" \/ (c = b /\ row[b].status = "SUCCESS")
<1>2. Goal
  <2>1. ASSUME NEW s \in Final, client' = Told(r, s), s = "SUCCESS" => row[b].status = "SUCCESS"
        PROVE  Goal
    <3>1. client[r].told \in [Build -> Final \cup {None}]
      BY <1>1 DEF Client
    <3>2. QED
      BY <1>1, <2>1, <3>1, ToldClient
  <2>2. ASSUME NEW tries \in 0 .. MaxAttempts - 1,
               client' = [client EXCEPT ![r] = [client[r] EXCEPT !.tries = tries]]
        PROVE  Goal
    <3>1. [client[r] EXCEPT !.tries = tries] \in Client
      <4>1. tries \in 0 .. MaxAttempts
        BY DEF MaxAttempts
      <4>2. QED
        BY <1>1, <4>1, ClientTypes
    <3>2. /\ client'[r].pc = "poll" /\ client'[r].next = client[r].next
          /\ client'[r].told = client[r].told /\ client'[r].tries = tries
          /\ \A q \in Request \ {r} : client'[q] = client[q]
      BY <1>1, <2>2 DEF TypeOK, Client
    <3>3. QED
      BY <2>2, <3>1, <3>2 DEF TypeOK, AtAnImage, MaxAttempts
  <2>3. CASE Answer(r)
    <3>1. \/ \E s \in Final : s = row[b].status /\ client' = Told(r, s)
          \/ client' = [client EXCEPT ![r] = [client[r] EXCEPT !.tries = 0]]
      BY <2>3 DEF Answer, TypeOK
    <3>2. QED
      BY <2>1, <2>2, <3>1 DEF MaxAttempts
  <2>4. CASE NoAnswer(r)
    <3>1. \/ client' = Told(r, "FAILURE")
          \/ /\ client[r].tries # MaxAttempts - 1
             /\ client' = [client EXCEPT ![r] = [client[r] EXCEPT !.tries = client[r].tries + 1]]
      BY <2>4 DEF NoAnswer, TypeOK
    <3>2. client[r].tries # MaxAttempts - 1 => client[r].tries + 1 \in 0 .. MaxAttempts - 1
      BY <1>1 DEF MaxAttempts
    <3>3. QED
      BY <2>1, <2>2, <3>1, <3>2 DEF Final
  <2>5. QED
    BY <2>3, <2>4
<1>3. TypeOK'
  BY <1>1, <1>2 DEF TypeOK
<1>4. SuccessAnywhere'
  BY <1>1, <1>2 DEF SuccessAnywhere, Pushed
<1>5. NotReached'
  BY <1>1, <1>2, StillNotReached DEF Untouched
<1>6. WatchedHaveJobs' /\ SeenByPoll' /\ FailureSeen' /\ FailureIsReal'
  BY <1>1 DEF WatchedHaveJobs, SeenByPoll, FailureSeen, FailureIsReal
<1>7. QED
  BY <1>2, <1>3, <1>4, <1>5, <1>6

\* A build ends, and its image is in the registry if it succeeded; a Job expires.
LEMMA BackendKeepsInv == ASSUME Inv, NEW b \in Build, JobEnds(b) \/ JobExpires(b) PROVE Inv'
<1> USE DEF Inv
<1>1. /\ UNCHANGED <<backend, lost, skipped, row, mon, watch, client, faults>>
      /\ job[b] \in Job /\ SpecOf[b].tag \in Tag
      /\ job[b].state \in {"running", "succeeded", "failed"}
      /\ \E state \in {"succeeded", "failed", "gone"} :
           /\ job' = [job EXCEPT ![b] = [job[b] EXCEPT !.state = state]]
           /\ state = "succeeded" => SpecOf[b].tag \in pushed'
           /\ job[b].state \in {"failed", "gone"} => state = "gone"
      /\ pushed \subseteq pushed' /\ pushed' \subseteq pushed \cup {SpecOf[b].tag}
  BY NamesApart DEF JobEnds, JobExpires, TypeOK
<1>2. PICK state \in {"succeeded", "failed", "gone"} :
           /\ job' = [job EXCEPT ![b] = [job[b] EXCEPT !.state = state]]
           /\ state = "succeeded" => SpecOf[b].tag \in pushed'
           /\ job[b].state \in {"failed", "gone"} => state = "gone"
  BY <1>1
<1>3. /\ job'[b].at = job[b].at /\ job'[b].state = state /\ job' \in [Build -> Job]
      /\ \A c \in Build \ {b} : job'[c] = job[c]
  BY <1>1, <1>2 DEF TypeOK, Job
<1>4. TypeOK'
  BY <1>1, <1>3 DEF TypeOK
<1>5. SuccessAnywhere'
  BY <1>1, <1>2, <1>3 DEF SuccessAnywhere, Pushed
<1>6. WatchedHaveJobs'
  BY <1>1, <1>3 DEF WatchedHaveJobs
<1>7. NotReached'
  <2>1. \A c \in Build : Untouched(c) => Untouched(c)'
    BY <1>1, <1>3 DEF Untouched
  <2>2. QED
    BY <1>1, <2>1, StillNotReached
<1>8. AtAnImage' /\ SeenByPoll'
  BY <1>1 DEF AtAnImage, SeenByPoll
<1>9. FailureSeen' /\ FailureIsReal'
  BY <1>1, <1>2, <1>3 DEF FailureSeen, FailureIsReal, WatchedHaveJobs
<1>10. QED
  BY <1>4, <1>5, <1>6, <1>7, <1>8, <1>9

\* One that no answer ever named ends: the registry may have one image more.
LEMMA LostEndsKeepsInv == ASSUME Inv, NEW b \in Build, LostEnds(b) PROVE Inv'
<1> USE DEF Inv
<1>1. /\ UNCHANGED <<backend, job, skipped, row, mon, watch, client, faults>>
      /\ pushed \subseteq pushed' /\ pushed' \subseteq Tag /\ lost' \subseteq Build
  BY NamesApart DEF LostEnds, TypeOK
<1>2. TypeOK'
  BY <1>1 DEF TypeOK
<1>3. SuccessAnywhere'
  BY <1>1 DEF SuccessAnywhere, Pushed
<1>4. AtAnImage' /\ WatchedHaveJobs' /\ NotReached' /\ SeenByPoll' /\ FailureSeen' /\ FailureIsReal'
  BY <1>1 DEF AtAnImage, WatchedHaveJobs, NotReached, Untouched, SeenByPoll, FailureSeen, FailureIsReal
<1>5. QED
  BY <1>2, <1>3, <1>4

-----------------------------------------------------------------------------
(* The theorems.                                                           *)

LEMMA InitInv == Init => Inv
<1> SUFFICES ASSUME Init PROVE Inv
  OBVIOUS
<1> USE DEF Init
<1>1. TypeOK
  <2>1. /\ [at |-> None, state |-> "none"] \in Job /\ NoRow \in Row
        /\ [pc |-> "none", seen |-> "IN_PROGRESS"] \in Monitor
        /\ [pc |-> "new", next |-> 1, tries |-> 0, told |-> [b \in Build |-> None]] \in Client
        /\ Idle \in [todo : SUBSET JobName, at : JobName \cup {None}, seen : Status]
        /\ backend \in Backend /\ faults \in 0 .. MaxFaults
    BY ImageBuildAssumption
       DEF Job, NoRow, Row, Monitor, Client, Idle, Status, MaxAttempts
  <2>2. QED
    BY <2>1 DEF TypeOK
<1>2. AtAnImage
  <2>1. \A r \in Request : Len(Images[r]) \in Nat /\ Len(Images[r]) # 0
    BY ImageBuildAssumption
  <2>2. QED
    BY <2>1 DEF AtAnImage, MaxAttempts
<1>3. SuccessAnywhere /\ WatchedHaveJobs
  <2>1. /\ \A n \in JobName : row[n].status = "none" /\ row[n].context = None
        /\ watch.todo = {} /\ watch.at = None
    BY DEF NoRow, Idle
  <2>2. \A b \in Build : job[b].state = "none" /\ job[b].at = None /\ mon[b].seen = "IN_PROGRESS"
    OBVIOUS
  <2>3. \A r \in Request, b \in Build : client[r].told[b] = None
    OBVIOUS
  <2>4. None # "SUCCESS"
    BY ImageBuildAssumption DEF Final
  <2>5. QED
    BY <2>1, <2>2, <2>3, <2>4 DEF SuccessAnywhere, WatchedHaveJobs, JobName
<1>4. NotReached
  <2>1. \A b \in Build : Untouched(b)
    BY DEF Untouched
  <2>2. \A r \in Request : \A i \in 1 .. Len(Images[r]) : Images[r][i] \in Build
    BY ImageBuildAssumption
  <2>3. QED
    BY <2>1, <2>2 DEF NotReached
<1>5. SeenByPoll /\ FailureSeen /\ FailureIsReal
  BY DEF SeenByPoll, FailureSeen, FailureIsReal, NoRow, Idle, JobName
<1>6. QED
  BY <1>1, <1>2, <1>3, <1>4, <1>5 DEF Inv

LEMMA NextInv == Inv /\ [Next]_vars => Inv'
<1> SUFFICES ASSUME Inv, [Next]_vars PROVE Inv'
  OBVIOUS
<1>1. ASSUME NEW r \in Request, Ask(r) \/ Submit(r) \/ Answer(r) \/ NoAnswer(r)
      PROVE  Inv'
  BY <1>1, AskKeepsInv, SubmitKeepsInv, ClientKeepsInv
<1>2. ASSUME NEW b \in Build, MonitorStep(b) \/ TimeOut(b) \/ Breaks(b) \/ Dies(b)
      PROVE  Inv'
  BY <1>2, SaveKeepsInv, WriteKeepsInv, MonitorKeepsInv DEF MonitorStep
<1>3. CASE WatchStep \/ WatchDies
  BY <1>3, WatchListKeepsInv, WatchAskKeepsInv, WatchWriteKeepsInv, WatchDiesKeepsInv DEF WatchStep
<1>4. ASSUME NEW b \in Build, JobEnds(b) \/ LostEnds(b) \/ JobExpires(b)
      PROVE  Inv'
  BY <1>4, BackendKeepsInv, LostEndsKeepsInv
<1>5. CASE SwitchBackend \/ UNCHANGED vars
  <2>1. /\ UNCHANGED <<job, lost, pushed, skipped, row, mon, watch, client, faults>>
        /\ backend' \in Backend
    BY <1>5 DEF SwitchBackend, vars, builds, Inv, TypeOK
  <2>2. QED
    BY <2>1 DEF Inv, TypeOK, AtAnImage, SuccessAnywhere, Pushed, WatchedHaveJobs, NotReached, Untouched,
                SeenByPoll, FailureSeen, FailureIsReal
<1>6. QED
  BY <1>1, <1>2, <1>3, <1>4, <1>5 DEF Next

LEMMA InvHolds == Spec => []Inv
  BY InitInv, NextInv, PTL DEF Spec

\* Every variable has its type.
THEOREM TypesHold == Spec => []TypeOK
  BY InvHolds, PTL DEF Inv

\* No row and no client has a SUCCESS of an image that is not in the registry,
\* whatever fails, expires, is skipped or is switched on the way.
THEOREM SuccessIsPushedHolds == Spec => []SuccessIsPushed
<1>1. Inv => SuccessIsPushed
  BY NamesApart DEF Inv, SuccessAnywhere, SuccessIsPushed, Pushed
<1>2. QED
  BY <1>1, InvHolds, PTL

\* As long as nothing fails, a row with a FAILURE is of a build that failed or
\* expired where it was submitted, or of a monitor that was late.
THEOREM FailureIsRealHolds == Spec => []FailureIsReal
<1>1. Inv => FailureIsReal
  BY DEF Inv
<1>2. QED
  BY <1>1, InvHolds, PTL

=============================================================================
