------------------------------ MODULE ImageBuild ------------------------------
(***************************************************************************)
(* Image builds: a request with several images, the backends that build    *)
(* them (Kaniko Jobs, Cloud Build), the task that monitors each build, the *)
(* job_statuses rows, the watcher that reconciles them, and the client     *)
(* that polls (image_build_service.py, image_builder/, cleanup.py,         *)
(* operations/jobs.py).                                                    *)
(*                                                                         *)
(* Every database helper has a session and a commit of its own.  A row is  *)
(* named by its job: a Kaniko Job and a Cloud Build have fresh names, a    *)
(* build that is skipped because its image exists is named for its tag.    *)
(***************************************************************************)
EXTENDS Integers, Sequences, FiniteSets

CONSTANTS
  Build, Tag, Request, None,
  Images,       \* the builds of each request, in the order of its YAML
  SpecOf,       \* the build definition of each
  FirstBackend, \* the backend the deployment starts with
  Switches,     \* whether an operator may switch it
  SkipExisting, \* skip_existing of the Cloud Build backend
  MaxFaults     \* bound: calls that fail, and replicas that die

Backend == {"kaniko", "cloudbuild_gke"}
Status == {"IN_PROGRESS", "SUCCESS", "FAILURE"}
Final == {"SUCCESS", "FAILURE"}
MaxAttempts == 3        \* max_retries of _get_job_status_with_retry

\* What a backend looks at: BuildKit-only syntax, the scheme of the caller's
\* context, files that plugins add to it, a machine type, and the tag.
BuildSpec == [buildkit : BOOLEAN, scheme : {None, "gs", "s3"}, files : BOOLEAN,
              machine : {None, "listed", "unlisted"}, tag : Tag]

\* A build is one image of one request: its name is made up for it.
ASSUME ImageBuildAssumption ==
  /\ SpecOf \in [Build -> BuildSpec]
  /\ Images \in [Request -> Seq(Build)]
  /\ \A r \in Request : Images[r] # <<>>
  /\ \A r, q \in Request : \A i \in DOMAIN Images[r], j \in DOMAIN Images[q] :
        Images[r][i] = Images[q][j] => r = q /\ i = j
  /\ FirstBackend \in Backend /\ Switches \in BOOLEAN /\ SkipExisting \in BOOLEAN
  /\ MaxFaults \in Nat
  /\ Build \cap Tag = {} /\ None \notin Build \cup Tag \cup Request \cup Backend \cup Final

VARIABLES
  backend,   \* the backend configured now
  job,       \* what a backend has of each build, and which backend it is
  lost,      \* builds of which one more runs, that no answer ever named
  pushed,    \* the tags that are in the registry
  row,       \* job_statuses, by job name
  skipped,   \* the builds that were skipped
  mon,       \* the monitor of each build, and the status it is to write
  watch,     \* the watcher's pass over the rows
  client,    \* the client of each request
  faults

builds == <<job, lost, pushed, skipped>>
vars == <<backend, builds, row, mon, watch, client, faults>>

JobName == Build \cup Tag
NameOf(b) == IF b \in skipped THEN SpecOf[b].tag ELSE b

NoRow == [status |-> "none", context |-> None]
Row == [status : Status \cup {"none"}, context : Backend \cup {None}]
Job == [at : Backend \cup {None},
        state : {"none", "running", "succeeded", "failed", "gone"}]
Monitor == [pc : {"none", "save", "poll", "write", "late", "done"}, seen : Status]
Client == [pc : {"new", "submit", "poll", "done", "failed"},
           next : Nat, tries : 0 .. MaxAttempts,
           told : [Build -> Final \cup {None}]]
Idle == [todo |-> {}, at |-> None, seen |-> "IN_PROGRESS"]

Fault == faults < MaxFaults /\ faults' = faults + 1
NoFault == UNCHANGED faults

-----------------------------------------------------------------------------
(* Submission.                                                             *)

KanikoAccepts(s) == ~s.buildkit /\ (s.scheme = None \/ ~s.files)
FetchesContext(s) == s.scheme \in {None, "gs"}
MachinePermitted(s) == s.machine # "unlisted"
CloudBuildAccepts(s) == FetchesContext(s) /\ MachinePermitted(s)
Accepts(b) ==
  IF backend = "kaniko" THEN KanikoAccepts(SpecOf[b]) ELSE CloudBuildAccepts(SpecOf[b])

Exists(b) == backend = "cloudbuild_gke" /\ SkipExisting /\ SpecOf[b].tag \in pushed

Ask(r) ==
  /\ client[r].pc = "new"
  /\ client' = [client EXCEPT ![r].pc = "submit"]
  /\ UNCHANGED <<backend, builds, row, mon, watch, faults>>

Current(r) == Images[r][client[r].next]

\* The next image of the request, or, after the last, the answer.
Advanced(r) ==
  IF client[r].next = Len(Images[r])
  THEN [client EXCEPT ![r].pc = "poll", ![r].next = 1]
  ELSE [client EXCEPT ![r].next = @ + 1]
Refused(r) == [client EXCEPT ![r].pc = "failed"]

Monitored(b) == [mon EXCEPT ![b].pc = "save"]

Reject(r) ==
  /\ ~Accepts(Current(r)) /\ NoFault
  /\ client' = Refused(r)
  /\ UNCHANGED <<builds, mon>>

\* A create_build whose answer is lost is tried again: the first build runs, too.
Resubmitted(b) == backend = "cloudbuild_gke" /\ Fault /\ lost' = lost \cup {b}

\* A flaky look-up counts as absent.
Begun(r, b) ==
  /\ Accepts(b)
  /\ \/ ~Exists(b) /\ NoFault /\ UNCHANGED lost
     \/ Exists(b) /\ Fault /\ UNCHANGED lost
     \/ ~Exists(b) /\ Resubmitted(b)
  /\ job' = [job EXCEPT ![b] = [at |-> backend, state |-> "running"]]
  /\ mon' = Monitored(b) /\ client' = Advanced(r)
  /\ UNCHANGED <<pushed, skipped>>

Skip(r, b) ==
  /\ Accepts(b) /\ Exists(b) /\ NoFault
  /\ skipped' = skipped \cup {b}
  /\ mon' = Monitored(b) /\ client' = Advanced(r)
  /\ UNCHANGED <<job, lost, pushed>>

\* The submission fails, or the replica dies in it.  What was created may run all
\* the same: a Cloud Build whose answers were lost, or a Job with its ConfigMap, of
\* which only the budget could not be created; a Job without one starts nothing.
SubmissionFails(r, b) ==
  /\ Accepts(b) /\ Fault
  /\ lost' \in {lost, lost \cup {b}}
  /\ client' = Refused(r)
  /\ UNCHANGED <<job, pushed, skipped, mon>>

Submit(r) ==
  /\ client[r].pc = "submit"
  /\ LET b == Current(r)
     IN  Reject(r) \/ Begun(r, b) \/ Skip(r, b) \/ SubmissionFails(r, b)
  /\ UNCHANGED <<backend, row, watch>>

-----------------------------------------------------------------------------
(* What a backend answers when it is asked for a build.                    *)

\* Mutant: a Job that is no longer there is taken for done.
StatusGoneDone(b) ==
  CASE job[b].state = "running" -> "IN_PROGRESS"
    [] job[b].state = "failed" -> "FAILURE"
    [] OTHER -> "SUCCESS"
StatusOf(b) ==
  CASE job[b].state = "running" -> "IN_PROGRESS"
    [] job[b].state = "succeeded" -> "SUCCESS"
    [] OTHER -> "FAILURE"

-----------------------------------------------------------------------------
(* The monitor.                                                            *)

\* Mutant: the context is not kept.
ContextLost(b) == None
ContextOf(b) == IF b \in skipped THEN None ELSE job[b].at

\* The row is there already when its image was skipped before.
Save(b) ==
  /\ mon[b].pc = "save"
  /\ LET n == NameOf(b)
     IN  row' = [row EXCEPT ![n] =
           [status |-> "IN_PROGRESS",
            context |-> IF @.status # "none" /\ ContextOf(b) = None THEN @.context
                        ELSE ContextOf(b)]]
  /\ mon' = [mon EXCEPT ![b].pc = "poll"]
  /\ UNCHANGED <<backend, builds, watch, client, faults>>

\* An error of the backend counts as FAILURE.
Poll(b) ==
  /\ mon[b].pc = "poll"
  /\ \E s \in Final :
       /\ \/ s = (IF b \in skipped THEN "SUCCESS" ELSE StatusOf(b)) /\ NoFault
          \/ b \notin skipped /\ s = "FAILURE" /\ Fault
       /\ mon' = [mon EXCEPT ![b] = [pc |-> "write", seen |-> s]]
  /\ UNCHANGED <<backend, builds, row, watch, client>>

\* The deadline passes: for Cloud Build that is five minutes after that of the
\* build; a Kaniko Job has none.
OutlastsBuild(b) == job[b].at = "cloudbuild_gke" => job[b].state # "running"
TimeOut(b) ==
  /\ mon[b].pc \in {"poll", "write"} /\ b \notin skipped /\ OutlastsBuild(b)
  /\ mon' = [mon EXCEPT ![b] = [pc |-> "late", seen |-> "FAILURE"]]
  /\ UNCHANGED <<backend, builds, row, watch, client, faults>>

\* update_job_status: there may be no row.
Written(n, s) == IF row[n].status = "none" THEN row ELSE [row EXCEPT ![n].status = s]

Write(b) ==
  /\ mon[b].pc \in {"write", "late"}
  /\ row' = Written(NameOf(b), mon[b].seen)
  /\ mon' = [mon EXCEPT ![b].pc = "done"]
  /\ UNCHANGED <<backend, builds, watch, client, faults>>

\* A statement fails, and the handler records that; or so does the handler.
Breaks(b) ==
  /\ mon[b].pc \in {"save", "write"} /\ Fault
  /\ mon' = [mon EXCEPT ![b] = [pc |-> "late", seen |-> "FAILURE"]]
  /\ UNCHANGED <<backend, builds, row, watch, client>>

Dies(b) ==
  /\ mon[b].pc \notin {"none", "done"} /\ Fault
  /\ mon' = [mon EXCEPT ![b].pc = "done"]
  /\ UNCHANGED <<backend, builds, row, watch, client>>

-----------------------------------------------------------------------------
(* The watcher (check_orphaned_builds).                                    *)

WatchList ==
  /\ watch = Idle
  /\ LET orphans == {n \in JobName : row[n].status = "IN_PROGRESS" /\ row[n].context # None}
     IN  /\ orphans # {}
         /\ watch' = [watch EXCEPT !.todo = orphans]
  /\ UNCHANGED <<backend, builds, row, mon, client, faults>>

\* Mutant: the backend that is configured now is asked.
AskedConfigured(n) == IF backend = row[n].context THEN StatusOf(n) ELSE "FAILURE"
Asked(n) == StatusOf(n)

\* Kaniko reports an error as FAILURE; that of Cloud Build leaves the row alone.
WatchAsk ==
  /\ watch.at = None
  /\ \E n \in watch.todo :
       \/ /\ Asked(n) = "IN_PROGRESS" /\ NoFault
          /\ watch' = [watch EXCEPT !.todo = @ \ {n}]
       \/ /\ Asked(n) # "IN_PROGRESS" /\ NoFault
          /\ watch' = [todo |-> watch.todo \ {n}, at |-> n, seen |-> Asked(n)]
       \/ /\ Fault
          /\ watch' = IF row[n].context = "kaniko"
                      THEN [todo |-> watch.todo \ {n}, at |-> n, seen |-> "FAILURE"]
                      ELSE [watch EXCEPT !.todo = @ \ {n}]
  /\ UNCHANGED <<backend, builds, row, mon, client>>

WatchWrite ==
  /\ watch.at # None
  /\ row' = Written(watch.at, watch.seen)
  /\ watch' = [watch EXCEPT !.at = None, !.seen = "IN_PROGRESS"]
  /\ UNCHANGED <<backend, builds, mon, client, faults>>

WatchDies ==
  /\ watch # Idle /\ Fault
  /\ watch' = Idle
  /\ UNCHANGED <<backend, builds, row, mon, client>>

-----------------------------------------------------------------------------
(* The client: wait_for_job for each build in turn; one whose time is up    *)
(* takes no step any more.                                                 *)

\* The name of a skipped build holds slashes, which no segment of a path does.
Served(b) == b \notin skipped /\ row[b].status # "none"

Told(r, s) ==
  LET c == [client EXCEPT ![r].told[Current(r)] = s, ![r].tries = 0]
  IN  IF client[r].next = Len(Images[r]) THEN [c EXCEPT ![r].pc = "done"]
      ELSE [c EXCEPT ![r].next = @ + 1]

Answer(r) ==
  /\ client[r].pc = "poll" /\ Served(Current(r))
  /\ \/ /\ row[Current(r)].status \in Final
        /\ client' = Told(r, row[Current(r)].status)
     \/ /\ row[Current(r)].status = "IN_PROGRESS" /\ client[r].tries > 0
        /\ client' = [client EXCEPT ![r].tries = 0]
  /\ UNCHANGED <<backend, builds, row, mon, watch, faults>>

NoAnswer(r) ==
  /\ client[r].pc = "poll"
  /\ \/ ~Served(Current(r)) /\ NoFault
     \/ Fault
  /\ client' = IF client[r].tries = MaxAttempts - 1 THEN Told(r, "FAILURE")
               ELSE [client EXCEPT ![r].tries = @ + 1]
  /\ UNCHANGED <<backend, builds, row, mon, watch>>

-----------------------------------------------------------------------------
(* The backends, and the operator.                                         *)

JobEnds(b) ==
  /\ job[b].state = "running"
  /\ \/ /\ job' = [job EXCEPT ![b].state = "succeeded"]
        /\ pushed' = pushed \cup {SpecOf[b].tag}
     \/ /\ job' = [job EXCEPT ![b].state = "failed"]
        /\ UNCHANGED pushed
  /\ UNCHANGED <<backend, lost, skipped, row, mon, watch, client, faults>>

LostEnds(b) ==
  /\ b \in lost
  /\ lost' = lost \ {b}
  /\ pushed' \in {pushed, pushed \cup {SpecOf[b].tag}}
  /\ UNCHANGED <<backend, job, skipped, row, mon, watch, client, faults>>

\* ttl_seconds_after_finished of a Kaniko Job.
JobExpires(b) ==
  /\ job[b].at = "kaniko" /\ job[b].state \in {"succeeded", "failed"}
  /\ job' = [job EXCEPT ![b].state = "gone"]
  /\ UNCHANGED <<backend, lost, pushed, skipped, row, mon, watch, client, faults>>

SwitchBackend ==
  /\ Switches /\ backend = FirstBackend
  /\ \E where \in Backend \ {backend} : backend' = where
  /\ UNCHANGED <<builds, row, mon, watch, client, faults>>

Init ==
  /\ backend = FirstBackend
  /\ job = [b \in Build |-> [at |-> None, state |-> "none"]]
  /\ lost = {}
  /\ pushed = {}
  /\ skipped = {}
  /\ row = [n \in JobName |-> NoRow]
  /\ mon = [b \in Build |-> [pc |-> "none", seen |-> "IN_PROGRESS"]]
  /\ watch = Idle
  /\ client = [r \in Request |-> [pc |-> "new", next |-> 1, tries |-> 0,
                                  told |-> [b \in Build |-> None]]]
  /\ faults = 0

MonitorStep(b) == Save(b) \/ Poll(b) \/ Write(b)
WatchStep == WatchList \/ WatchAsk \/ WatchWrite

Next ==
  \/ \E r \in Request : Ask(r) \/ Submit(r) \/ Answer(r) \/ NoAnswer(r)
  \/ \E b \in Build : MonitorStep(b) \/ TimeOut(b) \/ Breaks(b) \/ Dies(b)
  \/ WatchStep \/ WatchDies
  \/ \E b \in Build : JobEnds(b) \/ LostEnds(b) \/ JobExpires(b)
  \/ SwitchBackend

\* Tasks that live run or run out of time, the watcher loops for ever, and Cloud Build
\* ends a build at its timeout.  Nothing ends a Kaniko Job: it has no deadline.
CloudBuildEnds(b) == job[b].at = "cloudbuild_gke" /\ JobEnds(b)

Fairness ==
  /\ \A b \in Build :
       /\ WF_vars(NoFault /\ MonitorStep(b)) /\ WF_vars(TimeOut(b))
       /\ WF_vars(CloudBuildEnds(b))
  /\ WF_vars(NoFault /\ WatchStep)

Spec == Init /\ [][Next]_vars
FairSpec == Spec /\ Fairness

-----------------------------------------------------------------------------
TypeOK ==
  /\ backend \in Backend
  /\ job \in [Build -> Job]
  /\ lost \subseteq Build /\ pushed \subseteq Tag /\ skipped \subseteq Build
  /\ row \in [JobName -> Row]
  /\ mon \in [Build -> Monitor]
  /\ watch \in [todo : SUBSET JobName, at : JobName \cup {None}, seen : Status]
  /\ client \in [Request -> Client]
  /\ faults \in 0 .. MaxFaults

(* No row and no client has a SUCCESS for an image that is not in the      *)
(* registry, whatever fails, expires or is switched on the way             *)
(* (map_build_status, get_job_status, monitor_image_building_job).         *)
SuccessIsPushed ==
  /\ \A b \in Build : mon[b].pc # "none" /\ row[NameOf(b)].status = "SUCCESS"
                        => SpecOf[b].tag \in pushed
  /\ \A r \in Request, b \in Build : client[r].told[b] = "SUCCESS" => SpecOf[b].tag \in pushed

(* As long as no call fails, no Job expires and no monitor runs late, a    *)
(* build that is known to have failed has failed where it was submitted:   *)
(* monitor and watcher do not contradict the backend or each other, even   *)
(* after a switch (get_build_status: "the only trustworthy address").      *)
FailureIsReal ==
  faults = 0 =>
    \A b \in Build : row[b].status = "FAILURE" =>
      job[b].state \in {"failed", "gone"} \/ mon[b].seen = "FAILURE"

(* A row whose monitor died is brought up to date once its build has ended *)
(* (check_orphaned_builds: "the orchestrator restarted before it could     *)
(* record the final status").  Only a Kaniko Job that hangs for ever, with *)
(* nobody left to time it out, keeps its row in progress for ever.         *)
Hangs(b) == mon[b].pc = "done" /\ job[b].at = "kaniko" /\ job[b].state = "running"
RowsSettle ==
  \A b \in Build :
    mon[b].pc = "poll" /\ b \notin skipped ~> row[b].status \in Final \/ []Hangs(b)

-----------------------------------------------------------------------------
(* What the source says of this code, and the code does not do.            *)

(* The name of a build is what the orchestrator "returns to clients to     *)
(* query status later" (BuildHandle): when no call fails and the row says  *)
(* SUCCESS, the client does not end up with FAILURE.                       *)
ClientsCanQuery ==
  \A r \in Request : \A b \in skipped :
    client[r].pc \in {"poll", "done"} /\ faults = 0 /\ row[NameOf(b)].status = "SUCCESS"
      => client[r].told[b] # "FAILURE"

(* "so the orchestrator never declares failure on a build still in flight" *)
(* (_monitor_timeout_for).                                                 *)
NoFailureInFlight ==
  \A b \in Build : job[b].at = "cloudbuild_gke" /\ job[b].state = "running"
                     => row[b].status # "FAILURE"

(* "A record with no build context predates the column"                    *)
(* (check_orphaned_builds).                                                *)
RecordsHaveContext == \A n \in JobName : row[n].status # "none" => row[n].context # None
===============================================================================
