----------------------------- MODULE Migrations -----------------------------
(***************************************************************************)
(* The schema of the database: replicas that migrate it forward as they    *)
(* start (init_db, MigrationManager), and the operator's script that rolls *)
(* a release back together with its schema (scripts/rollback.py, db_cli).  *)
(*                                                                         *)
(* A migration is one transaction (env.py): it reads the revision when it  *)
(* begins, and its last statement moves exactly that revision, so that it  *)
(* has no effect when another one was faster.  The thread it runs in goes  *)
(* on when its timeout passes; the lock is released all the same.          *)
(***************************************************************************)
EXTENDS Integers, FiniteSets

CONSTANTS
  Replica, None,
  OldHead, NewHead,  \* the schema revisions of the two releases, 0 is the base
  Irreversible,      \* the revisions without a down migration
  MaxFaults          \* bound: timeouts, failed calls, processes that die

MigrationsAssumption ==
  /\ OldHead \in Nat \ {0} /\ NewHead \in Nat /\ OldHead <= NewHead
  /\ Irreversible \subseteq 1 .. NewHead
  /\ MaxFaults \in Nat /\ None \notin Replica /\ "job" \notin Replica

VARIABLES
  rev,      \* alembic_version
  rule,     \* whether the default resource limit rule is there
  lock,     \* who holds the advisory lock
  release,  \* the release that Helm has installed
  want,     \* whether its Deployments are scaled up
  pod,      \* the pod of each replica
  job,      \* the migration Job
  op,       \* where the rollback script is
  overlap,  \* a writer was there when the Job started
  faults

vars == <<rev, rule, lock, release, want, pod, job, op, overlap, faults>>

HeadOf(r) == IF r = "old" THEN OldHead ELSE NewHead
Release == {"old", "new"}
Revision == 0 .. NewHead

PodPc == {"none", "lock", "migrate", "late", "wait", "seed", "insert", "serving"}
NoPod == [image |-> "old", pc |-> "none", seen |-> 0, dying |-> FALSE]
ReplicaState == [image : Release, pc : PodPc, seen : Revision, dying : BOOLEAN]

JobPc == {"none", "lock", "migrate", "late", "succeeded", "failed"}
Running == {"lock", "migrate", "late"}
JobRecord == [pc : JobPc, seen : Revision, reverted : BOOLEAN]
OpPc == {"idle", "preflight", "confirm", "scale", "drain", "create", "await", "helm",
         "rollout", "verify", "done", "failed"}

Fault == faults < MaxFaults /\ faults' = faults + 1
NoFault == UNCHANGED faults

-----------------------------------------------------------------------------
(* A replica.                                                              *)

At(p, here) == pod[p].pc = here
Set(p, pc, seen) == pod' = [pod EXCEPT ![p].pc = pc, ![p].seen = seen]
Go(p, there) == Set(p, there, pod[p].seen)
\* The container exits; unless the pod is to go it is started again.
Exits(p) == pod' = [pod EXCEPT ![p] = IF @.dying THEN NoPod ELSE [@ EXCEPT !.pc = "lock"]]
Head(p) == HeadOf(pod[p].image)
\* Mutant: the connection goes back to its pool with the lock.
ReleasedToPool(who) == lock
\* By hand, or because the connection is gone.
Released(who) == IF lock = who THEN None ELSE lock

Start(p) ==
  /\ At(p, "none") /\ want
  /\ pod' = [pod EXCEPT ![p] = [NoPod EXCEPT !.image = release, !.pc = "lock"]]
  /\ UNCHANGED <<rev, rule, lock, release, want, job, op, overlap, faults>>

TryLock(p) ==
  /\ At(p, "lock")
  /\ IF lock = None THEN lock' = p /\ Set(p, "migrate", rev)
     ELSE UNCHANGED lock /\ Go(p, "wait")
  /\ UNCHANGED <<rev, rule, release, want, job, op, overlap, faults>>

\* Alembic knows the revisions of its image, and none after them.
Applies(seen, target) == seen = rev /\ seen <= target

Migrated(p) ==
  /\ pod[p].pc \in {"migrate", "late"}
  /\ IF Applies(pod[p].seen, Head(p))
     THEN /\ rev' = Head(p)
          /\ IF At(p, "late") THEN Exits(p) ELSE Go(p, "seed")
     ELSE UNCHANGED rev /\ Exits(p)
  /\ lock' = Released(p)
  /\ UNCHANGED <<rule, release, want, job, op, overlap, faults>>

Catches(p) == rev = Head(p)
Waited(p) ==
  /\ At(p, "wait") /\ Catches(p)
  /\ Go(p, "seed")
  /\ UNCHANGED <<rev, rule, lock, release, want, job, op, overlap, faults>>

\* Five minutes are over.  The migration of somebody else has a limit of its
\* own, so that waiting ends on its own, too.
TimesOut(p) ==
  /\ \/ /\ At(p, "migrate") /\ Go(p, "late") /\ lock' = None /\ Fault
     \/ /\ At(p, "wait") /\ ~Catches(p) /\ Exits(p) /\ UNCHANGED lock
        /\ \/ lock = None /\ NoFault
           \/ lock # None /\ Fault
  /\ UNCHANGED <<rev, rule, release, want, job, op, overlap>>

\* Two replicas may both see that the rule is missing; its pattern is unique.
Seed(p) ==
  /\ \/ At(p, "seed") /\ Go(p, IF rule THEN "serving" ELSE "insert") /\ UNCHANGED rule
     \/ At(p, "insert") /\ ~rule /\ Go(p, "serving") /\ rule' = TRUE
     \/ At(p, "insert") /\ rule /\ Exits(p) /\ UNCHANGED rule
  /\ UNCHANGED <<rev, lock, release, want, job, op, overlap, faults>>

\* A process that dies takes its connections along.
Dies(p) ==
  /\ ~At(p, "none") /\ Fault
  /\ Exits(p) /\ lock' = Released(p)
  /\ UNCHANGED <<rev, rule, release, want, job, op, overlap>>

\* Kubernetes: a pod that is not wanted is told to go, and is gone some time later.
Told(p) == pod[p].pc # "none" /\ (~want \/ pod[p].image # release)
Terminate(p) ==
  /\ Told(p) /\ ~pod[p].dying
  /\ pod' = [pod EXCEPT ![p].dying = TRUE]
  /\ UNCHANGED <<rev, rule, lock, release, want, job, op, overlap, faults>>
Gone(p) ==
  /\ pod[p].dying
  /\ pod' = [pod EXCEPT ![p] = NoPod] /\ lock' = Released(p)
  /\ UNCHANGED <<rev, rule, release, want, job, op, overlap, faults>>

-----------------------------------------------------------------------------
(* The migration Job, with the image of the release that is installed.     *)

\* plan_migration: the chain of the image holds both ends, and what is to be
\* reverted can be.
Reachable(from, target) ==
  /\ from <= HeadOf(release) /\ target <= HeadOf(release)
  /\ \A r \in Irreversible : ~(target < r /\ r <= from)

Target == OldHead

JobLocks ==
  /\ job.pc = "lock"
  /\ IF lock # None \/ ~Reachable(rev, Target)
     THEN job' = [job EXCEPT !.pc = "failed"] /\ UNCHANGED lock
     ELSE job' = [job EXCEPT !.pc = "migrate", !.seen = rev] /\ lock' = "job"
  /\ UNCHANGED <<rev, rule, release, want, pod, op, overlap, faults>>

\* The exit code of a late migration is an error, also when it commits.
JobMigrates ==
  /\ job.pc \in {"migrate", "late"}
  /\ LET done == job.seen = rev
     IN  /\ rev' = IF done THEN Target ELSE rev
         /\ job' = [job EXCEPT !.pc = IF done /\ @ = "migrate" THEN "succeeded" ELSE "failed",
                               !.reverted = @ \/ done]
  /\ lock' = Released("job")
  /\ UNCHANGED <<rule, release, want, pod, op, overlap, faults>>

JobBreaks ==
  /\ Fault
  /\ \/ job.pc = "migrate" /\ job' = [job EXCEPT !.pc = "late"]    \* its own timeout
     \/ job.pc \in Running /\ job' = [job EXCEPT !.pc = "failed"]  \* killed
  /\ lock' = Released("job")
  /\ UNCHANGED <<rev, rule, release, want, pod, op, overlap>>

-----------------------------------------------------------------------------
(* The rollback script.                                                    *)

OpAt(here) == op = here
OpGo(there) == op' = there

HelmUpgrade ==
  /\ release = "old" /\ OpAt("idle") /\ release' = "new"
  /\ UNCHANGED <<rev, rule, lock, want, pod, job, op, overlap, faults>>

Begin ==
  /\ OpAt("idle") /\ release = "new"
  /\ OpGo(IF OldHead # NewHead THEN "preflight" ELSE "helm")
  /\ UNCHANGED <<rev, rule, lock, release, want, pod, job, overlap, faults>>

\* A Job of its own, with --dry-run; then the operator is asked.
Preflight ==
  /\ \/ OpAt("preflight") /\ OpGo(IF Reachable(rev, Target) THEN "confirm" ELSE "failed") /\ NoFault
     \/ OpAt("preflight") /\ OpGo("failed") /\ Fault
     \/ OpAt("confirm") /\ OpGo("scale") /\ NoFault
     \/ OpAt("confirm") /\ OpGo("failed") /\ NoFault
  /\ UNCHANGED <<rev, rule, lock, release, want, pod, job, overlap>>

ScaleDown ==
  /\ OpAt("scale")
  /\ \/ OpGo("drain") /\ want' = FALSE /\ NoFault
     \/ OpGo("failed") /\ want' \in {want, FALSE} /\ Fault
  /\ UNCHANGED <<rev, rule, lock, release, pod, job, overlap>>

\* The replicas that the status of a Deployment counts are not terminating.
Counted == {p \in Replica : pod[p].pc # "none" /\ ~pod[p].dying}
Drain ==
  /\ OpAt("drain")
  /\ \/ Counted = {} /\ OpGo("create") /\ NoFault
     \/ OpGo("failed") /\ Fault
  /\ UNCHANGED <<rev, rule, lock, release, want, pod, job, overlap>>

CreateJob ==
  /\ OpAt("create")
  /\ \/ /\ job.pc = "none" /\ OpGo("await") /\ NoFault
        /\ job' = [job EXCEPT !.pc = "lock", !.reverted = FALSE]
        /\ overlap' = (overlap \/ \E p \in Replica : pod[p].pc # "none")
     \/ /\ job.pc # "none" /\ OpGo("failed") /\ NoFault /\ UNCHANGED <<job, overlap>>
     \/ /\ OpGo("failed") /\ Fault /\ UNCHANGED <<job, overlap>>
  /\ UNCHANGED <<rev, rule, lock, release, want, pod>>

NoJob == [job EXCEPT !.pc = "none"]

\* Mutant: a Job that has not failed is good enough.
AwaitedOptimist ==
  \/ job.pc # "failed" /\ OpGo("helm") /\ job' = NoJob /\ NoFault
  \/ job.pc = "failed" /\ OpGo("failed") /\ UNCHANGED job /\ NoFault
Awaited ==
  \/ job.pc = "succeeded" /\ OpGo("helm") /\ job' = NoJob /\ NoFault
  \/ job.pc = "failed" /\ OpGo("failed") /\ UNCHANGED job /\ NoFault
  \/ OpGo("failed") /\ UNCHANGED job /\ Fault
AwaitJob ==
  /\ OpAt("await") /\ Awaited
  /\ UNCHANGED <<rev, rule, lock, release, want, pod, overlap>>

HelmRollback ==
  /\ OpAt("helm")
  /\ \/ release' = "old" /\ want' = TRUE /\ OpGo("rollout") /\ NoFault
     \/ UNCHANGED <<release, want>> /\ OpGo("failed") /\ Fault
  /\ UNCHANGED <<rev, rule, lock, pod, job, overlap>>

\* helm --wait, then the recorded revision and the replicas once more.
Settled == \A p \in Replica : At(p, "serving") /\ pod[p].image = release /\ ~pod[p].dying
Verify ==
  /\ \/ OpAt("rollout") /\ Settled /\ OpGo("verify") /\ NoFault
     \/ OpAt("verify") /\ rev = Target /\ Settled /\ OpGo("done") /\ NoFault
     \/ OpAt("verify") /\ ~(rev = Target /\ Settled) /\ OpGo("failed") /\ NoFault
     \/ op \in {"rollout", "verify"} /\ OpGo("failed") /\ Fault
  /\ UNCHANGED <<rev, rule, lock, release, want, pod, job, overlap>>

\* What the message of a failure tells the operator: look at the Job, delete
\* it, and bring the release that is installed back up, or try again.
Recover ==
  /\ OpAt("failed") /\ job.pc \notin Running
  /\ job' = NoJob
  /\ \/ want' = TRUE /\ OpGo("done")
     \/ release = "new" /\ UNCHANGED want /\ OpGo("idle")
  /\ UNCHANGED <<rev, rule, lock, release, pod, overlap, faults>>

-----------------------------------------------------------------------------
Init ==
  /\ rev = 0 /\ rule = FALSE /\ lock = None
  /\ release = "old" /\ want = TRUE
  /\ pod = [p \in Replica |-> NoPod]
  /\ job = [pc |-> "none", seen |-> 0, reverted |-> FALSE]
  /\ op = "idle" /\ overlap = FALSE /\ faults = 0

Startup(p) == Start(p) \/ TryLock(p) \/ Migrated(p) \/ Waited(p) \/ TimesOut(p) \/ Seed(p)
Script ==
  \/ Preflight \/ ScaleDown \/ Drain \/ CreateJob \/ AwaitJob \/ HelmRollback \/ Verify

Next ==
  \/ \E p \in Replica : Startup(p) \/ Dies(p) \/ Terminate(p) \/ Gone(p)
  \/ JobLocks \/ JobMigrates \/ JobBreaks
  \/ HelmUpgrade \/ Begin \/ Script \/ Recover

\* Kubernetes starts and stops pods, and what runs goes on; operators may not.
Fairness ==
  /\ \A p \in Replica : WF_vars(Startup(p)) /\ WF_vars(Terminate(p)) /\ WF_vars(Gone(p))
  /\ WF_vars(JobLocks \/ JobMigrates)

Spec == Init /\ [][Next]_vars
FairSpec == Spec /\ Fairness

-----------------------------------------------------------------------------
TypeOK ==
  /\ rev \in Revision /\ rule \in BOOLEAN /\ lock \in Replica \cup {None, "job"}
  /\ release \in Release /\ want \in BOOLEAN
  /\ pod \in [Replica -> ReplicaState] /\ job \in JobRecord /\ op \in OpPc
  /\ overlap \in BOOLEAN /\ faults \in 0 .. MaxFaults

(* Helm is never reached after a failed downgrade: while the older release *)
(* is being brought back, its schema has been restored by a Job of this    *)
(* rollback, however often it was tried before (_rollback).                *)
HelmAfterDowngrade ==
  op \in {"rollout", "verify"} /\ OldHead # NewHead => job.reverted

(* Whatever fails, all replicas of the release that is installed and       *)
(* scaled up come to serve: no start-up is kept from the lock, or waits,   *)
(* or fails for ever.  Not so if a writer was still there when a downgrade *)
(* began (init_db, wait_for_no_pods).                                      *)
ReplicasServe == <>[](want => Settled) \/ <>overlap

-----------------------------------------------------------------------------
(* What the source says of this code, and the code does not do.            *)

(* "ensure only one orchestrator replica runs migrations when multiple     *)
(* start simultaneously" (MigrationManager).                               *)
OneMigrator ==
  Cardinality({p \in Replica : pod[p].pc \in {"migrate", "late"}})
    + (IF job.pc \in {"migrate", "late"} THEN 1 ELSE 0) <= 1

(* "the downgrade must not start while a writer is still finishing a       *)
(* request" (wait_for_no_pods).                                            *)
WritersStoppedFirst == ~overlap
===============================================================================
