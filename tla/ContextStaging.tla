-------------------------- MODULE ContextStaging --------------------------
(***************************************************************************)
(* The assets of the plugins in the build context of a local build         *)
(* (DockerService.build and _stage_context_files in docker_service.py).    *)
(*                                                                         *)
(* A build writes the assets that are missing straight into the caller's   *)
(* directory and removes them when it ends.  Several builds may use one    *)
(* directory: two threads of a process, or two processes on a checkout.    *)
(***************************************************************************)
EXTENDS Integers, FiniteSets

CONSTANTS
  Builder,      \* the builds that run on one context
  File,         \* the assets their plugins copy, in one directory
  Given,        \* those of them the caller's context has
  MaxFaults     \* how often a write may fail or a process die (bound)

VARIABLES
  pc,           \* "staging", "writing", "ready", "cleanup", "done" or "dead"
  todo,         \* the assets a build has not looked at
  file,         \* the asset it is about to write
  created,      \* the assets it wrote
  made,         \* whether it made the directory
  found,        \* whether Docker found every asset it was to copy
  content,      \* the assets in the context, and whose they are
  dir,          \* whether their directory is there
  faults

vars == <<pc, todo, file, created, made, found, content, dir, faults>>

ContextStagingAssumption == Given \subseteq File /\ MaxFaults \in Nat

Exists(f) == content[f] # "absent"
Keeps(d) == [f \in File |-> IF f \in d THEN "absent" ELSE content[f]]

Init ==
  /\ pc = [b \in Builder |-> "staging"] /\ todo = [b \in Builder |-> File]
  /\ file = [b \in Builder |-> "none"] /\ created = [b \in Builder |-> {}]
  /\ made = [b \in Builder |-> FALSE] /\ found = [b \in Builder |-> FALSE]
  /\ content = [f \in File |-> IF f \in Given THEN "caller" ELSE "absent"]
  /\ dir = (Given # {}) /\ faults = 0

\* Mutant: the file is not looked for first.
MissingOrNot(f) == TRUE
\* Whether an asset is still to be written: "never clobber".
Missing(f) == ~Exists(f)

\* The next asset: left alone if it exists, else its directory is made.
Look(b, f) ==
  /\ pc[b] = "staging" /\ f \in todo[b]
  /\ todo' = [todo EXCEPT ![b] = @ \ {f}]
  /\ IF Missing(f)
     THEN /\ pc' = [pc EXCEPT ![b] = "writing"] /\ file' = [file EXCEPT ![b] = f]
          /\ dir' = TRUE /\ made' = [made EXCEPT ![b] = @ \/ ~dir]
     ELSE UNCHANGED <<pc, file, dir, made>>
  /\ UNCHANGED <<created, found, content, faults>>

\* target.write_bytes; without the directory it raises.
Write(b) ==
  /\ pc[b] = "writing"
  /\ IF dir
     THEN /\ content' = [content EXCEPT ![file[b]] = "asset"]
          /\ created' = [created EXCEPT ![b] = @ \cup {file[b]}]
          /\ pc' = [pc EXCEPT ![b] = "staging"]
     ELSE /\ pc' = [pc EXCEPT ![b] = "cleanup"] /\ UNCHANGED <<content, created>>
  /\ UNCHANGED <<todo, file, made, found, dir, faults>>

\* The write breaks off: what it wrote is not on the list to remove.
WriteFails(b) ==
  /\ pc[b] = "writing" /\ dir /\ faults < MaxFaults
  /\ content' = [content EXCEPT ![file[b]] = "asset"]
  /\ pc' = [pc EXCEPT ![b] = "cleanup"] /\ faults' = faults + 1
  /\ UNCHANGED <<todo, file, created, made, found, dir>>

Staged(b) ==
  /\ pc[b] = "staging" /\ todo[b] = {}
  /\ pc' = [pc EXCEPT ![b] = "ready"]
  /\ UNCHANGED <<todo, file, created, made, found, content, dir, faults>>

\* Docker reads the context: a COPY whose source is gone fails the build.
Build(b) ==
  /\ pc[b] = "ready"
  /\ found' = [found EXCEPT ![b] = \A f \in File : Exists(f)]
  /\ pc' = [pc EXCEPT ![b] = "cleanup"]
  /\ UNCHANGED <<todo, file, created, made, content, dir, faults>>

\* _cleanup, files first; a directory is removed only if it is empty.
Cleanup(b) ==
  /\ pc[b] = "cleanup" /\ pc' = [pc EXCEPT ![b] = "done"]
  /\ content' = Keeps(created[b])
  /\ dir' = (dir /\ ~(made[b] /\ \A f \in File : content'[f] = "absent"))
  /\ UNCHANGED <<todo, file, created, made, found, faults>>

Die(b) ==
  /\ pc[b] \in {"staging", "writing", "ready", "cleanup"} /\ faults < MaxFaults
  /\ pc' = [pc EXCEPT ![b] = "dead"] /\ faults' = faults + 1
  /\ UNCHANGED <<todo, file, created, made, found, content, dir>>

Next ==
  \E b \in Builder :
    \/ \E f \in File : Look(b, f)
    \/ Write(b) \/ WriteFails(b) \/ Staged(b) \/ Build(b) \/ Cleanup(b) \/ Die(b)

Spec == Init /\ [][Next]_vars

-----------------------------------------------------------------------------
\* However the builds interleave, the caller's own assets stay theirs, and once
\* every build has ended without a fault no asset of a build is left.
ContextRestored ==
  /\ \A f \in Given : content[f] = "caller"
  /\ faults = 0 /\ (\A b \in Builder : pc[b] = "done") =>
       \A f \in File \ Given : content[f] = "absent"

\* What the staging is for: "so their COPY resolves".
CopiesResolve ==
  faults = 0 => \A b \in Builder : pc[b] = "done" => found[b]

\* "anything this method creates is removed when stack exits", the directory, too.
DirectoryRemoved ==
  faults = 0 /\ Given = {} /\ (\A b \in Builder : pc[b] = "done") => ~dir
=============================================================================
