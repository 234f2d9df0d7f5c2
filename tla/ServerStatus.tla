---------------------------- MODULE ServerStatus ----------------------------
(***************************************************************************)
(* The availability of a server row (AvailabilityStatus) and the sets of   *)
(* statuses the orchestrator, the watcher and the dashboard decide by.     *)
(***************************************************************************)

\* A row that has not been inserted yet.
NoRow == "NO_ROW"

AvailabilityStatus ==
    {"ALIVE", "FINISHED", "REUSED", "FAILED_TO_START", "STOPPED", "KILLED",
     "CRASHED", "DELETION_FAILED", "RESTART_FAILED"}

Terminal ==
    {"FAILED_TO_START", "KILLED", "STOPPED", "CRASHED", "DELETION_FAILED",
     "RESTART_FAILED"}

Usable == {"ALIVE", "REUSED"}

\* Statuses in which a server's share is no longer counted against its rule.
\* FINISHED (reusable) and DELETION_FAILED (perhaps still running) keep it.
QuotaReleasing ==
    {"STOPPED", "KILLED", "FAILED_TO_START", "CRASHED", "RESTART_FAILED"}

\* Statuses whose row the dashboard expects to have a Deployment.
ExpectsDeployment == {"ALIVE", "REUSED", "FINISHED"}
=============================================================================
