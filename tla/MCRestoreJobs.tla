--------------------------- MODULE MCRestoreJobs ---------------------------
(* RestoreJobs: one job, no constants to choose. *)
EXTENDS RestoreJobs
=============================================================================
