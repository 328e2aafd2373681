------------------------------ MODULE JobModel ------------------------------
(***************************************************************************)
(* The vocabulary every part of JobFlow shares (internal/model): job ids   *)
(* and the values of jobs.status.                                          *)
(***************************************************************************)
EXTENDS Integers

CONSTANTS
  JobIds,  \* what gen_random_uuid() may return
  NoJob    \* not an id: what a process without a job holds

ASSUME NoJobAssumption == NoJob \notin JobIds

\* The constants of model.go, and the literal "scheduled" that only the
\* repository writes.  No statement ever writes "failed".
Statuses ==
  {"queued", "running", "completed", "failed", "cancelled", "retrying",
   "dead_letter", "scheduled"}
=============================================================================
