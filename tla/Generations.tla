---------------------------- MODULE Generations ----------------------------
(***************************************************************************)
(* The part of a persisted service row that says which generation is being *)
(* deployed and how that ended, and the statements that settle a           *)
(* generation (core/app_build.py, db/queries/service_config.py).  Each     *)
(* operator maps the row the database holds AT UPDATE TIME to the new row, *)
(* so its guard is evaluated by the database and not on the caller's       *)
(* earlier read.  A row is a record with at least these fields:            *)
(*   status, desired   status and desired_state of the job                 *)
(*   bv      build_version, which also names the image tag                 *)
(*   prev    the version of previous_image, 0 when there is none           *)
(***************************************************************************)
EXTENDS Naturals

\* A job status; `cancelled' plays no part for a service row.
Status == {"building", "scheduled", "running", "degraded", "restarting",
           "stopped", "failed", "completed"}
Terminal == {"stopped", "failed", "completed"}
Desired == {"running"} \cup Terminal

\* (mutant) A settled row is never looked at again.
ReconcilableByStatus(r) == r.status \notin Terminal

\* get_reconcilable_services: not settled, or settled away from what is desired.
Reconcilable(r) == r.status \notin Terminal \/ r.desired # r.status

---------------------------------------------------------------------------
\* revert_service_config_guarded, with the blob _settle_failed_generation writes:
\* back to previous_image when there is one, an operator's stop preserved.
Reverted(r, ver) ==
  IF r.bv # ver THEN r
  ELSE [r EXCEPT !.bv = IF r.prev # 0 THEN r.prev ELSE @,
                 !.status = "running",
                 !.desired = IF @ \in {"stopped", "failed"} THEN @ ELSE "running"]

\* The columns of the terminal settle; settle_failed_guarded writes them.
SettledTerminal(r) == [r EXCEPT !.status = "failed", !.desired = "failed"]

\* _settle_failed_generation of generation ver: nothing once a newer generation
\* owns the row, else a revert while the old container exists, else terminal.
SettleFailedGeneration(r, ver, exists) ==
  IF r.bv # ver THEN r
  ELSE IF exists THEN Reverted(r, ver) ELSE SettledTerminal(r)
=============================================================================
