------------------------------- MODULE TaskRow -------------------------------
(***************************************************************************)
(* One row of the `tasks` table: what the repository functions write to    *)
(* it, and the CHECK constraints a write must satisfy.  Every operator     *)
(* maps a row to the row after the call; who may call it, and when, is     *)
(* the business of the modules that use this one.                          *)
(*                                                                         *)
(* Abstracted: timestamps (a terminal status and completed_at are always   *)
(* written together), progress, estimates and the payload.  `result'       *)
(* stands for result and entity_id, which mark_completed sets together.    *)
(***************************************************************************)

Terminal == {"completed", "failed", "cancelled"}

Row == [status : {"absent", "queued", "running"} \cup Terminal,
        cancel : BOOLEAN,      \* cancel_requested
        result : BOOLEAN,      \* result and entity_id are not NULL
        error  : BOOLEAN]      \* error is not NULL

\* No such row: never inserted, or deleted by the hourly cleanup.
Absent == [status |-> "absent", cancel |-> FALSE, result |-> FALSE, error |-> FALSE]

Inserted == [Absent EXCEPT !.status = "queued"]

\* Variant: the table without that constraint.
NoCheck(r) == TRUE

\* chk_tasks_result_error_mutex: the database refuses a row with both.
CheckMutex(r) == ~(r.result /\ r.error)

-----------------------------------------------------------------------------
\* transition_queued_to_running is an UPDATE with this WHERE clause.
Claimable(r) == r.status = "queued" /\ ~r.cancel
Claimed(r) == [r EXCEPT !.status = "running"]

\* mark_completed, mark_failed and mark_cancelled look the row up, do nothing
\* when it is gone, and overwrite the status whatever it was.
Completed(r) == IF r.status = "absent" THEN r
                ELSE [r EXCEPT !.status = "completed", !.result = TRUE]
Failed(r) == IF r.status = "absent" THEN r
             ELSE [r EXCEPT !.status = "failed", !.error = TRUE]
Cancelled(r) == IF r.status = "absent" THEN r ELSE [r EXCEPT !.status = "cancelled"]

\* cancel_task: a queued task ends at once, a running one is only flagged.
CancelRequested(r) ==
  [r EXCEPT !.cancel = TRUE,
            !.status = IF r.status = "queued" THEN "cancelled" ELSE r.status]

\* What a worker's cancel check answers: a task that vanished counts as cancelled.
StopRequested(r) == r.status = "absent" \/ r.cancel
=============================================================================
