------------------------------- MODULE AliasJob -------------------------------
(***************************************************************************)
(* The aliases of one character and the worker that makes them:            *)
(* enqueue_alias, every attempt of run_create_alias, update_alias_name and *)
(* soft_delete_alias, over the task queue of TaskQueue and the file store. *)
(* Aliases of different characters share nothing.                          *)
(*                                                                         *)
(* An alias's id is drawn at enqueue, so a task t, its alias row and its   *)
(* file share a name.  A row is soft-deleted, never removed: its id stays  *)
(* taken, its name does not.  The thumbnail, best effort in the code, the  *)
(* inputs read from storage and the DTO are left out, and so is the        *)
(* character's own deletion, which only takes actions away from users.     *)
(***************************************************************************)
EXTENDS TaskQueue

CONSTANTS Names,     \* names an alias can have
          Unborn,    \* no row with that id
          Deleted    \* a row with deleted_at set

ASSUME AliasAssumption == Unborn # Deleted /\ {Unborn, Deleted} \cap Names = {}

VARIABLES asked,   \* [Tasks -> name in the task's payload, Unborn before]
          pc,      \* [Tasks -> where the current attempt is]
          alias,   \* [Tasks -> name of the live row, Unborn or Deleted]
          files,   \* image files in storage
          litter   \* files a killed worker or a failed delete left (history)

jobVars == <<asked, pc, alias, files, litter>>
vars == <<queueVars, jobVars>>

\* The steps of an attempt, by what an exception does there.
Unprotected == {"pickup", "claim", "lookup", "recancel", "complete", "fail"}
Working == {"reconcile", "generate", "store", "cancel"}  \* handled: mark_failed
Sweeping == {"sweep_failed"}                             \* no await inside
Steps == Unprotected \cup Working \cup {"commit"} \cup Sweeping

TypeOK ==
  /\ QueueTypeOK
  /\ asked \in [Tasks -> Names \cup {Unborn}]
  /\ pc \in [Tasks -> Steps \cup {"idle"}]
  /\ alias \in [Tasks -> Names \cup {Unborn, Deleted}]
  /\ files \subseteq Tasks
  /\ litter \subseteq Tasks

Init ==
  /\ QueueInit
  /\ asked = [t \in Tasks |-> Unborn]
  /\ pc = [t \in Tasks |-> "idle"]
  /\ alias = [t \in Tasks |-> Unborn]
  /\ files = {}
  /\ litter = {}

-----------------------------------------------------------------------------
\* get_active: soft-deleted rows are invisible.
Live(t) == alias[t] \in Names

\* Variant: the table without that index.
NameNeverTaken(n, t) == FALSE

\* uq_aliases_character_name, a partial index over the live rows.
NameTaken(n, t) == \E u \in Tasks \ {t} : alias[u] = n

\* Neither aliases_pkey nor the index refuses the row.
Insertable(t) == alias[t] = Unborn /\ ~NameTaken(asked[t], t)

Goto(t, step) == pc' = [pc EXCEPT ![t] = step]
EndAttempt(t) == Goto(t, "idle")
KeepQueue == UNCHANGED <<row, api, job, tries, faults, lost>>
KeepData == UNCHANGED <<asked, alias, files, litter>>

-----------------------------------------------------------------------------
(* The HTTP side.                                                          *)

\* enqueue_alias up to create_task; the probe of the name is not a reservation.
AdmitAlias(t, n) ==
  /\ api[t] = "idle"
  /\ ~NameTaken(n, t)
  /\ asked' = [asked EXCEPT ![t] = n]
  /\ SetApi(t, "admitted")
  /\ UNCHANGED <<row, job, tries, faults, lost, pc, alias, files, litter>>

\* update_alias_name: what the probe misses the index refuses.
RenameAlias(t, n) ==
  /\ Live(t) /\ alias[t] # n
  /\ ~NameTaken(n, t)
  /\ alias' = [alias EXCEPT ![t] = n]
  /\ KeepQueue
  /\ UNCHANGED <<asked, pc, files, litter>>

\* soft_delete_alias; the file stays.
DeleteAlias(t) ==
  /\ Live(t)
  /\ alias' = [alias EXCEPT ![t] = Deleted]
  /\ KeepQueue
  /\ UNCHANGED <<asked, pc, files, litter>>

-----------------------------------------------------------------------------
(* An attempt of run_create_alias.                                         *)

StartAttempt(t) == Deliver(t) /\ Goto(t, "pickup") /\ KeepData

\* The row is gone, or the task already ended: nothing to do.
PickupOver(t) ==
  /\ pc[t] = "pickup"
  /\ row[t].status \in {"absent"} \cup Terminal
  /\ EndAttempt(t)
  /\ JobReturns(t)
  /\ UNCHANGED <<row, api, tries, faults, lost>>
  /\ KeepData

\* Cancel was requested while an earlier attempt ran: too late if that attempt
\* committed the alias and nobody deleted it, otherwise the task ends here.
PickupCancelled(t) ==
  /\ pc[t] = "pickup"
  /\ row[t].status = "running"
  /\ row[t].cancel
  /\ Goto(t, IF Live(t) /\ ~row[t].result THEN "complete" ELSE "recancel")
  /\ KeepQueue
  /\ KeepData

PickupLive(t) ==
  /\ pc[t] = "pickup"
  /\ row[t].status \in {"queued", "running"}
  /\ ~row[t].cancel
  /\ Goto(t, IF row[t].status = "queued" THEN "claim" ELSE "lookup")
  /\ KeepQueue
  /\ KeepData

\* The compare-and-set queued -> running; losing it ends the attempt.
Claim(t) ==
  /\ pc[t] = "claim"
  /\ \/ /\ Claimable(row[t])
        /\ SetRow(t, Claimed(row[t]))
        /\ Goto(t, "lookup")
        /\ UNCHANGED job
     \/ /\ ~Claimable(row[t])
        /\ EndAttempt(t)
        /\ JobReturns(t)
        /\ UNCHANGED row
  /\ UNCHANGED <<api, tries, faults, lost>>
  /\ KeepData

\* Phase 1.5: a live row of an earlier attempt only needs mark_completed.
Lookup(t) ==
  /\ pc[t] = "lookup"
  /\ Goto(t, IF Live(t) THEN "complete" ELSE "reconcile")
  /\ KeepQueue
  /\ KeepData

\* A cancel check opens each stage of the work, and the stage may fail.
Stage(t, step, next) ==
  /\ pc[t] = step
  /\ IF StopRequested(row[t]) THEN Goto(t, "cancel") ELSE Goto(t, next) \/ Goto(t, "fail")
  /\ KeepQueue
  /\ KeepData

ReconcilePrompt(t) == Stage(t, "reconcile", "generate")
EditImage(t) == Stage(t, "generate", "store")

StoreOutput(t) ==
  /\ pc[t] = "store"
  /\ IF StopRequested(row[t]) THEN Goto(t, "cancel") /\ UNCHANGED files
     ELSE \/ files' = files \cup {t} /\ Goto(t, "commit")
          \/ UNCHANGED files /\ Goto(t, "fail")
  /\ KeepQueue
  /\ UNCHANGED <<asked, alias, litter>>

\* Variant: the row is merged, not inserted.
CommitUpsert(t) ==
  /\ pc[t] = "commit"
  /\ LET ok == ~NameTaken(asked[t], t)
     IN  /\ alias' = IF ok THEN [alias EXCEPT ![t] = asked[t]] ELSE alias
         /\ Goto(t, IF ok THEN "complete" ELSE "sweep_failed")
  /\ KeepQueue
  /\ UNCHANGED <<asked, files, litter>>

\* INSERT log and alias, COMMIT.  A collision with the id of a live row is an
\* earlier attempt's success; with a deleted row, or in the name, it is an error.
CommitAlias(t) ==
  /\ pc[t] = "commit"
  /\ alias' = IF Insertable(t) THEN [alias EXCEPT ![t] = asked[t]] ELSE alias
  /\ Goto(t, IF Insertable(t) \/ Live(t) THEN "complete" ELSE "sweep_failed")
  /\ KeepQueue
  /\ UNCHANGED <<asked, files, litter>>

\* The finally block, on the way to the except clause.
SweepFiles(t) ==
  /\ pc[t] \in Sweeping
  /\ \/ files' = files \ {t} /\ litter' = litter \ {t} /\ UNCHANGED faults
     \/ Fault("storage") /\ litter' = litter \cup {t} /\ UNCHANGED files
  /\ Goto(t, "fail")
  /\ UNCHANGED <<row, api, job, tries, lost, asked, alias>>

\* _commit_cancelled at a cancel check, mark_cancelled at pickup.
MarkCancelled(t) ==
  /\ pc[t] \in {"cancel", "recancel"}
  /\ SetRow(t, Cancelled(row[t]))
  /\ EndAttempt(t)
  /\ JobReturns(t)
  /\ UNCHANGED <<api, tries, faults, lost>>
  /\ KeepData

\* mark_failed and mark_completed end the attempt; when the CHECK refuses the
\* row the exception leaves the job function.
MarkOutcome(t, step, outcome) ==
  /\ pc[t] = step
  /\ EndAttempt(t)
  /\ \/ CheckMutex(outcome) /\ SetRow(t, outcome) /\ JobReturns(t)
     \/ ~CheckMutex(outcome) /\ UNCHANGED row /\ JobRaises(t)
  /\ UNCHANGED <<api, tries, faults, lost>>
  /\ KeepData

MarkFailed(t) == MarkOutcome(t, "fail", Failed(row[t]))
MarkCompleted(t) == MarkOutcome(t, "complete", Completed(row[t]))

-----------------------------------------------------------------------------
(* Faults of the worker.                                                   *)

\* Variant: no finally block around the writes.
NoFinally(t) ==
  \/ pc[t] \in Unprotected /\ EndAttempt(t) /\ JobRaises(t)
  \/ pc[t] \in Working \cup {"commit"} /\ Goto(t, "fail") /\ UNCHANGED job

\* Variant: alias_committed is not looked at.
ErrorAlwaysFails(t) ==
  \/ pc[t] \in Unprotected \ {"complete"} /\ EndAttempt(t) /\ JobRaises(t)
  \/ pc[t] \in Working \cup {"complete"} /\ Goto(t, "fail") /\ UNCHANGED job
  \/ pc[t] = "commit" /\ Goto(t, "sweep_failed") /\ UNCHANGED job

\* Where an exception goes from the current step.
HandleError(t) ==
  \/ pc[t] \in Unprotected /\ EndAttempt(t) /\ JobRaises(t)
  \/ pc[t] \in Working /\ Goto(t, "fail") /\ UNCHANGED job
  \/ pc[t] = "commit" /\ Goto(t, "sweep_failed") /\ UNCHANGED job

\* A database call fails and changes nothing.
DatabaseError(t) ==
  /\ Fault("db")
  /\ HandleError(t)
  /\ UNCHANGED <<row, api, tries, lost>>
  /\ KeepData

RowWritten(t) ==
  IF pc[t] = "complete" THEN Completed(row[t])
  ELSE IF pc[t] = "fail" THEN Failed(row[t]) ELSE Cancelled(row[t])

\* A commit succeeds in the database and fails in the worker: of the alias, or of
\* a write to the task row.
CommitReplyLost(t) ==
  /\ Fault("lost_commit")
  /\ HandleError(t)
  /\ lost' = lost \cup {t}
  /\ \/ /\ pc[t] = "commit" /\ Insertable(t)
        /\ alias' = [alias EXCEPT ![t] = asked[t]]
        /\ UNCHANGED row
     \/ /\ pc[t] \in {"complete", "fail", "cancel", "recancel"}
        /\ CheckMutex(RowWritten(t))
        /\ SetRow(t, RowWritten(t))
        /\ UNCHANGED alias
  /\ UNCHANGED <<api, tries, asked, files, litter>>

\* The process is killed: no handler and no finally block runs.
WorkerCrash(t) ==
  /\ pc[t] # "idle"
  /\ Fault("crash")
  /\ EndAttempt(t)
  /\ SetJob(t, "ready")
  /\ litter' = IF t \in files /\ alias[t] = Unborn THEN litter \cup {t} ELSE litter
  /\ UNCHANGED <<row, api, tries, lost, asked, alias, files>>

\* CancelledError at an await: no except clause catches it, the finally block
\* runs.  It may hit a commit that the database has already made durable.
Interrupt(t) ==
  /\ pc[t] \in Steps \ Sweeping
  /\ EndAttempt(t)
  /\ \/ Fault("shutdown") /\ SetJob(t, "ready")
     \/ Fault("timeout") /\ SetJob(t, "gone")
  /\ IF pc[t] = "commit" THEN files' = files \ {t} /\ litter' = litter \ {t}
     ELSE UNCHANGED <<files, litter>>
  /\ \/ UNCHANGED <<alias, lost>>
     \/ /\ "lost_commit" \in FaultKinds
        /\ pc[t] = "commit" /\ Insertable(t)
        /\ alias' = [alias EXCEPT ![t] = asked[t]]
        /\ lost' = lost \cup {t}
  /\ UNCHANGED <<row, api, tries, asked>>

-----------------------------------------------------------------------------
TaskSide(t) ==
  /\ \/ InsertTask(t) \/ EnqueueJob(t) \/ RejectTask(t)
     \/ EnqueueFails(t) \/ EnqueueReplyLost(t) \/ ApiCrash(t)
     \/ CancelTask(t) \/ GiveUp(t) \/ CleanupTerminalTask(t)
  /\ UNCHANGED jobVars

Attempt(t) ==
  \/ StartAttempt(t) \/ PickupOver(t) \/ PickupCancelled(t) \/ PickupLive(t)
  \/ Claim(t) \/ Lookup(t) \/ ReconcilePrompt(t) \/ EditImage(t) \/ StoreOutput(t)
  \/ CommitAlias(t) \/ SweepFiles(t)
  \/ MarkCancelled(t) \/ MarkFailed(t) \/ MarkCompleted(t)

WorkerFault(t) ==
  DatabaseError(t) \/ CommitReplyLost(t) \/ WorkerCrash(t) \/ Interrupt(t)

User(t) ==
  DeleteAlias(t) \/ \E n \in Names : AdmitAlias(t, n) \/ RenameAlias(t, n)

Next == \E t \in Tasks : User(t) \/ TaskSide(t) \/ Attempt(t) \/ WorkerFault(t)

Spec == Init /\ [][Next]_vars

-----------------------------------------------------------------------------
\* Two live aliases of the character never share a name, however the probes of
\* requests, the renames and the commits of workers interleave.
UniqueNames ==
  \A t, u \in Tasks : t # u /\ Live(t) => alias[t] # alias[u]

\* The file of a live alias is never swept - provided the worker learned that its
\* commit succeeded.
LiveAliasHasFile == \A t \in Tasks \ lost : Live(t) => t \in files

\* Outside the steps between upload and commit or sweep, only a killed worker or a
\* failed delete leaves a file without a row.
NoOrphanFile ==
  \A t \in files \ litter : alias[t] # Unborn \/ pc[t] \in {"commit"} \cup Sweeping

\* Aliases and the store agree both ways, through every order of upload, commit, sweep,
\* kill and deletion.
FilesMatchAliases == LiveAliasHasFile /\ NoOrphanFile

\* A completed task made its alias; a failed or cancelled one left none behind that
\* the user has not deleted.
OutcomeMatchesAlias ==
  \A t \in Tasks :
    /\ row[t].status = "completed" => alias[t] # Unborn
    /\ row[t].status \in {"failed", "cancelled"} /\ t \notin lost => ~Live(t)

\* Whatever step an attempt is at, row, queue, aliases and store are as its code
\* takes for granted there; above all, no attempt pays for an image while an earlier
\* attempt's alias is there.
StepAgrees(t) ==
  /\ pc[t] # "idle" <=> job[t] = "active"
  /\ api[t] \in {"idle", "admitted", "inserted"} => job[t] = "none"
  /\ api[t] = "rejected" /\ t \notin lost => job[t] = "none"
  /\ job[t] = "none" => alias[t] = Unborn
  /\ row[t].status = "queued" => pc[t] \in {"idle", "pickup", "claim"} /\ alias[t] = Unborn
  /\ row[t].status = "completed" => pc[t] \in {"idle", "pickup"}
  /\ row[t].result <=> row[t].status = "completed"
  /\ row[t].status = "failed" => row[t].error
  /\ api[t] \in {"idle", "admitted"} => row[t].status = "absent"
  /\ api[t] = "inserted" => row[t].status # "absent"
  /\ pc[t] \in {"lookup", "reconcile", "generate", "store", "commit", "complete"} \cup Sweeping
       => row[t].status \in {"running", "failed"}
  /\ pc[t] \notin {"idle", "pickup", "claim"} /\ t \notin lost => row[t].status = "running"
  /\ pc[t] = "complete" => alias[t] # Unborn
  /\ pc[t] \in {"cancel", "recancel", "fail"} \cup Sweeping /\ t \notin lost => ~Live(t)
  /\ pc[t] = "commit" => t \in files
  /\ Live(t) => pc[t] \notin {"reconcile", "generate", "store", "commit"}

AttemptAgrees == \A t \in Tasks : StepAgrees(t)

\* A deleted alias stays deleted: no retry of its job brings it back.
DeletionIsFinal ==
  [][\A t \in Tasks : alias[t] = Deleted => alias'[t] = Deleted]_vars
=============================================================================
