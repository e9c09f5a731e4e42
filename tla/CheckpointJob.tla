---------------------------- MODULE CheckpointJob ----------------------------
(***************************************************************************)
(* The creation session and the worker that fills it: enqueue_checkpoint,  *)
(* every attempt of run_create_checkpoint from pickup to its last commit,  *)
(* select_base and abandon_session, over the task queue of TaskQueue and   *)
(* the file store.                                                         *)
(*                                                                         *)
(* A checkpoint's id is drawn at enqueue and travels in the task's         *)
(* payload, so a checkpoint, its output file and its task share a name:    *)
(* t \in checkpoints is the row, t \in files the PNG under its key.  The   *)
(* thumbnail, best effort in the code, is left out, and so are prompts,    *)
(* images, logs and the DTO.                                               *)
(***************************************************************************)
EXTENDS TaskQueue

CONSTANTS Sessions,     \* creation sessions, each begun in_progress
          SeqNumbers,   \* sequence numbers the Redis counter may hand out
          NoTask,       \* "no checkpoint"
          NoPayload     \* payload of a task not admitted yet

ASSUME CheckpointAssumption == NoTask \notin Tasks

VARIABLES payload,      \* [Tasks -> input_payload of the task, NoPayload before]
          pc,           \* [Tasks -> where the current attempt is]
          session,      \* [Sessions -> status]
          base,         \* [Sessions -> checkpoint the base was made from]
          checkpoints,  \* committed checkpoint rows
          files,        \* output files in storage
          litter        \* files a killed worker or a failed delete left (history)

jobVars == <<payload, pc, session, base, checkpoints, files, litter>>
vars == <<queueVars, jobVars>>

Payloads == [session : Sessions, sequence : SeqNumbers, source : Tasks \cup {NoTask}]

\* The steps of an attempt, by what an exception does there.
Unprotected == {"pickup", "claim", "lookup", "recancel", "complete", "fail"}
Working == {"reconcile", "generate", "store", "cancel"}  \* handled: mark_failed
Storing == {"lock", "commit", "gone"}                    \* first the finally block
Sweeping == {"sweep_cancelled", "sweep_failed"}          \* no await inside
Steps == Unprotected \cup Working \cup Storing \cup Sweeping

TypeOK ==
  /\ QueueTypeOK
  /\ payload \in [Tasks -> Payloads \cup {NoPayload}]
  /\ pc \in [Tasks -> Steps \cup {"idle"}]
  /\ session \in [Sessions -> {"in_progress", "completed", "abandoned"}]
  /\ base \in [Sessions -> Tasks \cup {NoTask}]
  /\ checkpoints \subseteq Tasks
  /\ files \subseteq Tasks
  /\ litter \subseteq Tasks

Init ==
  /\ QueueInit
  /\ payload = [t \in Tasks |-> NoPayload]
  /\ pc = [t \in Tasks |-> "idle"]
  /\ session = [s \in Sessions |-> "in_progress"]
  /\ base = [s \in Sessions |-> NoTask]
  /\ checkpoints = {}
  /\ files = {}
  /\ litter = {}

-----------------------------------------------------------------------------
SessionOf(t) == payload[t].session

\* Variant: the session row is read without FOR UPDATE.
SessionNeverLocked(s) == FALSE

\* SELECT ... FOR UPDATE on the session row: held by an attempt from the status
\* read to its commit or rollback; a killed attempt's connection releases it.
SessionLocked(s) == \E t \in Tasks : pc[t] = "commit" /\ SessionOf(t) = s

\* uq_session_sequence
SequenceTaken(t) ==
  \E u \in checkpoints \ {t} : /\ SessionOf(u) = SessionOf(t)
                               /\ payload[u].sequence = payload[t].sequence

Goto(t, step) == pc' = [pc EXCEPT ![t] = step]
EndAttempt(t) == Goto(t, "idle")
KeepQueue == UNCHANGED <<row, api, job, tries, faults, lost>>
KeepData == UNCHANGED <<payload, session, base, checkpoints, files, litter>>
KeepRows == UNCHANGED <<payload, session, base, checkpoints>>

-----------------------------------------------------------------------------
(* The HTTP side.                                                          *)

\* enqueue_checkpoint up to create_task: the session is read without a lock, a
\* remix source must be a checkpoint of the same session, the counter answers
\* with some number.
AdmitCheckpoint(t, s, n, source) ==
  /\ api[t] = "idle"
  /\ session[s] = "in_progress"
  /\ source # NoTask => source \in checkpoints /\ SessionOf(source) = s
  /\ payload' = [payload EXCEPT ![t] = [session |-> s, sequence |-> n, source |-> source]]
  /\ SetApi(t, "admitted")
  /\ UNCHANGED <<row, job, tries, faults, lost, pc, session, base, checkpoints, files, litter>>

SelectBase(t) ==
  /\ t \in checkpoints
  /\ session[SessionOf(t)] = "in_progress"
  /\ ~SessionLocked(SessionOf(t))
  /\ session' = [session EXCEPT ![SessionOf(t)] = "completed"]
  /\ base' = [base EXCEPT ![SessionOf(t)] = t]
  /\ KeepQueue
  /\ UNCHANGED <<payload, pc, checkpoints, files, litter>>

AbandonSession(s) ==
  /\ session[s] = "in_progress"
  /\ ~SessionLocked(s)
  /\ session' = [session EXCEPT ![s] = "abandoned"]
  /\ KeepQueue
  /\ UNCHANGED <<payload, pc, base, checkpoints, files, litter>>

-----------------------------------------------------------------------------
(* An attempt of run_create_checkpoint.                                    *)

StartAttempt(t) ==
  /\ Deliver(t)
  /\ Goto(t, "pickup")
  /\ KeepData

\* The row is gone, or the task already ended: nothing to do.
PickupOver(t) ==
  /\ pc[t] = "pickup"
  /\ row[t].status \in {"absent"} \cup Terminal
  /\ EndAttempt(t)
  /\ JobReturns(t)
  /\ UNCHANGED <<row, api, tries, faults, lost>>
  /\ KeepData

\* Variant: a cancelled task is ended without looking for its checkpoint.
PickupCancelledBlind(t) ==
  /\ pc[t] = "pickup"
  /\ row[t].status = "running"
  /\ row[t].cancel
  /\ Goto(t, "recancel")
  /\ KeepQueue
  /\ KeepData

\* Cancel was requested while an earlier attempt ran: too late if that attempt
\* committed the checkpoint, otherwise the task ends here.
PickupCancelled(t) ==
  /\ pc[t] = "pickup"
  /\ row[t].status = "running"
  /\ row[t].cancel
  /\ Goto(t, IF t \in checkpoints /\ ~row[t].result THEN "complete" ELSE "recancel")
  /\ KeepQueue
  /\ KeepData

PickupLive(t) ==
  /\ pc[t] = "pickup"
  /\ row[t].status \in {"queued", "running"}
  /\ ~row[t].cancel
  /\ Goto(t, IF row[t].status = "queued" THEN "claim" ELSE "lookup")
  /\ KeepQueue
  /\ KeepData

\* The compare-and-set queued -> running; losing it ends the attempt.
Claim(t) ==
  /\ pc[t] = "claim"
  /\ \/ /\ Claimable(row[t])
        /\ SetRow(t, Claimed(row[t]))
        /\ Goto(t, "lookup")
        /\ UNCHANGED job
     \/ /\ ~Claimable(row[t])
        /\ EndAttempt(t)
        /\ JobReturns(t)
        /\ UNCHANGED row
  /\ UNCHANGED <<api, tries, faults, lost>>
  /\ KeepData

\* Variant: every attempt does the work again.
LookupSkipped(t) == pc[t] = "lookup" /\ Goto(t, "reconcile") /\ KeepQueue /\ KeepData

\* Phase 1.5: a row an earlier attempt committed only needs mark_completed.
Lookup(t) ==
  /\ pc[t] = "lookup"
  /\ Goto(t, IF t \in checkpoints THEN "complete" ELSE "reconcile")
  /\ KeepQueue
  /\ KeepData

\* A cancel check opens each stage of the work, and the stage may fail.
ReconcilePrompt(t) ==
  /\ pc[t] = "reconcile"
  /\ IF StopRequested(row[t]) THEN Goto(t, "cancel")
     ELSE Goto(t, "generate") \/ Goto(t, "fail")
  /\ KeepQueue
  /\ KeepData

\* A remix reads its source's file first: STORAGE_NOT_FOUND when it is missing.
GenerateImage(t) ==
  /\ pc[t] = "generate"
  /\ IF StopRequested(row[t]) THEN Goto(t, "cancel")
     ELSE \/ payload[t].source \in files \cup {NoTask} /\ Goto(t, "store")
          \/ Goto(t, "fail")
  /\ KeepQueue
  /\ KeepData

\* Variant: no cancel check after the image was generated.
StoreOutputUnasked(t) ==
  /\ pc[t] = "store"
  /\ files' = files \cup {t}
  /\ Goto(t, "lock")
  /\ KeepQueue
  /\ KeepRows
  /\ UNCHANGED litter

StoreOutput(t) ==
  /\ pc[t] = "store"
  /\ IF StopRequested(row[t]) THEN Goto(t, "cancel") /\ UNCHANGED files
     ELSE \/ files' = files \cup {t} /\ Goto(t, "lock")
          \/ UNCHANGED files /\ Goto(t, "fail")
  /\ KeepQueue
  /\ KeepRows
  /\ UNCHANGED litter

\* The session's status is read under its row lock.
LockSession(t) ==
  /\ pc[t] = "lock"
  /\ ~SessionLocked(SessionOf(t))
  /\ Goto(t, IF session[SessionOf(t)] = "in_progress" THEN "commit" ELSE "gone")
  /\ KeepQueue
  /\ KeepData

\* Variant: output_orphaned is not reset after the commit.
CommitKeepsOrphanFlag(t) ==
  /\ pc[t] = "commit"
  /\ ~SequenceTaken(t)
  /\ checkpoints' = checkpoints \cup {t}
  /\ files' = files \ {t}
  /\ Goto(t, "complete")
  /\ KeepQueue
  /\ UNCHANGED <<payload, session, base, litter>>

\* INSERT log and checkpoint, COMMIT.  A primary-key collision means an earlier
\* attempt's row, and is taken as success.
CommitCheckpoint(t) ==
  /\ pc[t] = "commit"
  /\ \/ /\ SequenceTaken(t)
        /\ Goto(t, "sweep_failed")
        /\ UNCHANGED checkpoints
     \/ /\ ~SequenceTaken(t)
        /\ checkpoints' = checkpoints \cup {t}
        /\ Goto(t, "complete")
  /\ KeepQueue
  /\ UNCHANGED <<payload, session, base, files, litter>>

\* The session ended meanwhile: _commit_cancelled, then the finally block.
CancelSessionGone(t) ==
  /\ pc[t] = "gone"
  /\ SetRow(t, Cancelled(row[t]))
  /\ Goto(t, "sweep_cancelled")
  /\ UNCHANGED <<api, job, tries, faults, lost>>
  /\ KeepData

\* The finally block deletes the files no committed row is known to own.
SweepFiles(t) ==
  /\ pc[t] \in Sweeping
  /\ \/ files' = files \ {t} /\ litter' = litter \ {t} /\ UNCHANGED faults
     \/ Fault("storage") /\ litter' = litter \cup {t} /\ UNCHANGED files
  /\ \/ pc[t] = "sweep_failed" /\ Goto(t, "fail") /\ UNCHANGED job
     \/ pc[t] = "sweep_cancelled" /\ EndAttempt(t) /\ JobReturns(t)
  /\ UNCHANGED <<row, api, tries, lost>>
  /\ KeepRows

\* _commit_cancelled at a cancel check, mark_cancelled at pickup.
MarkCancelled(t) ==
  /\ pc[t] \in {"cancel", "recancel"}
  /\ SetRow(t, Cancelled(row[t]))
  /\ EndAttempt(t)
  /\ JobReturns(t)
  /\ UNCHANGED <<api, tries, faults, lost>>
  /\ KeepData

\* mark_failed and mark_completed end the attempt; when the CHECK refuses the
\* row the exception leaves the job function.
MarkOutcome(t, step, outcome) ==
  /\ pc[t] = step
  /\ EndAttempt(t)
  /\ \/ CheckMutex(outcome) /\ SetRow(t, outcome) /\ JobReturns(t)
     \/ ~CheckMutex(outcome) /\ UNCHANGED row /\ JobRaises(t)
  /\ UNCHANGED <<api, tries, faults, lost>>
  /\ KeepData

MarkFailed(t) == MarkOutcome(t, "fail", Failed(row[t]))
MarkCompleted(t) == MarkOutcome(t, "complete", Completed(row[t]))

-----------------------------------------------------------------------------
(* Faults of the worker.                                                   *)

\* Variant: no finally block around the writes.
NoFinally(t) ==
  \/ pc[t] \in Unprotected /\ EndAttempt(t) /\ JobRaises(t)
  \/ pc[t] \in Working \cup Storing /\ Goto(t, "fail") /\ UNCHANGED job

\* Variant: an exception after the commit is swallowed.
ErrorSwallowed(t) ==
  \/ pc[t] \in Unprotected /\ EndAttempt(t) /\ JobReturns(t)
  \/ pc[t] \in Working /\ Goto(t, "fail") /\ UNCHANGED job
  \/ pc[t] \in Storing /\ Goto(t, "sweep_failed") /\ UNCHANGED job

\* Where an exception goes from the current step.
HandleError(t) ==
  \/ pc[t] \in Unprotected /\ EndAttempt(t) /\ JobRaises(t)
  \/ pc[t] \in Working /\ Goto(t, "fail") /\ UNCHANGED job
  \/ pc[t] \in Storing /\ Goto(t, "sweep_failed") /\ UNCHANGED job

\* A database call fails and changes nothing.
DatabaseError(t) ==
  /\ Fault("db")
  /\ HandleError(t)
  /\ UNCHANGED <<row, api, tries, lost>>
  /\ KeepData

RowWritten(t) ==
  IF pc[t] = "complete" THEN Completed(row[t])
  ELSE IF pc[t] = "fail" THEN Failed(row[t]) ELSE Cancelled(row[t])

\* A commit succeeds in the database and fails in the worker: of the checkpoint
\* row, or of a write to the task row.
CommitReplyLost(t) ==
  /\ Fault("lost_commit")
  /\ HandleError(t)
  /\ lost' = lost \cup {t}
  /\ \/ /\ pc[t] = "commit" /\ ~SequenceTaken(t)
        /\ checkpoints' = checkpoints \cup {t}
        /\ UNCHANGED row
     \/ /\ pc[t] \in {"complete", "fail", "cancel", "recancel", "gone"}
        /\ CheckMutex(RowWritten(t))
        /\ SetRow(t, RowWritten(t))
        /\ UNCHANGED checkpoints
  /\ UNCHANGED <<api, tries, payload, session, base, files, litter>>

\* The process is killed: no handler and no finally block runs.
WorkerCrash(t) ==
  /\ pc[t] # "idle"
  /\ Fault("crash")
  /\ EndAttempt(t)
  /\ SetJob(t, "ready")
  /\ litter' = IF t \in files \ checkpoints THEN litter \cup {t} ELSE litter
  /\ UNCHANGED <<row, api, tries, lost, files>>
  /\ KeepRows

\* CancelledError at an await: no except clause catches it, the finally block
\* runs.  It may hit a commit that the database has already made durable.
Interrupt(t) ==
  /\ pc[t] \in Steps \ Sweeping
  /\ EndAttempt(t)
  /\ \/ Fault("shutdown") /\ SetJob(t, "ready")
     \/ Fault("timeout") /\ SetJob(t, "gone")
  /\ IF pc[t] \in Storing THEN files' = files \ {t} /\ litter' = litter \ {t}
     ELSE UNCHANGED <<files, litter>>
  /\ \/ UNCHANGED <<checkpoints, lost>>
     \/ /\ "lost_commit" \in FaultKinds
        /\ pc[t] = "commit" /\ ~SequenceTaken(t)
        /\ checkpoints' = checkpoints \cup {t}
        /\ lost' = lost \cup {t}
  /\ UNCHANGED <<row, api, tries, payload, session, base>>

-----------------------------------------------------------------------------
Service(t) ==
  /\ InsertTask(t) \/ EnqueueJob(t) \/ RejectTask(t)
  /\ UNCHANGED jobVars

QueueSide(t) ==
  /\ \/ EnqueueFails(t) \/ EnqueueReplyLost(t) \/ ApiCrash(t)
     \/ CancelTask(t) \/ GiveUp(t) \/ CleanupTerminalTask(t)
  /\ UNCHANGED jobVars

Attempt(t) ==
  \/ PickupOver(t) \/ PickupCancelled(t) \/ PickupLive(t) \/ Claim(t) \/ Lookup(t)
  \/ ReconcilePrompt(t) \/ GenerateImage(t) \/ StoreOutput(t)
  \/ LockSession(t) \/ CommitCheckpoint(t) \/ CancelSessionGone(t) \/ SweepFiles(t)
  \/ MarkCancelled(t) \/ MarkFailed(t) \/ MarkCompleted(t)

WorkerFault(t) ==
  DatabaseError(t) \/ CommitReplyLost(t) \/ WorkerCrash(t) \/ Interrupt(t)

User ==
  \/ \E t \in Tasks, s \in Sessions, n \in SeqNumbers, source \in Tasks \cup {NoTask} :
       AdmitCheckpoint(t, s, n, source)
  \/ \E t \in Tasks : SelectBase(t)
  \/ \E s \in Sessions : AbandonSession(s)

Next ==
  \/ User
  \/ \E t \in Tasks : \/ Service(t) \/ QueueSide(t)
                      \/ StartAttempt(t) \/ Attempt(t) \/ WorkerFault(t)

Spec == Init /\ [][Next]_vars

\* A running request, the worker's poll loop and a running attempt go on; users,
\* the cleanup and the faults owe nothing.
Fairness ==
  \A t \in Tasks : /\ WF_vars(Service(t))
                   /\ WF_vars(StartAttempt(t))
                   /\ WF_vars(Attempt(t))

FairSpec == Spec /\ Fairness

-----------------------------------------------------------------------------
(* Safety.                                                                 *)

\* The file of a committed checkpoint is never swept, whatever the attempts
\* after the commit do - provided the worker learned that it committed.
CommittedRowHasFile == checkpoints \ lost \subseteq files

\* The other way round: outside the few steps between the upload and the commit
\* or the sweep, only a killed worker or a failed delete leaves a file without a row.
NoOrphanFile ==
  \A t \in files \ (checkpoints \cup litter) : pc[t] \in Storing \cup Sweeping

\* What a task reports is what happened: it is completed only with its checkpoint
\* committed, and it never reports failure or cancellation of a committed one.
OutcomeMatchesRow ==
  \A t \in Tasks :
    /\ row[t].status = "completed" => t \in checkpoints
    /\ row[t].status \in {"failed", "cancelled"} /\ t \notin lost => t \notin checkpoints

\* No attempt pays for an image, or uploads one, once an earlier attempt committed.
NeverRegenerated ==
  \A t \in checkpoints : pc[t] \notin {"reconcile", "generate", "store", "lock", "commit"}

\* What the row, the queue and the store agree on while an attempt is at a step.
StepAgrees(t) ==
  /\ pc[t] # "idle" <=> job[t] = "active"
  /\ api[t] \in {"idle", "admitted", "inserted"} => job[t] = "none"
  /\ api[t] = "rejected" /\ t \notin lost => job[t] = "none"
  /\ job[t] = "none" => t \notin checkpoints
  /\ row[t].status = "queued" => pc[t] \in {"idle", "pickup", "claim"} /\ t \notin checkpoints
  /\ row[t].status = "completed" => pc[t] \in {"idle", "pickup"}
  /\ row[t].result <=> row[t].status = "completed"
  /\ row[t].status = "failed" => row[t].error
  /\ api[t] \in {"idle", "admitted"} => row[t].status = "absent"
  /\ api[t] = "inserted" => row[t].status # "absent"
  /\ pc[t] \in {"lookup", "reconcile", "generate", "store", "complete"} \cup Storing
       => row[t].status \in {"running", "failed"}
  /\ pc[t] \notin {"idle", "pickup", "claim", "sweep_cancelled"} /\ t \notin lost
       => row[t].status = "running"
  /\ pc[t] = "complete" => t \in checkpoints
  /\ pc[t] \in {"cancel", "recancel", "fail", "gone"} \cup Sweeping /\ t \notin lost
       => t \notin checkpoints
  /\ pc[t] \in {"lock", "commit"} => t \in files
  /\ pc[t] = "commit" => session[SessionOf(t)] = "in_progress"

\* Whatever step an attempt is at, row, queue, session and store are as its code
\* takes for granted there: the strengthening that makes the invariants above inductive.
AttemptAgrees == \A t \in Tasks : StepAgrees(t)

\* A session that was completed or abandoned gets no checkpoint any more, not even
\* from a worker that was past every check when it ended.
EndedSessionIsFrozen ==
  [][\A t \in checkpoints' \ checkpoints : session[SessionOf(t)] = "in_progress"]_vars

-----------------------------------------------------------------------------
(* Progress.                                                               *)

\* cancel_task on a running task whose attempt is not yet past the last check:
\* no checkpoint appears, not in that attempt and not in a later one.
CancelHonoured ==
  \A t \in Tasks :
    [](row[t].cancel /\ t \notin checkpoints /\ pc[t] \notin {"lock", "commit"}
         => [](t \notin checkpoints))

\* A task whose id was returned ends, as long as the faults do not use up its tries.
TaskEnds ==
  \A t \in Tasks : api[t] = "returned" ~> row[t].status \in Terminal \cup {"absent"}

-----------------------------------------------------------------------------
(* What the repository's documents say, and the code does not keep.        *)

\* The finally block deletes files only "when no committed row references them".
CommittedRowAlwaysHasFile == checkpoints \subseteq files

\* A task stuck in `running' is turned into `failed' by a scheduled job.
StuckTaskFails ==
  \A t \in Tasks : row[t].status = "running" ~> row[t].status # "running"
=============================================================================
