------------------------------ MODULE MotionJob ------------------------------
(***************************************************************************)
(* The motions of one parent and the worker that makes them:               *)
(* enqueue_motion, every attempt of run_create_motion, update_motion_name, *)
(* soft_delete_motion and the deletion of the parent alias with its        *)
(* motions, over the task queue of TaskQueue and the file store.  A base   *)
(* is a parent that is never deleted; motions of different parents share   *)
(* nothing.                                                                *)
(*                                                                         *)
(* A motion's id is drawn at enqueue, so a task t, its motion row and its  *)
(* video share a name.  An attempt writes the video under a key of its     *)
(* own, commits the row, and only then copies the video to the row's key.  *)
(* The thumbnail, best effort in the code, is left out.                    *)
(***************************************************************************)
EXTENDS TaskQueue

CONSTANTS Names,     \* names a motion can have
          Custom,    \* the motion type that has no slot
          Presets,   \* the preset motion types, one slot each
          Unborn,    \* no row with that id
          Deleted    \* a row with deleted_at set

ASSUME MotionAssumption ==
  /\ Unborn # Deleted /\ {Unborn, Deleted} \cap Names = {}
  /\ Custom \notin Presets

VARIABLES asked,   \* [Tasks -> name in the task's payload, Unborn before]
          kind,    \* [Tasks -> motion_type in the task's payload]
          pc,      \* [Tasks -> where the current attempt is]
          motion,  \* [Tasks -> name of the live row, Unborn or Deleted]
          parent,  \* is the parent active?
          videos,  \* tasks whose video is under the key of the row
          temps,   \* <<task, attempt>> whose video is under the attempt's key
          litter,  \* those a killed worker or a failed delete left (history)
          late     \* tasks under way when the parent was deleted (history)

jobVars == <<asked, kind, pc, motion, parent, videos, temps, litter, late>>
vars == <<queueVars, jobVars>>

\* The steps of an attempt, by what an exception does there.
Unprotected == {"pickup", "claim", "lookup", "recancel", "complete", "fail"}
Working == {"reconcile", "read", "generate", "store", "cancel"}
Sweeping == {"sweep_done", "sweep_failed", "sweep_raise"}  \* no await inside
Steps == Unprotected \cup Working \cup {"commit", "promote"} \cup Sweeping

TypeOK ==
  /\ QueueTypeOK
  /\ asked \in [Tasks -> Names \cup {Unborn}]
  /\ kind \in [Tasks -> Presets \cup {Custom}]
  /\ pc \in [Tasks -> Steps \cup {"idle"}]
  /\ motion \in [Tasks -> Names \cup {Unborn, Deleted}]
  /\ parent \in BOOLEAN
  /\ videos \subseteq Tasks
  /\ litter \subseteq temps /\ temps \subseteq Tasks \X (1..MaxTries)
  /\ late \subseteq Tasks

Init ==
  /\ QueueInit
  /\ asked = [t \in Tasks |-> Unborn]
  /\ kind = [t \in Tasks |-> Custom]
  /\ pc = [t \in Tasks |-> "idle"]
  /\ motion = [t \in Tasks |-> Unborn]
  /\ parent = TRUE
  /\ videos = {} /\ temps = {} /\ litter = {} /\ late = {}

-----------------------------------------------------------------------------
\* get_active; get_any also finds a deleted row.
Live(t) == motion[t] \in Names
Exists(t) == motion[t] # Unborn

\* uq_motions_base_name, uq_motions_alias_name: partial indexes over the live rows.
NameTaken(n, t) == \E u \in Tasks \ {t} : motion[u] = n

\* Variant: the tables as they were before migration 20260430_015.
SlotNeverTaken(k, t) == FALSE

\* uq_motions_base_motion_type, uq_motions_alias_motion_type: presets only.
SlotTaken(k, t) == k \in Presets /\ \E u \in Tasks \ {t} : Live(u) /\ kind[u] = k

Insertable(t) == ~NameTaken(asked[t], t) /\ ~SlotTaken(kind[t], t)

\* Key of the current attempt; a retry draws another one.
TempOf(t) == <<t, tries[t]>>

Goto(t, step) == pc' = [pc EXCEPT ![t] = step]
EndAttempt(t) == Goto(t, "idle")
KeepQueue == UNCHANGED <<row, api, job, tries, faults, lost>>
KeepData == UNCHANGED <<asked, kind, motion, parent, videos, temps, litter, late>>

-----------------------------------------------------------------------------
(* The HTTP side.                                                          *)

\* enqueue_motion up to create_task; its probes are not reservations.
AdmitMotion(t, n, k) ==
  /\ api[t] = "idle"
  /\ parent
  /\ ~NameTaken(n, t) /\ ~SlotTaken(k, t)
  /\ asked' = [asked EXCEPT ![t] = n]
  /\ kind' = [kind EXCEPT ![t] = k]
  /\ SetApi(t, "admitted")
  /\ UNCHANGED <<row, job, tries, faults, lost, pc, motion, parent, videos, temps, litter, late>>

\* Presets are name-locked; what the probe misses the index refuses.
RenameMotion(t, n) ==
  /\ parent
  /\ Live(t) /\ kind[t] = Custom /\ motion[t] # n
  /\ ~NameTaken(n, t)
  /\ motion' = [motion EXCEPT ![t] = n]
  /\ KeepQueue
  /\ UNCHANGED <<asked, kind, pc, parent, videos, temps, litter, late>>

\* The video stays.
DeleteMotion(t) ==
  /\ parent
  /\ Live(t)
  /\ motion' = [motion EXCEPT ![t] = Deleted]
  /\ KeepQueue
  /\ UNCHANGED <<asked, kind, pc, parent, videos, temps, litter, late>>

\* Tasks the deletion of the parent finds between their probe and their commit.
UnderWay == {t \in Tasks : api[t] # "idle" /\ ~Exists(t)}

\* Variant: no cascade.
DeleteParentAlone ==
  /\ parent
  /\ parent' = FALSE
  /\ late' = UnderWay
  /\ KeepQueue
  /\ UNCHANGED <<asked, kind, pc, motion, videos, temps, litter>>

\* soft_delete_alias: the alias and its live motions, in one transaction.
DeleteParent ==
  /\ parent
  /\ parent' = FALSE
  /\ late' = UnderWay
  /\ motion' = [t \in Tasks |-> IF Live(t) THEN Deleted ELSE motion[t]]
  /\ KeepQueue
  /\ UNCHANGED <<asked, kind, pc, videos, temps, litter>>

-----------------------------------------------------------------------------
(* An attempt of run_create_motion.                                        *)

StartAttempt(t) == Deliver(t) /\ Goto(t, "pickup") /\ KeepData

PickupOver(t) ==
  /\ pc[t] = "pickup"
  /\ row[t].status \in {"absent"} \cup Terminal
  /\ EndAttempt(t)
  /\ JobReturns(t)
  /\ UNCHANGED <<row, api, tries, faults, lost>>
  /\ KeepData

\* A late cancellation of a task whose row an earlier attempt committed: the task
\* completes, and nobody looks whether the video got to the row's key.
PickupCancelled(t) ==
  /\ pc[t] = "pickup"
  /\ row[t].status = "running"
  /\ row[t].cancel
  /\ Goto(t, IF Exists(t) /\ ~row[t].result THEN "complete" ELSE "recancel")
  /\ KeepQueue
  /\ KeepData

PickupLive(t) ==
  /\ pc[t] = "pickup"
  /\ row[t].status \in {"queued", "running"}
  /\ ~row[t].cancel
  /\ Goto(t, IF row[t].status = "queued" THEN "claim" ELSE "lookup")
  /\ KeepQueue
  /\ KeepData

\* The compare-and-set queued -> running; losing it ends the attempt.
Claim(t) ==
  /\ pc[t] = "claim"
  /\ \/ /\ Claimable(row[t])
        /\ SetRow(t, Claimed(row[t]))
        /\ Goto(t, "lookup")
        /\ UNCHANGED job
     \/ /\ ~Claimable(row[t])
        /\ EndAttempt(t)
        /\ JobReturns(t)
        /\ UNCHANGED row
  /\ UNCHANGED <<api, tries, faults, lost>>
  /\ KeepData

\* Variant: as it was before the canonical-bytes verification.
LookupRowOnly(t) ==
  /\ pc[t] = "lookup"
  /\ Goto(t, IF Exists(t) THEN "complete" ELSE "reconcile")
  /\ KeepQueue
  /\ KeepData

\* Phase 1.5: the row and its video are there, only mark_completed is missing.  A
\* row without its video goes through the whole pipeline again.
Lookup(t) ==
  /\ pc[t] = "lookup"
  /\ Goto(t, IF Exists(t) /\ t \in videos THEN "complete" ELSE "reconcile")
  /\ KeepQueue
  /\ KeepData

\* A cancel check opens each stage of the work, and the stage may fail.
Stage(t, step, next) ==
  /\ pc[t] = step
  /\ IF StopRequested(row[t]) THEN Goto(t, "cancel") ELSE Goto(t, next) \/ Goto(t, "fail")
  /\ KeepQueue
  /\ KeepData

ResolvePrompt(t) == Stage(t, "reconcile", "read")
ReadParentImage(t) == Stage(t, "read", "generate")
GenerateVideo(t) == Stage(t, "generate", "store")

StoreTemp(t) ==
  /\ pc[t] = "store"
  /\ IF StopRequested(row[t]) THEN Goto(t, "cancel") /\ UNCHANGED temps
     ELSE \/ temps' = temps \cup {TempOf(t)} /\ Goto(t, "commit")
          \/ UNCHANGED temps /\ Goto(t, "fail")
  /\ KeepQueue
  /\ UNCHANGED <<asked, kind, motion, parent, videos, litter, late>>

\* Where the collision handling of the INSERT leads.
AfterInsert(t) ==
  IF Exists(t) THEN IF t \in videos THEN "sweep_done" ELSE "promote"
  ELSE IF Insertable(t) THEN "promote" ELSE "sweep_failed"

\* INSERT log and motion, COMMIT.  A collision with the id is an earlier attempt's
\* commit, and its missing video is promoted from this attempt's.
CommitMotion(t) ==
  /\ pc[t] = "commit"
  /\ motion' = IF ~Exists(t) /\ Insertable(t) THEN [motion EXCEPT ![t] = asked[t]] ELSE motion
  /\ Goto(t, AfterInsert(t))
  /\ KeepQueue
  /\ UNCHANGED <<asked, kind, parent, videos, temps, litter, late>>

\* Variant: a failed promotion is swallowed.
PromoteOrIgnore(t) ==
  /\ pc[t] = "promote"
  /\ \/ videos' = videos \cup {t} /\ UNCHANGED faults
     \/ Fault("storage") /\ UNCHANGED videos
  /\ Goto(t, "sweep_done")
  /\ UNCHANGED <<row, api, job, tries, lost, asked, kind, motion, parent, temps, litter, late>>

\* storage.copy from the attempt's key to the row's; a failure goes to a retry.
Promote(t) ==
  /\ pc[t] = "promote"
  /\ \/ videos' = videos \cup {t} /\ Goto(t, "sweep_done") /\ UNCHANGED faults
     \/ Fault("storage") /\ UNCHANGED videos /\ Goto(t, "sweep_raise")
  /\ UNCHANGED <<row, api, job, tries, lost, asked, kind, motion, parent, temps, litter, late>>

\* The finally block, whatever comes after it.
SweepTemp(t) ==
  /\ pc[t] \in Sweeping
  /\ \/ temps' = temps \ {TempOf(t)} /\ UNCHANGED <<litter, faults>>
     \/ Fault("storage") /\ litter' = litter \cup {TempOf(t)} /\ UNCHANGED temps
  /\ \/ pc[t] = "sweep_done" /\ Goto(t, "complete") /\ UNCHANGED job
     \/ pc[t] = "sweep_failed" /\ Goto(t, "fail") /\ UNCHANGED job
     \/ pc[t] = "sweep_raise" /\ EndAttempt(t) /\ JobRaises(t)
  /\ UNCHANGED <<row, api, tries, lost, asked, kind, motion, parent, videos, late>>

MarkCancelled(t) ==
  /\ pc[t] \in {"cancel", "recancel"}
  /\ SetRow(t, Cancelled(row[t]))
  /\ EndAttempt(t)
  /\ JobReturns(t)
  /\ UNCHANGED <<api, tries, faults, lost>>
  /\ KeepData

\* mark_failed and mark_completed end the attempt; when the CHECK refuses the
\* row the exception leaves the job function.
MarkOutcome(t, step, outcome) ==
  /\ pc[t] = step
  /\ EndAttempt(t)
  /\ \/ CheckMutex(outcome) /\ SetRow(t, outcome) /\ JobReturns(t)
     \/ ~CheckMutex(outcome) /\ UNCHANGED row /\ JobRaises(t)
  /\ UNCHANGED <<api, tries, faults, lost>>
  /\ KeepData

MarkFailed(t) == MarkOutcome(t, "fail", Failed(row[t]))
MarkCompleted(t) == MarkOutcome(t, "complete", Completed(row[t]))

-----------------------------------------------------------------------------
(* Faults of the worker.                                                   *)

\* Variant: the finally block and mark_completed inside the try of the work.
ErrorAlwaysFails(t) ==
  \/ pc[t] \in {"pickup", "claim", "lookup", "recancel", "fail"} /\ EndAttempt(t) /\ JobRaises(t)
  \/ pc[t] \in Working \cup {"complete"} /\ Goto(t, "fail") /\ UNCHANGED job
  \/ pc[t] = "commit" /\ Goto(t, "sweep_failed") /\ UNCHANGED job

\* Where an exception goes from the current step.
HandleError(t) ==
  \/ pc[t] \in Unprotected /\ EndAttempt(t) /\ JobRaises(t)
  \/ pc[t] \in Working /\ Goto(t, "fail") /\ UNCHANGED job
  \/ pc[t] = "commit" /\ Goto(t, "sweep_failed") /\ UNCHANGED job

\* A database call fails and changes nothing.
DatabaseError(t) ==
  /\ Fault("db")
  /\ HandleError(t)
  /\ UNCHANGED <<row, api, tries, lost>>
  /\ KeepData

RowWritten(t) ==
  IF pc[t] = "complete" THEN Completed(row[t])
  ELSE IF pc[t] = "fail" THEN Failed(row[t]) ELSE Cancelled(row[t])

\* The commit at the step of t takes effect; TRUE if it inserted the motion.
Inserts(t) == pc[t] = "commit" /\ ~Exists(t) /\ Insertable(t)

\* A commit succeeds in the database and fails in the worker: of the motion, or of
\* a write to the task row.
CommitReplyLost(t) ==
  /\ Fault("lost_commit")
  /\ HandleError(t)
  /\ lost' = lost \cup {t}
  /\ \/ /\ Inserts(t)
        /\ motion' = [motion EXCEPT ![t] = asked[t]]
        /\ UNCHANGED row
     \/ /\ pc[t] \in {"complete", "fail", "cancel", "recancel"}
        /\ CheckMutex(RowWritten(t))
        /\ SetRow(t, RowWritten(t))
        /\ UNCHANGED motion
  /\ UNCHANGED <<api, tries, asked, kind, parent, videos, temps, litter, late>>

\* The process is killed: no handler and no finally block runs.
WorkerCrash(t) ==
  /\ pc[t] # "idle"
  /\ Fault("crash")
  /\ EndAttempt(t)
  /\ SetJob(t, "ready")
  /\ litter' = litter \cup ({TempOf(t)} \cap temps)
  /\ UNCHANGED <<row, api, tries, lost, asked, kind, motion, parent, videos, temps, late>>

\* CancelledError at an await: no except clause catches it, the finally block
\* runs.  It may hit a commit that the database has already made durable.
Interrupt(t) ==
  /\ pc[t] \in Unprotected \cup Working \cup {"commit"}
  /\ EndAttempt(t)
  /\ \/ Fault("shutdown") /\ SetJob(t, "ready")
     \/ Fault("timeout") /\ SetJob(t, "gone")
  /\ temps' = IF pc[t] = "commit" THEN temps \ {TempOf(t)} ELSE temps
  /\ \/ UNCHANGED <<motion, lost>>
     \/ /\ "lost_commit" \in FaultKinds
        /\ Inserts(t)
        /\ motion' = [motion EXCEPT ![t] = asked[t]]
        /\ lost' = lost \cup {t}
  /\ UNCHANGED <<row, api, tries, asked, kind, parent, videos, litter, late>>

-----------------------------------------------------------------------------
TaskSide(t) ==
  /\ \/ InsertTask(t) \/ EnqueueJob(t) \/ RejectTask(t)
     \/ EnqueueFails(t) \/ EnqueueReplyLost(t) \/ ApiCrash(t)
     \/ CancelTask(t) \/ GiveUp(t) \/ CleanupTerminalTask(t)
  /\ UNCHANGED jobVars

Attempt(t) ==
  \/ StartAttempt(t) \/ PickupOver(t) \/ PickupCancelled(t) \/ PickupLive(t)
  \/ Claim(t) \/ Lookup(t) \/ ResolvePrompt(t) \/ ReadParentImage(t)
  \/ GenerateVideo(t) \/ StoreTemp(t) \/ CommitMotion(t) \/ Promote(t) \/ SweepTemp(t)
  \/ MarkCancelled(t) \/ MarkFailed(t) \/ MarkCompleted(t)

WorkerFault(t) ==
  DatabaseError(t) \/ CommitReplyLost(t) \/ WorkerCrash(t) \/ Interrupt(t)

User(t) ==
  \/ DeleteMotion(t)
  \/ \E n \in Names : RenameMotion(t, n)
  \/ \E n \in Names, k \in Presets \cup {Custom} : AdmitMotion(t, n, k)

Next ==
  \/ DeleteParent
  \/ \E t \in Tasks : User(t) \/ TaskSide(t) \/ Attempt(t) \/ WorkerFault(t)

Spec == Init /\ [][Next]_vars

-----------------------------------------------------------------------------
\* Two live motions of the parent share neither a name nor a preset slot, however
\* the probes of requests, the renames and the commits of workers interleave.
SlotsExclusive ==
  \A t, u \in Tasks : t # u /\ Live(t) /\ Live(u) =>
    /\ motion[t] # motion[u]
    /\ kind[t] = kind[u] => kind[t] = Custom

\* A task that completed without being cancelled has its video under the row's key,
\* whatever failed between the commit and the copy of earlier attempts.
CompletedMotionPlays ==
  \A t \in Tasks : row[t].status = "completed" /\ ~row[t].cancel => t \in videos

\* "Without this check, the retry would mark_completed against a row whose
\* `video_url` would 404 forever" (create_motion.py): no completed task lacks its video.
CompletedAlwaysPlays ==
  \A t \in Tasks : row[t].status = "completed" => t \in videos

\* A completed task committed its motion, and no video is under a key without a row;
\* a failed or cancelled task left no motion that plays.
OutcomeMatchesMotion ==
  \A t \in Tasks :
    /\ row[t].status = "completed" \/ t \in videos => Exists(t)
    /\ row[t].status \in {"failed", "cancelled"} /\ t \notin lost =>
         ~(Live(t) /\ t \in videos)

\* An attempt's own key is empty once the attempt is over: only a killed worker or a
\* failed delete leaves a file there.
NoTempLeft ==
  \A t \in Tasks, n \in 1..MaxTries :
    <<t, n>> \in temps \ litter =>
      n = tries[t] /\ pc[t] \in {"commit", "promote"} \cup Sweeping

\* Rows, videos and temporary files agree, through every kill, retry and failed copy.
FilesMatchMotions == CompletedMotionPlays /\ NoTempLeft

\* A live motion under a deleted alias is one whose task was under way at the deletion:
\* nothing that was live survives it, is admitted after it, or is revived by a retry.
LateMotionsExplained ==
  ~parent => \A t \in Tasks : Live(t) => t \in late
=============================================================================
